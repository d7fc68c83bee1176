------------------------- MODULE ChannelSync_proofs -------------------------
(***************************************************************************)
(* Proofs about ChannelSync, for any number of servers, channels, clients  *)
(* and faults.  None of its properties is inductive: they rest on where    *)
(* each task may be, on what is true of a channel that does not exist yet, *)
(* and on what the start knows of the part of the index it has not reached.*)
(***************************************************************************)
EXTENDS ChannelSync, SequenceTheorems, FiniteSetTheorems, TLAPS

TaskType == [pc : TaskPlaces, chan : Channels \cup {None},
             next : Nat, size : Nat, todo : SUBSET Servers, ok : BOOLEAN]

-----------------------------------------------------------------------------
(* The invariants. *)

\* Where each kind of task may be, and what it works on; a listener runs only
\* when the start is done.
Resting == {"off", "start", "up", "listen", "done"}
Booted  == {"start", "load", "add", "init", "dead"}

PlacesInv ==
    /\ task[Main].pc \in Booted \cup {"up"}
    /\ \A s \in Servers :
          task[s].pc \in {"off", "listen", "check", "lookup", "init", "set", "add"}
    /\ \A c \in Mine : /\ task[c].pc \in {"off", "init", "set", "add", "done"}
                       /\ task[c].pc \in {"init", "set", "add"} => task[c].chan = c
    /\ \A t \in Tasks : task[t].pc \in Resting => task[t].chan = None
    /\ ~ Up => \A s \in Servers : task[s].pc = "off"
    /\ Up => task[Main].size = 0 /\ task[Main].next = 0

\* The list of a server names only what the server has.
ServersInv == \A s \in Servers : \A i \in 1..Len(srvList[s]) : srvList[s][i] \in onServer[s]

\* A channel that was not created yet is nowhere.
UnbornInv ==
    \A c \in Mine : task[c].pc = "off" =>
        /\ \A s \in Servers : c \notin onServer[s]
        /\ c \notin records \cup Indexed \cup listed \cup local.deleted
        /\ \A t \in Tasks : task[t].chan # c

\* The list of deleted channels only grows, in memory before the file; what only
\* memory has is still in the window.
DeletedInv ==
    /\ bootDeleted \subseteq saved.deleted
    /\ saved.deleted \subseteq local.deleted
    /\ local.deleted \subseteq saved.deleted \cup listed
    /\ deleting.pc # "no" => deleting.chan \in saved.deleted

\* A success of one request, and so everything that follows, means that the
\* channel is on a server.
Published1(c) == Servers = {} \/ \E s \in Servers : c \in onServer[s]

Backed(t) == (task[t].pc = "init" /\ task[t].ok) \/ task[t].pc = "set"
                => Published1(task[t].chan)

PublishedInv == (\A t \in Tasks : Backed(t)) /\ StoredIsPublished

\* No task brings back what was deleted at the last start.
Bringing == {"load", "lookup", "init", "set", "add"}
SpareInv ==
    /\ \A t \in Tasks : task[t].pc \in Bringing => task[t].chan \notin bootDeleted
    /\ bootDeleted \cap listed = {}

\* The channels that name the client more than once.
Twice(c) == Named(c, Len(EncList[c])) > 1

\* What the start still has in front of it from index n on.
Remaining(n) == { index[i] : i \in n..task[Main].size }

\* The index names what is stored or deleted, but for what the start removed
\* between two entries of a channel whose deletion was not saved; nobody stores
\* that again before the next start, which then gives up.
Gone == Indexed \ (records \cup saved.deleted)
IndexInv ==
    /\ IndexedOnce
    /\ \A c \in Gone :
          /\ Twice(c)
          /\ \A s \in Servers : task[s].pc \in Bringing => task[s].chan # c
          /\ \/ c \in local.deleted \/ task[Main].pc = "dead"
             \/ ~ Up /\ c \in Remaining(task[Main].next + 1)

\* The start goes through the index as it found it: before the place where it
\* is, nothing that was deleted is left, behind it, nothing is in the window yet
\* that the index names once.
Ahead1(n) == { c \in Remaining(n) : ~ Twice(c) }

BootInv ==
    LET m == task[Main] IN
    /\ m.size <= Len(index) /\ m.next <= m.size
    /\ m.pc \in {"load", "add", "init"} =>
          m.next < m.size /\ m.chan = index[m.next + 1]
    /\ m.pc = "load" => m.chan \notin local.deleted \/ Twice(m.chan)
    /\ m.pc = "init" => m.chan \in listed \cup local.deleted
    /\ m.pc \in {"add", "init"} => m.chan \in records \cup saved.deleted
    /\ \A i, j \in 1..m.size :
          i # j /\ index[i] = index[j] => index[i] \in bootDeleted \/ Twice(index[i])
    /\ m.pc \in {"start", "load", "add"} => Ahead1(m.next + 1) \cap listed = {}
    /\ m.pc = "init" => Ahead1(m.next + 2) \cap listed = {}
    /\ \A c \in Mine : task[c].pc \in {"init", "set", "add"} => c \notin Remaining(1)
    /\ \A i \in 1..Len(index) :
          (m.pc # "dead" /\ i \notin (m.next + 1)..m.size) =>
              index[i] \notin bootDeleted \cap records
    /\ StartGivesUpOnFault

\* The channels that tasks at place p work on.
At(p) == { task[t].chan : t \in { u \in Tasks : task[u].pc = p } }

\* Stored channels that the window will not show: without an entry in the index,
\* or neither deleted nor refused, and neither shown nor about to be.
Covered == local.deleted \cup refused \cup listed
               \cup Remaining(task[Main].next + 1) \cup At("add")
Lost    == { c \in records : c \notin Indexed \/ c \notin Covered }

LostInv == IsFiniteSet(records) /\ Cardinality(Lost) <= faults

-----------------------------------------------------------------------------
(* Lists and tasks. *)

\* How often participants name the client: at least once, and the author of its
\* own channels once.
LEMMA NamedTypes ==
    ASSUME NEW c \in Channels
    PROVE  /\ EncList[c] \in Seq(Clients) /\ Len(EncList[c]) \in Nat \ {0}
           /\ \A j \in 0..Len(EncList[c]) :
                 Named(c, j) \in Nat /\ Named(c, j) <= Named(c, Len(EncList[c]))
           /\ Named(c, Len(EncList[c])) > 0
           /\ c \in Mine => ~ Twice(c)
  <1> DEFINE n == Len(EncList[c])
             Ks(j) == { k \in 1..j : EncList[c][k] = Me }
  <1>1. EncList[c] \in Seq(Clients) /\ n \in Nat /\ DOMAIN EncList[c] = 1..n
    BY EncListAssumption, LenProperties
  <1>2. PICK k \in 1..n : EncList[c][k] = Me
    BY <1>1, EncListAssumption
  <1>3. ASSUME NEW j \in 0..n
        PROVE  /\ IsFiniteSet(Ks(j)) /\ Cardinality(Ks(j)) \in Nat
               /\ Cardinality(Ks(j)) <= Cardinality(Ks(n))
    <2>1. \A i \in 1..j : i \in 1..n
      BY <1>1
    <2>2. Ks(n) \subseteq 1..n /\ Ks(j) \subseteq Ks(n)
      BY <2>1
    <2>3. IsFiniteSet(1..n)
      BY <1>1, FS_Interval
    <2>4. IsFiniteSet(Ks(n))
      BY <2>2, <2>3, FS_Subset
    <2> QED
      BY <2>2, <2>4, FS_Subset, FS_CardinalityType
  <1>4. Cardinality(Ks(n)) > 0
    <2>1. {k} \subseteq Ks(n) /\ n \in 0..n
      BY <1>1, <1>2
    <2> HIDE DEF Ks
    <2>2. Cardinality({k}) = 1 /\ Cardinality({k}) <= Cardinality(Ks(n))
      BY <1>3, <2>1, FS_Singleton, FS_Subset
    <2> QED
      BY <1>3, <2>1, <2>2
  <1>5. ASSUME c \in Mine PROVE Cardinality(Ks(n)) = 1
    <2>1. \A i \in 1..n : EncList[c][i] = Me => i = 1
      BY <1>1, <1>5, EncListAssumption DEF Mine
    <2>2. Ks(n) = {1}
      BY <1>1, <1>2, <2>1
    <2> QED
      BY <2>2, FS_Singleton
  <1> HIDE DEF n
  <1> QED
    BY <1>1, <1>2, <1>3, <1>4, <1>5 DEF Named, Twice, n

LEMMA EntriesAdded ==
    ASSUME NEW c \in Channels, NEW j \in 0..Len(EncList[c]), NEW q \in Seq(Channels)
    PROVE  LET r == q \o Entries(c, j) IN
           /\ r \in Seq(Channels) /\ Len(q) \in Nat /\ DOMAIN q = 1..Len(q)
           /\ Len(r) = Len(q) + Named(c, j) /\ DOMAIN r = 1..Len(r)
           /\ \A i \in 1..Len(q) : r[i] = q[i]
           /\ \A i \in 1..Len(r) : i \notin 1..Len(q) => r[i] = c
  <1>1. Named(c, j) \in Nat
    BY NamedTypes
  <1>2. Entries(c, j) \in [1..Named(c, j) -> Channels]
    BY DEF Entries
  <1>3. Entries(c, j) \in Seq(Channels) /\ Len(Entries(c, j)) = Named(c, j)
    BY <1>1, <1>2
  <1>4. \A i \in 1..Named(c, j) : Entries(c, j)[i] = c
    BY DEF Entries
  <1>5. q \o Entries(c, j) \in Seq(Channels) /\ Len(q) \in Nat /\ DOMAIN q = 1..Len(q)
    BY <1>3, ConcatProperties, LenProperties
  <1>6. /\ Len(q \o Entries(c, j)) = Len(q) + Named(c, j)
        /\ \A i \in 1..Len(q) + Named(c, j) : (q \o Entries(c, j))[i] =
               IF i <= Len(q) THEN q[i] ELSE Entries(c, j)[i - Len(q)]
    BY <1>3, ConcatProperties
  <1>7. DOMAIN (q \o Entries(c, j)) = 1..Len(q \o Entries(c, j))
    BY <1>5, LenProperties
  <1>8. \A i \in 1..(Len(q) + Named(c, j)) :
            i \notin 1..Len(q) => ~ (i <= Len(q)) /\ i - Len(q) \in 1..Named(c, j)
    BY <1>1, <1>5
  <1> QED
    BY <1>1, <1>4, <1>5, <1>6, <1>7, <1>8

LEMMA EnlistEffect ==
    ASSUME TypeOK, ServersInv, NEW s \in Servers, NEW c \in Channels,
           NEW j \in 0..Len(EncList[c]), Enlist(s, c, j)
    PROVE  /\ srvList' \in [Servers -> Seq(Channels)]
           /\ onServer' \in [Servers -> SUBSET Channels]
           /\ onServer'[s] = onServer[s] \cup {c}
           /\ \A r \in Servers : r # s => onServer'[r] = onServer[r]
           /\ ServersInv'
  <1>1. srvList[s] \in Seq(Channels) /\ onServer[s] \subseteq Channels
    BY DEF TypeOK
  <1>2. /\ srvList'[s] = IF c \in onServer[s] THEN srvList[s] ELSE srvList[s] \o Entries(c, j)
        /\ \A r \in Servers : r # s => srvList'[r] = srvList[r]
        /\ srvList' = [srvList EXCEPT ![s] = srvList'[s]]
    BY DEF Enlist, TypeOK
  <1>3. /\ onServer'[s] = onServer[s] \cup {c}
        /\ \A r \in Servers : r # s => onServer'[r] = onServer[r]
        /\ onServer' \in [Servers -> SUBSET Channels]
    BY DEF Enlist, TypeOK
  <1>4. /\ srvList'[s] \in Seq(Channels)
        /\ \A i \in 1..Len(srvList'[s]) : srvList'[s][i] \in onServer'[s]
    BY <1>1, <1>2, <1>3, EntriesAdded DEF ServersInv
  <1>5. srvList' \in [Servers -> Seq(Channels)]
    BY <1>2, <1>4 DEF TypeOK
  <1>6. ServersInv'
    BY <1>2, <1>3, <1>4 DEF ServersInv
  <1> QED
    BY <1>3, <1>5, <1>6

\* Task t goes to p, and no other task moves.
Moved(t, p) ==
    /\ task' \in [Tasks -> TaskType]
    /\ \A u \in Tasks : u # t => task'[u] = task[u]
    /\ task'[t].pc = p
    /\ task'[Main].size = task[Main].size

\* Where a task goes when it is done with a channel.
Rest(t) == IF t = Main THEN "start" ELSE IF t \in Servers THEN "listen" ELSE "done"

LEMMA TaskTypes ==
    ASSUME TypeOK
    PROVE  /\ task \in [Tasks -> TaskType] /\ Main \in Tasks
           /\ \A t \in Tasks : task[t] \in TaskType
  BY DEF TypeOK, TaskType, Tasks

LEMMA BecomeEffect ==
    ASSUME TypeOK, NEW t \in Tasks, NEW l \in TaskType, Become(t, l),
           t = Main => l.size = task[t].size
    PROVE  Moved(t, l.pc) /\ task'[t] = l
  BY TaskTypes DEF Become, Moved

LEMMA GotoEffect ==
    ASSUME TypeOK, NEW t \in Tasks, NEW p \in TaskPlaces, Goto(t, p)
    PROVE  /\ Moved(t, p)
           /\ task'[t].chan = task[t].chan /\ task'[t].next = task[t].next
           /\ task'[t].ok = task[t].ok
  <1> DEFINE l == [task[t] EXCEPT !.pc = p]
  <1>1. l \in TaskType /\ l.pc = p /\ l.size = task[t].size
    BY TaskTypes DEF TaskType
  <1>2. Moved(t, l.pc) /\ task'[t] = l
    BY <1>1, BecomeEffect DEF Goto
  <1> QED
    BY <1>1, <1>2, TaskTypes DEF TaskType

LEMMA GoOnEffect ==
    ASSUME TypeOK, NEW t \in Tasks, NEW n \in Nat, GoOn(t, n)
    PROVE  /\ Moved(t, Rest(t))
           /\ task'[t].chan = None /\ ~ task'[t].ok
           /\ t \in Servers \cup {Main} => task'[t].next = n
  <1> DEFINE l == IF t = Main
                    THEN [Off EXCEPT !.pc = "start", !.next = n, !.size = task[t].size]
                  ELSE IF t \in Servers THEN [Off EXCEPT !.pc = "listen", !.next = n]
                  ELSE [Off EXCEPT !.pc = "done"]
  <1>1. /\ l \in TaskType /\ l.pc = Rest(t) /\ l.chan = None /\ ~ l.ok
        /\ t = Main => l.size = task[t].size
        /\ t \in Servers \cup {Main} => l.next = n
    BY TaskTypes DEF TaskType, TaskPlaces, Off, Rest
  <1>2. Become(t, l)
    BY DEF GoOn
  <1>3. Moved(t, l.pc) /\ task'[t] = l
    BY <1>1, <1>2, BecomeEffect
  <1> QED
    BY <1>1, <1>3

LEMMA PublishEffect ==
    ASSUME TypeOK, NEW t \in Tasks, NEW c \in Channels, Publish(t, c)
    PROVE  /\ Moved(t, "init")
           /\ task'[t].chan = c /\ task'[t].next = task[t].next /\ ~ task'[t].ok
  <1> DEFINE l == [task[t] EXCEPT !.pc = "init", !.chan = c, !.todo = Servers, !.ok = FALSE]
  <1>1. /\ l \in TaskType /\ l.pc = "init" /\ l.chan = c /\ l.next = task[t].next
        /\ ~ l.ok /\ l.size = task[t].size
    BY TaskTypes DEF TaskType, TaskPlaces
  <1>2. Moved(t, l.pc) /\ task'[t] = l
    BY <1>1, BecomeEffect DEF Publish
  <1> QED
    BY <1>1, <1>2

-----------------------------------------------------------------------------
(* What each step of a task does. *)

\* Only channel c is brought to servers.
Spread(c) ==
    /\ srvList' \in [Servers -> Seq(Channels)]
    /\ onServer' \in [Servers -> SUBSET Channels]
    /\ ServersInv'
    /\ \A r \in Servers : /\ onServer[r] \subseteq onServer'[r]
                          /\ onServer'[r] \subseteq onServer[r] \cup {c}

LEMMA FaultEffect ==
    ASSUME TypeOK, Fault \/ UNCHANGED faults
    PROVE  /\ faults' \in 0..MaxFaults /\ faults \in Nat /\ faults <= faults'
           /\ Fault <=> faults' = faults + 1
           /\ bootFaults \in 0..faults'
  BY MaxFaultsAssumption DEF Fault, TypeOK

LEMMA EnlistSpread ==
    ASSUME TypeOK, ServersInv, NEW s \in Servers, NEW c \in Channels,
           NEW j \in 0..Len(EncList[c]), Enlist(s, c, j)
    PROVE  Spread(c) /\ c \in onServer'[s]
  BY EnlistEffect DEF Spread

LEMMA NothingSpread ==
    ASSUME TypeOK, ServersInv, UNCHANGED lists, NEW c
    PROVE  Spread(c)
  BY DEF Spread, lists, TypeOK, ServersInv

LEMMA PublishToEffect ==
    ASSUME TypeOK, ServersInv, NEW t \in Tasks, NEW s \in Servers, PublishTo(t, s)
    PROVE  LET c == task[t].chan IN
           /\ task[t].pc = "init" /\ c \in Channels
           /\ Moved(t, "init") /\ task'[t].chan = c /\ task'[t].next = task[t].next
           /\ Spread(c) /\ (task'[t].ok => task[t].ok \/ c \in onServer'[s])
           /\ Fault \/ UNCHANGED faults
           /\ UNCHANGED <<registered, file, window, listed, boot, refused>>
  <1> DEFINE c == task[t].chan
             l == [task[t] EXCEPT !.todo = @ \ {s}, !.ok = TRUE]
             k == [task[t] EXCEPT !.todo = @ \ {s}]
  <1>1. task[t].pc = "init" /\ c \in Channels /\ task[t] \in TaskType
    BY TaskTypes DEF PublishTo, TypeOK
  <1>2. UNCHANGED <<registered, file, window, listed, boot, refused>>
    BY DEF PublishTo
  <1>3. CASE Enlist(s, c, Len(EncList[c])) /\ Become(t, l) /\ UNCHANGED faults
    <2>1. l \in TaskType /\ l.pc = "init" /\ l.chan = c /\ l.next = task[t].next
          /\ l.size = task[t].size
      BY <1>1 DEF TaskType
    <2>2. Moved(t, l.pc) /\ task'[t] = l
      BY <1>3, <2>1, BecomeEffect
    <2>3. Len(EncList[c]) \in 0..Len(EncList[c])
      BY <1>1, NamedTypes
    <2>4. Spread(c) /\ c \in onServer'[s]
      BY <1>1, <1>3, <2>3, EnlistSpread
    <2> QED
      BY <1>1, <1>2, <1>3, <2>1, <2>2, <2>4
  <1>4. CASE /\ Fault \/ UNCHANGED faults
             /\ (\E j \in 0..Len(EncList[c]) : Enlist(s, c, j)) \/ UNCHANGED lists
             /\ Become(t, k)
    <2>1. k \in TaskType /\ k.pc = "init" /\ k.chan = c /\ k.next = task[t].next
          /\ k.size = task[t].size /\ k.ok = task[t].ok
      BY <1>1 DEF TaskType
    <2>2. Moved(t, k.pc) /\ task'[t] = k
      BY <1>4, <2>1, BecomeEffect
    <2>3. Spread(c)
      BY <1>1, <1>4, EnlistSpread, NothingSpread
    <2> QED
      BY <1>1, <1>2, <1>4, <2>1, <2>2, <2>3
  <1> QED
    BY <1>3, <1>4 DEF PublishTo

\* A task ends its work on a channel, or keeps its record and goes elsewhere.
Ended(t, n) ==
    /\ Moved(t, Rest(t))
    /\ task'[t].chan = None /\ ~ task'[t].ok
    /\ t \in Servers \cup {Main} => task'[t].next = n

Kept(t, p) ==
    /\ Moved(t, p)
    /\ task'[t].chan = task[t].chan /\ task'[t].next = task[t].next

LEMMA PassEffect ==
    ASSUME TypeOK, NEW t \in Tasks, Pass(t) PROVE Ended(t, task[t].next + 1)
  <1>1. task[t].next + 1 \in Nat
    BY TaskTypes DEF TaskType
  <1> QED
    BY <1>1, GoOnEffect DEF Pass, Ended

LEMMA RetryEffect ==
    ASSUME TypeOK, NEW t \in Tasks, Retry(t)
    PROVE  IF t = Main THEN Kept(t, "dead") ELSE Ended(t, task[t].next)
  <1>1. task[t].next \in Nat
    BY TaskTypes DEF TaskType
  <1>2. "dead" \in TaskPlaces
    BY DEF TaskPlaces
  <1> QED
    BY <1>1, <1>2, GoOnEffect, GotoEffect DEF Retry, Ended, Kept

LEMMA PublishedEffect ==
    ASSUME TypeOK, NEW t \in Tasks, Published(t)
    PROVE  /\ task[t].pc = "init" /\ task[t].chan \in Channels
           /\ \/ t = Main /\ Ended(t, task[t].next + 1)
              \/ t # Main /\ (task[t].ok \/ Servers = {}) /\ Kept(t, "set")
              \/ t # Main /\ Ended(t, task[t].next)
           /\ UNCHANGED <<server, file, window, listed, boot, refused, faults>>
  <1>1. "set" \in TaskPlaces
    BY DEF TaskPlaces
  <1>2. task[t].chan \in Channels
    BY DEF Published, TypeOK
  <1> QED
    BY <1>1, <1>2, GotoEffect, PassEffect, RetryEffect DEF Published, Kept

\* What a failed step does to its task.
GaveUp(t) == IF t = Main THEN Kept(t, "dead") ELSE Ended(t, task[t].next)

\* A record is written with the first entries in the index, perhaps not all.
Stored(c) ==
    /\ c \notin records
    /\ \/ UNCHANGED <<records, index>>
       \/ \E j \in 0..Len(EncList[c]) : Write(c, j)

LEMMA StoredEffect ==
    ASSUME TypeOK, NEW c \in Channels, Stored(c)
    PROVE  /\ records \subseteq records' /\ records' \subseteq records \cup {c}
           /\ index' \in Seq(Channels)
           /\ Indexed \subseteq Indexed' /\ Indexed' \subseteq Indexed \cup {c}
           /\ Len(index) \in Nat /\ Len(index') \in Nat /\ Len(index) <= Len(index')
           /\ \A i \in 1..Len(index) : index'[i] = index[i]
           /\ \A i \in 1..Len(index') : i \notin 1..Len(index) => index'[i] = c
  <1>1. index \in Seq(Channels)
    BY DEF TypeOK
  <1>2. CASE UNCHANGED <<records, index>>
    BY <1>1, <1>2, LenProperties DEF Indexed
  <1>3. ASSUME NEW j \in 0..Len(EncList[c]), Write(c, j)
        PROVE  /\ records' = records \cup {c} /\ index' \in Seq(Channels)
               /\ DOMAIN index = 1..Len(index) /\ DOMAIN index' = 1..Len(index')
               /\ Len(index) \in Nat /\ Len(index') \in Nat /\ Len(index) <= Len(index')
               /\ \A i \in 1..Len(index) : index'[i] = index[i]
               /\ \A i \in 1..Len(index') : i \notin 1..Len(index) => index'[i] = c
    <2>1. Named(c, j) \in Nat
      BY NamedTypes
    <2> QED
      BY <1>1, <1>3, <2>1, EntriesAdded DEF Write
  <1>4. ASSUME NEW j \in 0..Len(EncList[c]), Write(c, j)
        PROVE  Indexed \subseteq Indexed' /\ Indexed' \subseteq Indexed \cup {c}
    <2>1. \A i \in 1..Len(index) : i \in 1..Len(index')
      BY <1>3, <1>4
    <2> QED
      BY <1>3, <1>4, <2>1 DEF Indexed
  <1> QED
    BY <1>2, <1>3, <1>4 DEF Stored

LEMMA WriteTornEffect ==
    ASSUME NEW c \in Channels, WriteTorn(c) PROVE Stored(c)
  <1>1. \A j \in 0..(Len(EncList[c]) - 1) : j \in 0..Len(EncList[c])
    BY NamedTypes
  <1> QED
    BY <1>1 DEF WriteTorn, Stored

LEMMA SetChannelEffect ==
    ASSUME TypeOK, NEW t \in Tasks, SetChannel(t)
    PROVE  LET c == task[t].chan IN
           /\ task[t].pc = "set" /\ c \in Channels
           /\ \/ /\ IF c \in records THEN UNCHANGED <<records, index>>
                    ELSE Write(c, Len(EncList[c]))
                 /\ Kept(t, "add") /\ UNCHANGED faults
              \/ Fault /\ Stored(c) /\ GaveUp(t)
           /\ UNCHANGED <<server, profiles, window, listed, boot, refused>>
  <1>1. "add" \in TaskPlaces
    BY DEF TaskPlaces
  <1>2. task[t].chan \in Channels
    BY DEF SetChannel, TypeOK
  <1>3. CASE SetChannelFails(t)
    <2>1. Fault /\ task[t].chan \notin records /\ Retry(t)
          /\ (WriteTorn(task[t].chan) \/ UNCHANGED <<records, index>>)
      BY <1>3 DEF SetChannelFails
    <2>2. Stored(task[t].chan)
      BY <1>2, <2>1, WriteTornEffect DEF Stored
    <2> QED
      BY <1>2, <2>1, <2>2, RetryEffect DEF SetChannel, GaveUp
  <1>4. CASE /\ IF task[t].chan \in records THEN UNCHANGED <<records, index>>
                ELSE Write(task[t].chan, Len(EncList[task[t].chan]))
             /\ Goto(t, "add") /\ UNCHANGED faults
    BY <1>1, <1>2, <1>4, GotoEffect DEF SetChannel, Kept
  <1> QED
    BY <1>3, <1>4 DEF SetChannel

LEMMA ProfilesLoaded ==
    ASSUME TypeOK, NEW c \in Channels, NEW m \in {1, 2}, NEW n \in 0..Len(EncList[c]),
           Load(c, m, n)
    PROVE  profiles' \subseteq Clients
  <1>1. /\ EncList[c] \in Seq(Clients) /\ Len(EncList[c]) \in Nat
        /\ \A k \in 1..Len(EncList[c]) : EncList[c][k] \in Clients
    BY NamedTypes, LenProperties, ElementOfSeq
  <1>2. \A k \in m..n : k \in 1..Len(EncList[c])
    BY <1>1
  <1> QED
    BY <1>1, <1>2 DEF Load, TypeOK

LEMMA AddIntoListEffect ==
    ASSUME TypeOK, NEW t \in Tasks, AddIntoList(t)
    PROVE  LET c == task[t].chan IN
           /\ task[t].pc = "add" /\ c \in Channels /\ profiles' \subseteq Clients
           /\ \/ /\ listed' = listed \cup {c} /\ UNCHANGED <<faults, refused>>
                 /\ IF t = Main THEN Kept(t, "init") /\ ~ task'[t].ok
                    ELSE Ended(t, task[t].next + 1)
              \/ /\ \/ Fault /\ UNCHANGED refused
                    \/ UNCHANGED faults /\ refused' = refused \cup {c}
                 /\ GaveUp(t) /\ UNCHANGED listed
           /\ UNCHANGED <<server, records, index, window, boot>>
  <1> DEFINE c == task[t].chan
             last == IF c \in BadNames THEN 1 ELSE Len(EncList[c])
  <1>1. c \in Channels
    BY DEF AddIntoList, TypeOK
  <1>2. /\ Len(EncList[c]) \in 0..Len(EncList[c]) /\ 1 \in 0..Len(EncList[c])
        /\ \A n \in 0..(last - 1) : n \in 0..Len(EncList[c])
    BY <1>1, NamedTypes
  <1>3. task[t].pc = "add" /\ UNCHANGED <<server, records, index, window, boot>>
    BY DEF AddIntoList
  <1>4. CASE /\ Load(c, 1, Len(EncList[c]))
             /\ listed' = listed \cup {c} /\ UNCHANGED <<refused, faults>>
             /\ IF t = Main THEN Publish(t, c) ELSE Pass(t)
    BY <1>1, <1>2, <1>3, <1>4, ProfilesLoaded, PublishEffect, PassEffect DEF Kept
  <1>5. CASE /\ NameRefused(c) \/ \E n \in 0..(last - 1) : LoadFails(c, 1, n)
             /\ refused' = IF faults' = faults THEN refused \cup {c} ELSE refused
             /\ Retry(t) /\ UNCHANGED listed
    <2>1. profiles' \subseteq Clients
      BY <1>1, <1>2, <1>5, ProfilesLoaded DEF NameRefused, LoadFails
    <2>2. \/ Fault /\ UNCHANGED refused
          \/ UNCHANGED faults /\ refused' = refused \cup {c}
      BY <1>5, FaultEffect DEF NameRefused, LoadFails
    <2> QED
      BY <1>1, <1>3, <1>5, <2>1, <2>2, RetryEffect DEF GaveUp
  <1> QED
    BY <1>4, <1>5 DEF AddIntoList

LEMMA StartNextEffect ==
    ASSUME TypeOK, BootInv, StartNext
    PROVE  LET c == index[task[Main].next + 1] IN
           /\ task[Main].pc = "start" /\ task[Main].next < task[Main].size /\ c \in Channels
           /\ \/ /\ c \notin local.deleted
                 /\ Moved(Main, "load") /\ task'[Main].chan = c
                 /\ task'[Main].next = task[Main].next /\ UNCHANGED <<records, faults>>
              \/ /\ c \in local.deleted /\ records' = records \ {c}
                 /\ Ended(Main, task[Main].next + 1) /\ UNCHANGED faults
              \/ Fault /\ Kept(Main, "dead") /\ UNCHANGED records
           /\ UNCHANGED <<server, index, profiles, window, listed, boot, refused>>
  <1> DEFINE m == task[Main]
             c == index[m.next + 1]
             l == [m EXCEPT !.pc = "load", !.chan = c]
  <1>1. m \in TaskType /\ Main \in Tasks
    BY TaskTypes
  <1>2. index \in Seq(Channels) /\ m.next \in Nat /\ m.size \in Nat /\ Len(index) \in Nat
    BY <1>1, LenProperties DEF TypeOK, TaskType
  <1>3. m.pc = "start" /\ m.next < m.size
    BY DEF StartNext
  <1>4. m.next + 1 \in 1..Len(index)
    BY <1>2, <1>3 DEF BootInv
  <1>5. c \in Channels
    BY <1>2, <1>4, ElementOfSeq
  <1>6. l \in TaskType /\ l.pc = "load" /\ l.chan = c /\ l.next = m.next /\ l.size = m.size
    BY <1>1, <1>5 DEF TaskType, TaskPlaces
  <1>8. \/ c \notin local.deleted /\ Become(Main, l) /\ UNCHANGED <<records, faults>>
        \/ c \in local.deleted /\ records' = records \ {c} /\ Pass(Main) /\ UNCHANGED faults
        \/ Fault /\ Retry(Main) /\ UNCHANGED records
    BY DEF StartNext, c, l
  <1>9. ASSUME Become(Main, l)
        PROVE  Moved(Main, "load") /\ task'[Main].chan = c /\ task'[Main].next = m.next
    <2>1. Moved(Main, l.pc) /\ task'[Main] = l
      BY <1>1, <1>6, <1>9, BecomeEffect
    <2> QED
      BY <2>1, <1>6
  <1>10. UNCHANGED <<server, index, profiles, window, listed, boot, refused>>
    BY DEF StartNext
  <1> QED
    BY <1>1, <1>3, <1>5, <1>8, <1>9, <1>10, PassEffect, RetryEffect DEF c

LEMMA StartLoadEffect ==
    ASSUME TypeOK, StartLoad
    PROVE  /\ task[Main].pc = "load" /\ task[Main].chan \in Channels
           /\ Kept(Main, IF task[Main].chan \in records THEN "add" ELSE "dead")
           /\ UNCHANGED <<server, file, window, listed, boot, refused, faults>>
  <1>1. {"add", "dead"} \subseteq TaskPlaces /\ task[Main].chan \in Channels
    BY TaskTypes DEF TaskPlaces, StartLoad, TypeOK
  <1> QED
    BY <1>1, TaskTypes, GotoEffect DEF StartLoad, Kept

LEMMA StartListenersEffect ==
    ASSUME TypeOK, StartListeners
    PROVE  /\ task[Main].pc = "start" /\ task[Main].next = task[Main].size
           /\ task' \in [Tasks -> TaskType]
           /\ task'[Main] = [Off EXCEPT !.pc = "up"]
           /\ \A s \in Servers : task'[s] = [Off EXCEPT !.pc = "listen"]
           /\ \A c \in Mine : task'[c] = task[c]
           /\ UNCHANGED <<server, file, window, listed, boot, refused, faults>>
  <1>1. [Off EXCEPT !.pc = "up"] \in TaskType /\ [Off EXCEPT !.pc = "listen"] \in TaskType
    BY DEF Off, TaskType, TaskPlaces
  <1>2. \A c \in Mine : c \in Tasks /\ c \notin Servers /\ c # Main
    BY DisjointAssumption DEF Mine, Tasks
  <1>3. \A s \in Servers : s \in Tasks /\ s # Main
    BY DisjointAssumption DEF Tasks
  <1> QED
    BY <1>1, <1>2, <1>3, TaskTypes DEF StartListeners

LEMMA ListenChannelEffect ==
    ASSUME TypeOK, ServersInv, NEW s \in Servers, ListenChannel(s)
    PROVE  /\ task[s].pc = "listen" /\ Moved(s, "check")
           /\ task'[s].chan \in onServer[s] /\ task'[s].chan \in Channels
           /\ UNCHANGED <<server, file, window, listed, boot, refused, faults>>
  <1> DEFINE c == srvList[s][task[s].next + 1]
             l == [task[s] EXCEPT !.pc = "check", !.chan = c]
  <1>1. s \in Tasks /\ s # Main /\ task[s] \in TaskType
    BY TaskTypes, DisjointAssumption DEF Tasks
  <1>2. srvList[s] \in Seq(Channels) /\ Len(srvList[s]) \in Nat
        /\ DOMAIN srvList[s] = 1..Len(srvList[s])
    BY LenProperties DEF TypeOK
  <1>3. task[s].next + 1 \in 1..Len(srvList[s])
    BY <1>1, <1>2 DEF ListenChannel, TaskType
  <1>4. c \in Channels /\ c \in onServer[s]
    BY <1>2, <1>3, ElementOfSeq DEF ServersInv
  <1>5. l \in TaskType /\ l.pc = "check" /\ l.chan = c
    BY <1>1, <1>4 DEF TaskType, TaskPlaces
  <1>6. Moved(s, l.pc) /\ task'[s] = l
    BY <1>1, <1>5, BecomeEffect DEF ListenChannel
  <1> QED
    BY <1>4, <1>5, <1>6 DEF ListenChannel

LEMMA CheckChannelEffect ==
    ASSUME TypeOK, NEW s \in Servers, CheckChannel(s)
    PROVE  /\ task[s].pc = "check" /\ task[s].chan \in Channels
           /\ \/ Ended(s, task[s].next + 1)
              \/ Kept(s, "lookup") /\ task[s].chan \notin local.deleted
           /\ UNCHANGED <<server, file, window, listed, boot, refused, faults>>
  <1>1. s \in Tasks /\ "lookup" \in TaskPlaces
    BY DEF Tasks, TaskPlaces
  <1>2. task[s].chan \in Channels
    BY <1>1 DEF CheckChannel, TypeOK
  <1> QED
    BY <1>1, <1>2, PassEffect, GotoEffect DEF CheckChannel, Kept

LEMMA LookupChannelEffect ==
    ASSUME TypeOK, NEW s \in Servers, LookupChannel(s)
    PROVE  /\ task[s].pc = "lookup" /\ task[s].chan \in Channels
           /\ \/ Ended(s, task[s].next + 1)
              \/ Kept(s, "init") /\ ~ task'[s].ok
           /\ UNCHANGED <<server, file, window, listed, boot, refused, faults>>
  <1>1. s \in Tasks
    BY DEF Tasks
  <1>2. task[s].chan \in Channels
    BY <1>1 DEF LookupChannel, TypeOK
  <1> QED
    BY <1>1, <1>2, PassEffect, PublishEffect DEF LookupChannel, Kept

LEMMA CreateEffect ==
    ASSUME TypeOK, NEW c \in Mine, Create(c)
    PROVE  /\ task[c].pc = "off" /\ profiles' \subseteq Clients
           /\ Fault \/ UNCHANGED faults
           /\ \/ Moved(c, "init") /\ task'[c].chan = c /\ ~ task'[c].ok
              \/ Kept(c, "done")
           /\ UNCHANGED <<server, records, index, window, listed, boot, refused>>
  <1>1. c \in Tasks /\ c \in Channels /\ "done" \in TaskPlaces
    BY DEF Tasks, Mine, TaskPlaces
  <1>2. /\ Len(EncList[c]) \in 0..Len(EncList[c])
        /\ \A n \in 1..(Len(EncList[c]) - 1) : n \in 0..Len(EncList[c])
    BY <1>1, NamedTypes
  <1>3. profiles' \subseteq Clients
    BY <1>1, <1>2, ProfilesLoaded DEF Create, LoadFails
  <1> QED
    BY <1>1, <1>3, PublishEffect, GotoEffect DEF Create, Kept, LoadFails

\* Some channel may be left half stored by a restart.
LEMMA RestartStores ==
    ASSUME TypeOK, Restart
    PROVE  /\ UNCHANGED <<records, index>> \/ \E c \in At("set") : Stored(c)
           /\ records \subseteq records' /\ index' \in Seq(Channels) /\ Len(index') \in Nat
  <1>1. CASE UNCHANGED <<records, index>>
    BY <1>1, LenProperties DEF TypeOK
  <1>2. ASSUME NEW t \in Tasks, task[t].pc = "set", WriteTorn(task[t].chan)
        PROVE  /\ task[t].chan \in At("set") /\ Stored(task[t].chan)
               /\ records \subseteq records' /\ index' \in Seq(Channels) /\ Len(index') \in Nat
    <2>1. task[t].chan \in Channels
      BY <1>2 DEF TypeOK
    <2>2. task[t].chan \in At("set")
      BY <1>2 DEF At
    <2> QED
      BY <1>2, <2>1, <2>2, WriteTornEffect, StoredEffect
  <1> QED
    BY <1>1, <1>2 DEF Restart

LEMMA RestartEffect ==
    ASSUME TypeOK, Restart
    PROVE  /\ task' \in [Tasks -> TaskType]
           /\ task'[Main].pc = "start" /\ task'[Main].chan = None /\ ~ task'[Main].ok
           /\ task'[Main].next = 0 /\ task'[Main].size = Len(index')
           /\ \A t \in Servers \cup Mine :
                  task'[t].chan = None /\ ~ task'[t].ok
           /\ \A s \in Servers : task'[s].pc = "off"
           /\ \A c \in Mine : task'[c].pc = IF task[c].pc = "off" THEN "off" ELSE "done"
  <1> DEFINE b == Booting(index')
             d == [Off EXCEPT !.pc = "done"]
  <1>1. /\ b \in TaskType /\ b.pc = "start" /\ b.chan = None /\ ~ b.ok
        /\ b.next = 0 /\ b.size = Len(index')
    BY RestartStores DEF Booting, Off, TaskType, TaskPlaces
  <1>2. /\ Off \in TaskType /\ Off.pc = "off" /\ Off.chan = None /\ ~ Off.ok
        /\ d \in TaskType /\ d.pc = "done" /\ d.chan = None /\ ~ d.ok
    BY DEF Off, TaskType, TaskPlaces
  <1>3. \A c \in Mine : c \in Tasks /\ c \notin Servers /\ c # Main
    BY DisjointAssumption DEF Mine, Tasks
  <1>4. \A s \in Servers : s \in Tasks /\ s # Main
    BY DisjointAssumption DEF Tasks
  <1>5. task' = [t \in Tasks |-> IF t = Main THEN b
                                 ELSE IF t \in Servers \/ task[t].pc = "off" THEN Off
                                 ELSE d]
    BY DEF Restart
  <1> HIDE DEF b, d
  <1>6. /\ task'[Main] = b /\ \A s \in Servers : task'[s] = Off
        /\ \A c \in Mine : task'[c] = IF task[c].pc = "off" THEN Off ELSE d
    BY <1>3, <1>4, <1>5, TaskTypes
  <1>7. task' \in [Tasks -> TaskType]
    BY <1>1, <1>2, <1>5
  <1> QED
    BY <1>1, <1>2, <1>6, <1>7

-----------------------------------------------------------------------------
(* Types and places. *)

Inv == /\ TypeOK /\ PlacesInv /\ ServersInv /\ UnbornInv /\ DeletedInv
       /\ PublishedInv /\ SpareInv /\ IndexInv /\ BootInv

Busy == {"load", "check", "lookup", "init", "set", "add"}

\* The part of TypeOK about tasks.
TasksOK == /\ task \in [Tasks -> TaskType]
           /\ \A t \in Tasks : task[t].pc \in Busy => task[t].chan \in Channels

LEMMA Kinds ==
    /\ Main \in Tasks /\ Servers \subseteq Tasks /\ Mine \subseteq Tasks
    /\ Mine \subseteq Channels /\ Servers \cap Mine = {}
    /\ Main \notin Servers \cup Mine /\ None \notin Channels
    /\ Tasks = {Main} \cup Servers \cup Mine
  BY DisjointAssumption DEF Tasks, Mine

\* One task moves, to where its kind may be.
CanMove(t, p) ==
    /\ t = Main => task[Main].pc # "up" /\ p \in Booted
    /\ t \in Servers =>
          Up /\ p \in {"off", "listen", "check", "lookup", "init", "set", "add"}
    /\ t \in Mine => p \in {"init", "set", "add", "done"}

LEMMA MoveFrame ==
    ASSUME TypeOK, PlacesInv, NEW t \in Tasks, NEW p, Moved(t, p), CanMove(t, p),
           p \in Busy => task'[t].chan \in Channels,
           p \in Resting => task'[t].chan = None,
           t \in Mine /\ p \in Busy => task'[t].chan = t
    PROVE  TasksOK' /\ PlacesInv' /\ (Up' <=> Up)
  <1>1. task' \in [Tasks -> TaskType] /\ \A u \in Tasks : u # t => task'[u] = task[u]
    BY DEF Moved
  <1>2. task'[t].pc = p /\ task'[Main].size = task[Main].size
    BY DEF Moved
  <1>3. TasksOK'
    BY <1>1, <1>2, TaskTypes DEF TasksOK, TypeOK, Busy
  <1>4. Up' <=> Up
    BY <1>1, <1>2, Kinds DEF Up, CanMove, Booted
  <1>5. task'[Main].pc \in Booted \cup {"up"}
    BY <1>1, <1>2, Kinds DEF CanMove, PlacesInv
  <1>6. \A s \in Servers :
            task'[s].pc \in {"off", "listen", "check", "lookup", "init", "set", "add"}
    BY <1>1, <1>2, Kinds DEF CanMove, PlacesInv
  <1>7. \A c \in Mine : /\ task'[c].pc \in {"off", "init", "set", "add", "done"}
                        /\ task'[c].pc \in {"init", "set", "add"} => task'[c].chan = c
    BY <1>1, <1>2, Kinds DEF CanMove, PlacesInv, Busy
  <1>8. \A u \in Tasks : task'[u].pc \in Resting => task'[u].chan = None
    BY <1>1, <1>2 DEF PlacesInv
  <1>9. ~ Up' => \A s \in Servers : task'[s].pc = "off"
    BY <1>1, <1>4, Kinds DEF CanMove, PlacesInv
  <1>10. Up' => task'[Main].size = 0 /\ task'[Main].next = 0
    BY <1>1, <1>2, <1>4, Kinds DEF CanMove, PlacesInv, Up
  <1> QED
    BY <1>3, <1>4, <1>5, <1>6, <1>7, <1>8, <1>9, <1>10 DEF PlacesInv, Up

\* The ends of a task's work on a channel.
LEMMA EndedFrame ==
    ASSUME TypeOK, PlacesInv, NEW t \in Tasks, NEW n,
           task[t].pc \in Busy \cup {"start"}, Ended(t, n) \/ GaveUp(t)
    PROVE  TasksOK' /\ PlacesInv' /\ (Up' <=> Up)
  <1>1. t = Main => task[Main].pc # "up"
    BY DEF Busy
  <1>2. t \in Servers => Up
    BY DEF Busy, PlacesInv
  <1>3. CASE Ended(t, n) \/ t # Main
    <2>1. Moved(t, Rest(t)) /\ task'[t].chan = None
      BY <1>3 DEF Ended, GaveUp
    <2>2. CanMove(t, Rest(t)) /\ Rest(t) \notin Busy
      BY <1>1, <1>2, Kinds DEF CanMove, Rest, Booted, Busy
    <2> QED
      BY <2>1, <2>2, MoveFrame
  <1>4. CASE t = Main /\ Kept(t, "dead")
    <2>1. CanMove(t, "dead") /\ Moved(t, "dead")
      BY <1>1, <1>4, Kinds DEF CanMove, Booted, Kept
    <2> QED
      BY <1>4, <2>1, Kinds, MoveFrame DEF Busy, Resting
  <1> QED
    BY <1>3, <1>4 DEF GaveUp

\* A task goes on with its channel.
LEMMA KeptFrame ==
    ASSUME TypeOK, PlacesInv, NEW t \in Tasks, NEW p \in Busy,
           task[t].pc \in Busy, task'[t].chan = task[t].chan, Moved(t, p), CanMove(t, p)
    PROVE  TasksOK' /\ PlacesInv' /\ (Up' <=> Up)
  <1>1. p \notin Resting
    BY DEF Busy, Resting
  <1>2. task[t].chan \in Channels
    BY DEF Busy, TypeOK
  <1>3. t \in Mine => task[t].chan = t
    BY Kinds DEF PlacesInv, Busy
  <1> QED
    BY <1>1, <1>2, <1>3, MoveFrame

LEMMA Steps ==
    ASSUME [Next]_vars
    PROVE  \/ \E t \in Tasks : \/ \E s \in Servers : PublishTo(t, s)
                               \/ Published(t) \/ SetChannel(t) \/ AddIntoList(t)
           \/ StartNext \/ StartLoad \/ StartListeners
           \/ \E s \in Servers : ListenChannel(s) \/ CheckChannel(s) \/ LookupChannel(s)
           \/ \E c \in Mine : Create(c)
           \/ \E c \in Channels : MarkDeleted(c) \/ \E s \in Servers : OthersInit(s, c)
           \/ DeleteRecord \/ Unlist \/ Restart
           \/ \E u \in Clients : Block(u) \/ \E s \in Servers : Register(s, u)
           \/ InitLocalClient \/ UNCHANGED vars
  <1>1. \A t \in Tasks : Common(t) => \/ \E s \in Servers : PublishTo(t, s)
                                      \/ Published(t) \/ SetChannel(t) \/ AddIntoList(t)
    BY DEF Common
  <1> QED
    BY <1>1, Kinds, RegistrationAssumption DEF Next, StartStep, Listener, Deletion

LEMMA PlacesStep ==
    ASSUME Inv, [Next]_vars
    PROVE  TasksOK' /\ PlacesInv'
  <1> DEFINE P == TasksOK' /\ PlacesInv'
  <1>0. TypeOK /\ PlacesInv /\ ServersInv /\ BootInv
    BY DEF Inv
  <1>1. ASSUME NEW t \in Tasks, task[t].pc \in Busy
        PROVE  (t = Main => task[Main].pc # "up") /\ (t \in Servers => Up)
    BY <1>0, <1>1 DEF Busy, PlacesInv
  <1>2. ASSUME NEW t \in Tasks, NEW s \in Servers, PublishTo(t, s) PROVE P
    <2>1. CanMove(t, "init") /\ task[t].pc \in Busy /\ "init" \in Busy
      BY <1>0, <1>1, <1>2, PublishToEffect DEF CanMove, Busy, Booted
    <2> QED
      BY <1>0, <1>2, <2>1, PublishToEffect, KeptFrame
  <1>3. ASSUME NEW t \in Tasks, Published(t) PROVE P
    <2>1. task[t].pc \in Busy
      BY <1>0, <1>3, PublishedEffect DEF Busy
    <2>2. CASE t # Main /\ Kept(t, "set")
      <3>1. CanMove(t, "set") /\ "set" \in Busy
        BY <1>1, <2>1, <2>2 DEF CanMove, Busy
      <3> QED
        BY <1>0, <2>1, <2>2, <3>1, KeptFrame DEF Kept
    <2> QED
      BY <1>0, <1>3, <2>1, <2>2, PublishedEffect, EndedFrame
  <1>4. ASSUME NEW t \in Tasks, SetChannel(t) PROVE P
    <2>1. task[t].pc \in Busy /\ t # Main
      BY <1>0, <1>4, SetChannelEffect DEF Busy, PlacesInv, Booted
    <2>2. CASE Kept(t, "add")
      <3>1. CanMove(t, "add") /\ "add" \in Busy
        BY <1>1, <2>1, <2>2 DEF CanMove, Busy
      <3> QED
        BY <1>0, <2>1, <2>2, <3>1, KeptFrame DEF Kept
    <2> QED
      BY <1>0, <1>4, <2>1, <2>2, SetChannelEffect, EndedFrame
  <1>5. ASSUME NEW t \in Tasks, AddIntoList(t) PROVE P
    <2>1. task[t].pc \in Busy
      BY <1>0, <1>5, AddIntoListEffect DEF Busy
    <2>2. CASE t = Main /\ Kept(t, "init")
      <3>1. CanMove(t, "init") /\ "init" \in Busy
        BY <1>1, <2>1, <2>2, Kinds DEF CanMove, Busy, Booted
      <3> QED
        BY <1>0, <2>1, <2>2, <3>1, KeptFrame DEF Kept
    <2> QED
      BY <1>0, <1>5, <2>1, <2>2, AddIntoListEffect, EndedFrame
  <1>6. CASE StartNext
    <2>1. task[Main].pc = "start"
      BY <1>0, <1>6, StartNextEffect
    <2>2. CASE Moved(Main, "load") /\ task'[Main].chan = index[task[Main].next + 1]
      <3>1. CanMove(Main, "load")
        BY <2>1, Kinds DEF CanMove, Booted
      <3> QED
        BY <1>0, <1>6, <2>2, <3>1, Kinds, StartNextEffect, MoveFrame DEF Resting
    <2>3. CASE Kept(Main, "dead")
      BY <1>0, <2>1, <2>3, Kinds, EndedFrame DEF GaveUp
    <2> QED
      BY <1>0, <1>6, <2>1, <2>2, <2>3, Kinds, StartNextEffect, EndedFrame
  <1>7. CASE StartLoad
    <2>1. task[Main].pc \in Busy
      BY <1>0, <1>7, StartLoadEffect DEF Busy
    <2>2. CASE Kept(Main, "add")
      <3>1. CanMove(Main, "add") /\ "add" \in Busy
        BY <1>1, <2>1, <2>2, Kinds DEF CanMove, Busy, Booted
      <3> QED
        BY <1>0, <2>1, <2>2, <3>1, Kinds, KeptFrame DEF Kept
    <2>3. CASE Kept(Main, "dead")
      BY <1>0, <2>1, <2>3, Kinds, EndedFrame DEF GaveUp
    <2> QED
      BY <1>0, <1>7, <2>2, <2>3, StartLoadEffect
  <1>8. CASE StartListeners
    <2>1. /\ task' \in [Tasks -> TaskType]
          /\ task'[Main].pc = "up" /\ task'[Main].chan = None
          /\ task'[Main].next = 0 /\ task'[Main].size = 0
          /\ \A s \in Servers : task'[s].pc = "listen" /\ task'[s].chan = None
          /\ \A c \in Mine : task'[c] = task[c]
      BY <1>0, <1>8, StartListenersEffect DEF Off
    <2>2. TasksOK'
      BY <1>0, <2>1, Kinds DEF TasksOK, Busy, TypeOK
    <2> QED
      BY <1>0, <2>1, <2>2, Kinds DEF PlacesInv, Up, Resting
  <1>9. ASSUME NEW s \in Servers, ListenChannel(s) PROVE P
    <2>1. CanMove(s, "check")
      BY <1>0, <1>9, Kinds, ListenChannelEffect DEF CanMove, PlacesInv
    <2> QED
      BY <1>0, <1>9, <2>1, Kinds, ListenChannelEffect, MoveFrame DEF Resting
  <1>10. ASSUME NEW s \in Servers, CheckChannel(s) PROVE P
    <2>1. task[s].pc \in Busy /\ CanMove(s, "lookup") /\ "lookup" \in Busy
      BY <1>0, <1>1, <1>10, Kinds, CheckChannelEffect DEF Busy, CanMove
    <2>2. CASE Kept(s, "lookup")
      BY <1>0, <2>1, <2>2, Kinds, KeptFrame DEF Kept
    <2> QED
      BY <1>0, <1>10, <2>1, <2>2, Kinds, CheckChannelEffect, EndedFrame
  <1>11. ASSUME NEW s \in Servers, LookupChannel(s) PROVE P
    <2>1. task[s].pc \in Busy /\ CanMove(s, "init") /\ "init" \in Busy
      BY <1>0, <1>1, <1>11, Kinds, LookupChannelEffect DEF Busy, CanMove
    <2>2. CASE Kept(s, "init")
      BY <1>0, <2>1, <2>2, Kinds, KeptFrame DEF Kept
    <2> QED
      BY <1>0, <1>11, <2>1, <2>2, Kinds, LookupChannelEffect, EndedFrame
  <1>12. CASE Restart
    <2>1. /\ task' \in [Tasks -> TaskType]
          /\ task'[Main].pc = "start" /\ task'[Main].chan = None
          /\ \A s \in Servers : task'[s].pc = "off" /\ task'[s].chan = None
          /\ \A c \in Mine : task'[c].pc \in {"off", "done"} /\ task'[c].chan = None
      BY <1>0, <1>12, RestartEffect
    <2> QED
      BY <2>1, Kinds DEF TasksOK, Busy, PlacesInv, Booted, Up
  <1>13. ASSUME NEW c \in Mine, Create(c) PROVE P
    <2>1. CanMove(c, "init") /\ CanMove(c, "done") /\ task[c].chan = None
      BY <1>0, <1>13, Kinds, CreateEffect DEF CanMove, PlacesInv, Resting
    <2>2. CASE Moved(c, "init") /\ task'[c].chan = c
      BY <1>0, <2>1, <2>2, Kinds, MoveFrame DEF Resting
    <2>3. CASE Kept(c, "done")
      BY <1>0, <2>1, <2>3, Kinds, MoveFrame DEF Kept, Busy
    <2> QED
      BY <1>0, <1>13, <2>2, <2>3, CreateEffect
  <1>14. ASSUME UNCHANGED task PROVE P
    BY <1>0, <1>14, TaskTypes DEF TasksOK, PlacesInv, Busy, TypeOK, Up
  <1>15. ASSUME \/ DeleteRecord \/ Unlist \/ InitLocalClient \/ UNCHANGED vars
                \/ \E c \in Channels : MarkDeleted(c) \/ \E s \in Servers : OthersInit(s, c)
                \/ \E u \in Clients : Block(u) \/ \E s \in Servers : Register(s, u)
         PROVE  UNCHANGED task
    BY <1>15 DEF DeleteRecord, Unlist, MarkDeleted, OthersInit, Block, Register,
       InitLocalClient, vars
  <1> QED
    BY <1>2, <1>3, <1>4, <1>5, <1>6, <1>7, <1>8, <1>9, <1>10, <1>11, <1>12, <1>13, <1>14,
       <1>15, Steps

-----------------------------------------------------------------------------
(* How each variable changes. *)

LEMMA AtChannels ==
    ASSUME TypeOK, NEW p \in Busy PROVE At(p) \subseteq Channels
  BY DEF At, TypeOK, Busy

Everywhere == UNION { onServer[s] : s \in Servers }

\* Lists only grow, by what tasks publish and by what others bring.
ServersMove ==
    /\ srvList' \in [Servers -> Seq(Channels)]
    /\ onServer' \in [Servers -> SUBSET Channels]
    /\ ServersInv'
    /\ \A r \in Servers :
          /\ onServer[r] \subseteq onServer'[r]
          /\ onServer'[r] \subseteq
                onServer[r] \cup At("init") \cup (Channels \ Mine) \cup Everywhere

LEMMA ServersChange ==
    ASSUME Inv, [Next]_vars PROVE ServersMove
  <1>1. TypeOK /\ ServersInv
    BY DEF Inv
  <1>2. ASSUME NEW t \in Tasks, NEW s \in Servers, PublishTo(t, s) PROVE ServersMove
    <2>1. task[t].chan \in At("init") /\ Spread(task[t].chan)
      BY <1>1, <1>2, PublishToEffect DEF At
    <2> QED
      BY <2>1 DEF Spread, ServersMove
  <1>3. ASSUME NEW c \in Channels, NEW s \in Servers, OthersInit(s, c) PROVE ServersMove
    <2>1. /\ Len(EncList[c]) \in 0..Len(EncList[c])
          /\ \A j \in 0..(Len(EncList[c]) - 1) : j \in 0..Len(EncList[c])
      BY NamedTypes
    <2>2. \E j \in 0..Len(EncList[c]) : Enlist(s, c, j)
      BY <1>3, <2>1 DEF OthersInit
    <2>3. Spread(c) /\ (c \notin Mine \/ c \in Everywhere)
      BY <1>1, <1>3, <2>2, EnlistSpread DEF OthersInit, Everywhere
    <2> QED
      BY <2>3 DEF Spread, ServersMove
  <1>4. ASSUME UNCHANGED lists PROVE ServersMove
    BY <1>1, <1>4 DEF TypeOK, ServersInv, lists, ServersMove
  <1>5. ASSUME NEW t \in Tasks, Published(t) \/ SetChannel(t) \/ AddIntoList(t) PROVE ServersMove
    BY <1>4, <1>5 DEF Published, SetChannel, AddIntoList, server
  <1>6. CASE StartNext \/ StartLoad \/ StartListeners
    BY <1>4, <1>6 DEF StartNext, StartLoad, StartListeners, server
  <1>7. ASSUME NEW s \in Servers, ListenChannel(s) \/ CheckChannel(s) \/ LookupChannel(s)
        PROVE ServersMove
    BY <1>4, <1>7 DEF ListenChannel, CheckChannel, LookupChannel, server
  <1>8. ASSUME \/ DeleteRecord \/ Unlist \/ Restart \/ InitLocalClient \/ UNCHANGED vars
               \/ \E c \in Mine : Create(c)
               \/ \E c \in Channels : MarkDeleted(c)
               \/ \E u \in Clients : Block(u) \/ \E s \in Servers : Register(s, u)
        PROVE ServersMove
    BY <1>4, <1>8 DEF DeleteRecord, Unlist, Restart, vars, server, Create, MarkDeleted, Block,
       Register, InitLocalClient
  <1> QED
    BY <1>2, <1>3, <1>5, <1>6, <1>7, <1>8, Steps

\* A channel gets a record; records of deleted channels are removed.
Removed(c) == records' = records \ {c} /\ UNCHANGED index

FileMoves ==
    /\ \/ UNCHANGED <<records, index>>
       \/ \E c \in At("set") : Stored(c)
       \/ \E c \in local.deleted : Removed(c) /\
             \/ c \in saved.deleted
             \/ /\ task[Main].pc = "start" /\ task[Main].next < task[Main].size
                /\ c = index[task[Main].next + 1]
    /\ profiles' \subseteq Clients

LEMMA StoredAt ==
    ASSUME TypeOK PROVE At("set") \subseteq Channels
  BY AtChannels DEF Busy

LEMMA FileChange ==
    ASSUME Inv, [Next]_vars PROVE FileMoves
  <1>1. TypeOK /\ DeletedInv /\ BootInv
    BY DEF Inv
  <1>2. ASSUME UNCHANGED file PROVE FileMoves
    BY <1>1, <1>2 DEF file, TypeOK, FileMoves
  <1>3. ASSUME NEW t \in Tasks, SetChannel(t) PROVE FileMoves
    <2>1. task[t].chan \in At("set")
      BY <1>1, <1>3, SetChannelEffect DEF At
    <2>2. CASE task[t].chan \in records
      <3>1. UNCHANGED <<records, index, profiles>>
        BY <1>1, <1>3, <2>2, SetChannelEffect DEF Stored
      <3> QED
        BY <1>1, <3>1 DEF TypeOK, FileMoves
    <2>3. CASE task[t].chan \notin records
      <3>1. Stored(task[t].chan) /\ UNCHANGED profiles
        BY <1>1, <1>3, <2>3, SetChannelEffect, NamedTypes DEF Stored
      <3> QED
        BY <1>1, <2>1, <3>1 DEF TypeOK, FileMoves
    <2> QED
      BY <2>2, <2>3
  <1>4. CASE StartNext
    <2> DEFINE c == index[task[Main].next + 1]
    <2>1. \/ UNCHANGED <<records, index>>
          \/ c \in local.deleted /\ Removed(c)
      BY <1>1, <1>4, StartNextEffect DEF Removed
    <2>2. task[Main].pc = "start" /\ task[Main].next < task[Main].size /\ UNCHANGED profiles
      BY <1>4 DEF StartNext
    <2> QED
      BY <1>1, <2>1, <2>2 DEF TypeOK, FileMoves
  <1>5. CASE DeleteRecord
    <2>1. /\ deleting.chan \in local.deleted \cap saved.deleted /\ UNCHANGED profiles
          /\ UNCHANGED <<records, index>> \/ Removed(deleting.chan)
      BY <1>1, <1>5 DEF DeleteRecord, DeletedInv, Removed
    <2> QED
      BY <1>1, <2>1 DEF TypeOK, FileMoves
  <1>6. ASSUME NEW t \in Tasks, AddIntoList(t) PROVE FileMoves
    BY <1>1, <1>6, AddIntoListEffect DEF FileMoves
  <1>7. ASSUME NEW c \in Mine, Create(c) PROVE FileMoves
    BY <1>1, <1>7, CreateEffect DEF FileMoves
  <1>8. ASSUME NEW t \in Tasks, Published(t) \/ \E s \in Servers : PublishTo(t, s)
        PROVE FileMoves
    BY <1>2, <1>8 DEF Published, PublishTo
  <1>9. ASSUME NEW s \in Servers, ListenChannel(s) \/ CheckChannel(s) \/ LookupChannel(s)
        PROVE FileMoves
    BY <1>2, <1>9 DEF ListenChannel, CheckChannel, LookupChannel
  <1>10. ASSUME \/ StartLoad \/ StartListeners \/ Unlist \/ UNCHANGED vars
                \/ \E c \in Channels : MarkDeleted(c) \/ \E s \in Servers : OthersInit(s, c)
                \/ \E u \in Clients : Block(u) \/ \E s \in Servers : Register(s, u)
         PROVE FileMoves
    BY <1>2, <1>10 DEF StartLoad, StartListeners, Unlist, vars, MarkDeleted, OthersInit,
       Block, Register
  <1>11. CASE Restart
    <2>1. profiles' \subseteq Clients
      BY <1>1, <1>11 DEF Restart, TypeOK
    <2> QED
      BY <1>1, <1>11, <2>1, RestartStores DEF FileMoves
  <1>12. CASE InitLocalClient
    BY <1>1, <1>12, MeAssumption DEF InitLocalClient, FileMoves, TypeOK
  <1> QED
    BY <1>3, <1>4, <1>5, <1>6, <1>7, <1>8, <1>9, <1>10, <1>11, <1>12, Steps

\* The window and the local data: a channel is shown, marked as deleted, taken
\* away; a restart shows nothing and reads the file.
Shown(c)  == listed' = listed \cup {c} /\ UNCHANGED <<window, boot>>
Marked(c) == /\ \/ /\ saved'.deleted = local.deleted \cup {c}
                   /\ local'.deleted = local.deleted \cup {c}
                   /\ deleting' = [pc |-> "record", chan |-> c]
                \/ /\ UNCHANGED <<saved, deleting>>
                   /\ local'.deleted = local.deleted \cup {c}
             /\ saved' \in LocalType /\ local' \in LocalType
             /\ UNCHANGED <<listed, boot>>

DeletionGoesOn ==
    /\ deleting.pc # "no" /\ deleting'.pc \in {"no", "list"}
    /\ deleting' \in [pc : {"no", "list"}, chan : Channels \cup {None}]
    /\ deleting'.pc # "no" => deleting'.chan = deleting.chan
    /\ listed' \in {listed, listed \ {deleting.chan}}
    /\ UNCHANGED <<saved, local, boot>>
BlockedMoves ==
    /\ saved'.deleted \in {saved.deleted, local.deleted} /\ local'.deleted = local.deleted
    /\ saved' \in LocalType /\ local' \in LocalType
    /\ UNCHANGED <<deleting, listed, boot>>

WindowMoves ==
    \/ UNCHANGED <<window, listed, boot>>
    \/ \E c \in At("add") : Shown(c)
    \/ \E c \in listed : deleting.pc = "no" /\ Marked(c)
    \/ DeletionGoesOn \/ BlockedMoves \/ Restart

LEMMA WindowChange ==
    ASSUME Inv, [Next]_vars PROVE WindowMoves
  <1>1. TypeOK
    BY DEF Inv
  <1>2. ASSUME NEW t \in Tasks, AddIntoList(t) PROVE WindowMoves
    <2>1. task[t].chan \in At("add")
      BY <1>1, <1>2, AddIntoListEffect DEF At
    <2> QED
      BY <1>1, <1>2, <2>1, AddIntoListEffect DEF Shown, WindowMoves
  <1>3. ASSUME NEW c \in Channels, MarkDeleted(c) PROVE WindowMoves
    <2> DEFINE l == [local EXCEPT !.deleted = @ \cup {c}]
    <2>1. l \in LocalType /\ l.deleted = local.deleted \cup {c} /\ saved \in LocalType
      BY <1>1 DEF TypeOK, LocalType
    <2>2. deleting.pc = "no" /\ c \in listed /\ UNCHANGED <<listed, boot>>
      BY <1>3 DEF MarkDeleted
    <2>3. \/ local' = l /\ saved' = l /\ deleting' = [pc |-> "record", chan |-> c]
          \/ local' = l /\ UNCHANGED <<saved, deleting>>
      BY <1>3 DEF MarkDeleted, Save, SaveFails
    <2> HIDE DEF l
    <2>4. Marked(c)
      BY <2>1, <2>2, <2>3 DEF Marked
    <2> QED
      BY <2>2, <2>4 DEF WindowMoves
  <1>4. CASE DeleteRecord \/ Unlist
    <2>1. DeletionGoesOn
      BY <1>1, <1>4 DEF DeleteRecord, Unlist, DeletionGoesOn, TypeOK
    <2> QED
      BY <2>1 DEF WindowMoves
  <1>5. ASSUME NEW u \in Clients, Block(u) PROVE WindowMoves
    <2> DEFINE l == [local EXCEPT !.blocked = IF u \in @ THEN @ \ {u} ELSE @ \cup {u}]
    <2>1. l \in LocalType /\ l.deleted = local.deleted /\ saved \in LocalType
      BY <1>1 DEF TypeOK, LocalType
    <2>2. local' = l /\ saved' \in {saved, l} /\ UNCHANGED <<deleting, listed, boot>>
      BY <1>5 DEF Block, Save, SaveFails
    <2> HIDE DEF l
    <2>3. BlockedMoves
      BY <2>1, <2>2 DEF BlockedMoves
    <2> QED
      BY <2>3 DEF WindowMoves
  <1>6. ASSUME UNCHANGED <<window, listed, boot>> PROVE WindowMoves
    BY <1>6 DEF WindowMoves
  <1>7. ASSUME NEW t \in Tasks,
               Published(t) \/ SetChannel(t) \/ \E s \in Servers : PublishTo(t, s)
        PROVE  WindowMoves
    BY <1>6, <1>7 DEF Published, SetChannel, PublishTo
  <1>8. ASSUME NEW s \in Servers, ListenChannel(s) \/ CheckChannel(s) \/ LookupChannel(s)
        PROVE  WindowMoves
    BY <1>6, <1>8 DEF ListenChannel, CheckChannel, LookupChannel
  <1>9. ASSUME \/ StartNext \/ StartLoad \/ StartListeners \/ InitLocalClient \/ UNCHANGED vars
               \/ \E c \in Mine : Create(c)
               \/ \E c \in Channels, s \in Servers : OthersInit(s, c)
               \/ \E u \in Clients, s \in Servers : Register(s, u)
        PROVE  WindowMoves
    BY <1>6, <1>9 DEF StartNext, StartLoad, StartListeners, vars, window, Create, OthersInit,
       Register, InitLocalClient
  <1>10. CASE Restart
    BY <1>10 DEF WindowMoves
  <1> QED
    BY <1>2, <1>3, <1>4, <1>5, <1>7, <1>8, <1>9, <1>10, Steps

\* Where a task has its next channel from, and what it does not take up.
TaskMoves(t) ==
    /\ t \in Mine /\ task'[t].pc = "off" => task[t].pc = "off"
    /\ task'[t].pc = "up" => task[t].pc = "up" \/ StartListeners
    /\ t \in Mine /\ task'[t].pc \in Bringing => task[t].pc \in Bringing \cup {"off"}
    /\ \/ task'[t].chan \in {None, task[t].chan} \cup Everywhere \cup Indexed
       \/ t \in Mine /\ task'[t].pc # "off" /\ task'[t].chan = t
    /\ task'[t].pc \in Bringing =>
          \/ task'[t].chan \notin local.deleted
          \/ task[t].pc \in Bringing /\ task'[t].chan = task[t].chan

LEMMA OneTaskMoves ==
    ASSUME NEW t \in Tasks, NEW p, Moved(t, p), TaskMoves(t)
    PROVE  \A u \in Tasks : TaskMoves(u)
  BY DEF Moved, TaskMoves

LEMMA KeepMoves ==
    ASSUME NEW t \in Tasks, NEW p, Moved(t, p), task'[t].chan = task[t].chan,
           p \notin {"off", "up"}, p \in Bringing => task[t].pc \in Bringing
    PROVE  \A u \in Tasks : TaskMoves(u)
  <1>1. task'[t].pc = p
    BY DEF Moved
  <1>2. TaskMoves(t)
    BY <1>1 DEF TaskMoves
  <1> QED
    BY <1>2, OneTaskMoves

LEMMA EndMoves ==
    ASSUME NEW t \in Tasks, NEW n, Ended(t, n) \/ GaveUp(t)
    PROVE  \A u \in Tasks : TaskMoves(u)
  <1>1. CASE Moved(t, Rest(t)) /\ task'[t].chan = None
    <2>1. task'[t].pc = Rest(t)
      BY <1>1 DEF Moved
    <2>2. TaskMoves(t)
      BY <1>1, <2>1 DEF TaskMoves, Rest, Bringing
    <2> QED
      BY <1>1, <2>2, OneTaskMoves
  <1>2. CASE Kept(t, "dead")
    BY <1>2, KeepMoves DEF Kept, Bringing
  <1> QED
    BY <1>1, <1>2 DEF Ended, GaveUp

LEMMA TasksChange ==
    ASSUME Inv, [Next]_vars
    PROVE  \A t \in Tasks : TaskMoves(t)
  <1> DEFINE P == \A u \in Tasks : TaskMoves(u)
  <1>0. TypeOK /\ PlacesInv /\ ServersInv /\ BootInv /\ UnbornInv
    BY DEF Inv
  <1>1. ASSUME UNCHANGED task PROVE P
    BY <1>1 DEF TaskMoves
  <1>2. ASSUME NEW t \in Tasks, NEW s \in Servers, PublishTo(t, s) PROVE P
    BY <1>0, <1>2, PublishToEffect, KeepMoves DEF Bringing
  <1>3. ASSUME NEW t \in Tasks, Published(t) PROVE P
    <2>1. CASE Kept(t, "set")
      BY <1>0, <1>3, <2>1, PublishedEffect, KeepMoves DEF Bringing, Kept
    <2> QED
      BY <1>0, <1>3, <2>1, PublishedEffect, EndMoves
  <1>4. ASSUME NEW t \in Tasks, SetChannel(t) PROVE P
    <2>1. CASE Kept(t, "add")
      BY <1>0, <1>4, <2>1, SetChannelEffect, KeepMoves DEF Bringing, Kept
    <2> QED
      BY <1>0, <1>4, <2>1, SetChannelEffect, EndMoves
  <1>5. ASSUME NEW t \in Tasks, AddIntoList(t) PROVE P
    <2>1. CASE Kept(t, "init")
      BY <1>0, <1>5, <2>1, AddIntoListEffect, KeepMoves DEF Bringing, Kept
    <2> QED
      BY <1>0, <1>5, <2>1, AddIntoListEffect, EndMoves
  <1>6. CASE StartNext
    <2> DEFINE c == index[task[Main].next + 1]
    <2>1. task[Main].pc = "start" /\ task[Main].next \in Nat
      BY <1>0, <1>6, TaskTypes, StartNextEffect DEF TaskType
    <2>2. CASE c \notin local.deleted /\ Moved(Main, "load") /\ task'[Main].chan = c
      <3>1. task[Main].next + 1 \in DOMAIN index
        BY <1>0, <1>6, <2>1, TaskTypes, LenProperties, StartNextEffect
        DEF BootInv, TypeOK, TaskType
      <3>2. c \in Indexed
        BY <3>1 DEF Indexed
      <3>3. TaskMoves(Main)
        BY <2>2, <3>2, Kinds DEF TaskMoves, Moved
      <3> QED
        BY <2>2, <3>3, Kinds, OneTaskMoves
    <2>3. CASE Kept(Main, "dead")
      BY <2>3, Kinds, KeepMoves DEF Bringing, Kept
    <2> QED
      BY <1>0, <1>6, <2>1, <2>2, <2>3, Kinds, StartNextEffect, EndMoves
  <1>7. CASE StartLoad
    <2>1. task[Main].pc = "load" /\ (Kept(Main, "add") \/ Kept(Main, "dead"))
      BY <1>0, <1>7, StartLoadEffect
    <2> QED
      BY <2>1, Kinds, KeepMoves DEF Bringing, Kept
  <1>8. CASE StartListeners
    <2>1. /\ task'[Main].pc = "up" /\ task'[Main].chan = None
          /\ \A s \in Servers : task'[s].pc = "listen" /\ task'[s].chan = None
          /\ \A c \in Mine : task'[c] = task[c]
      BY <1>0, <1>8, StartListenersEffect DEF Off
    <2> QED
      BY <1>8, <2>1, Kinds DEF TaskMoves, Bringing
  <1>9. ASSUME NEW s \in Servers, ListenChannel(s) PROVE P
    <2>1. Moved(s, "check") /\ task'[s].pc = "check" /\ task'[s].chan \in Everywhere
      BY <1>0, <1>9, ListenChannelEffect DEF Everywhere, Moved
    <2>2. TaskMoves(s)
      BY <2>1, Kinds DEF TaskMoves, Bringing
    <2> QED
      BY <2>1, <2>2, Kinds, OneTaskMoves
  <1>10. ASSUME NEW s \in Servers, CheckChannel(s) PROVE P
    <2>1. CASE Ended(s, task[s].next + 1)
      BY <2>1, Kinds, EndMoves
    <2>2. CASE Kept(s, "lookup") /\ task[s].chan \notin local.deleted
      <3>1. Moved(s, "lookup") /\ task'[s].pc = "lookup" /\ task'[s].chan = task[s].chan
        BY <2>2 DEF Kept, Moved
      <3>2. TaskMoves(s)
        BY <2>2, <3>1, Kinds DEF TaskMoves
      <3> QED
        BY <3>1, <3>2, Kinds, OneTaskMoves
    <2> QED
      BY <1>0, <1>10, <2>1, <2>2, CheckChannelEffect
  <1>11. ASSUME NEW s \in Servers, LookupChannel(s) PROVE P
    <2>1. CASE Kept(s, "init")
      BY <1>0, <1>11, <2>1, Kinds, LookupChannelEffect, KeepMoves DEF Bringing, Kept
    <2> QED
      BY <1>0, <1>11, <2>1, Kinds, LookupChannelEffect, EndMoves
  <1>12. CASE Restart
    <2>1. \A u \in Tasks : task'[u].chan = None /\ task'[u].pc \in {"start", "off", "done"}
      BY <1>0, <1>12, Kinds, RestartEffect
    <2>2. \A c \in Mine : task'[c].pc = "off" => task[c].pc = "off"
      BY <1>0, <1>12, RestartEffect
    <2> QED
      BY <2>1, <2>2 DEF TaskMoves, Bringing
  <1>13. ASSUME NEW c \in Mine, Create(c) PROVE P
    <2>1. task[c].pc = "off" /\ c \notin local.deleted
      BY <1>0, <1>13, CreateEffect DEF UnbornInv
    <2>2. \/ Moved(c, "init") /\ task'[c].pc = "init" /\ task'[c].chan = c
          \/ Moved(c, "done") /\ task'[c].pc = "done" /\ task'[c].chan = task[c].chan
      BY <1>0, <1>13, CreateEffect DEF Kept, Moved
    <2>3. TaskMoves(c)
      BY <2>1, <2>2 DEF TaskMoves, Bringing
    <2> QED
      BY <2>2, <2>3, Kinds, OneTaskMoves
  <1>14. ASSUME \/ DeleteRecord \/ Unlist \/ InitLocalClient \/ UNCHANGED vars
                \/ \E c \in Channels : MarkDeleted(c) \/ \E s \in Servers : OthersInit(s, c)
                \/ \E u \in Clients : Block(u) \/ \E s \in Servers : Register(s, u)
         PROVE  P
    BY <1>1, <1>14 DEF DeleteRecord, Unlist, MarkDeleted, OthersInit, Block, Register,
       InitLocalClient, vars
  <1> QED
    BY <1>2, <1>3, <1>4, <1>5, <1>6, <1>7, <1>8, <1>9, <1>10, <1>11, <1>12, <1>13, <1>14,
       Steps

LEMMA FaultsChange ==
    ASSUME Inv, [Next]_vars PROVE Fault \/ UNCHANGED faults
  <1> DEFINE P == Fault \/ UNCHANGED faults
  <1>0. TypeOK /\ BootInv
    BY DEF Inv
  <1>1. ASSUME NEW t \in Tasks, NEW s \in Servers, PublishTo(t, s) PROVE P
    BY <1>1 DEF PublishTo
  <1>2. ASSUME NEW t \in Tasks, Published(t) \/ SetChannel(t) \/ AddIntoList(t) PROVE P
    BY <1>2 DEF Published, SetChannel, SetChannelFails, AddIntoList, LoadFails, NameRefused
  <1>3. CASE StartNext \/ StartLoad \/ StartListeners
    BY <1>3 DEF StartNext, StartLoad, StartListeners
  <1>4. ASSUME NEW s \in Servers, ListenChannel(s) \/ CheckChannel(s) \/ LookupChannel(s)
        PROVE  P
    BY <1>4 DEF ListenChannel, CheckChannel, LookupChannel
  <1>5. ASSUME NEW c \in Mine, Create(c) PROVE P
    BY <1>5 DEF Create, LoadFails
  <1>6. ASSUME NEW c \in Channels, MarkDeleted(c) \/ \E s \in Servers : OthersInit(s, c)
        PROVE  P
    BY <1>6 DEF MarkDeleted, Save, SaveFails, OthersInit
  <1>7. ASSUME NEW u \in Clients, Block(u) PROVE P
    BY <1>7 DEF Block, Save, SaveFails
  <1>8. ASSUME \/ DeleteRecord \/ Unlist \/ Restart \/ InitLocalClient \/ UNCHANGED vars
               \/ \E u \in Clients, s \in Servers : Register(s, u)
        PROVE  P
    BY <1>8 DEF DeleteRecord, Unlist, Restart, InitLocalClient, Register, vars
  <1> QED
    BY <1>1, <1>2, <1>3, <1>4, <1>5, <1>6, <1>7, <1>8, Steps

\* What servers know of clients, and what the window refuses to show.
LEMMA RestChange ==
    ASSUME Inv, [Next]_vars
    PROVE  /\ registered' \in [Servers -> SUBSET Clients]
           /\ refused' \subseteq refused \cup At("add")
           /\ Restart \/ refused \subseteq refused'
  <1> DEFINE P == UNCHANGED <<registered, refused>>
  <1>1. TypeOK
    BY DEF Inv
  <1>2. ASSUME P PROVE registered' \in [Servers -> SUBSET Clients] /\ UNCHANGED refused
    BY <1>1, <1>2 DEF TypeOK
  <1>3. ASSUME NEW t \in Tasks, AddIntoList(t)
        PROVE  /\ UNCHANGED registered /\ refused \subseteq refused'
               /\ refused' \subseteq refused \cup At("add")
    BY <1>1, <1>3, AddIntoListEffect DEF At, server
  <1>4. CASE Restart
    BY <1>1, <1>4 DEF Restart, server, TypeOK
  <1>5. ASSUME NEW u \in Clients, NEW s \in Servers, Register(s, u)
        PROVE  registered' \in [Servers -> SUBSET Clients] /\ UNCHANGED refused
    BY <1>1, <1>5 DEF Register, TypeOK
  <1>6. ASSUME NEW t \in Tasks,
               Published(t) \/ SetChannel(t) \/ \E s \in Servers : PublishTo(t, s)
        PROVE  P
    BY <1>6 DEF Published, SetChannel, PublishTo, server
  <1>7. ASSUME NEW s \in Servers, ListenChannel(s) \/ CheckChannel(s) \/ LookupChannel(s)
        PROVE  P
    BY <1>7 DEF ListenChannel, CheckChannel, LookupChannel, server
  <1>8. ASSUME StartNext \/ StartLoad \/ StartListeners PROVE P
    BY <1>8 DEF StartNext, StartLoad, StartListeners, server
  <1>9. ASSUME \/ DeleteRecord \/ Unlist \/ InitLocalClient \/ UNCHANGED vars
               \/ \E c \in Mine : Create(c)
               \/ \E c \in Channels : MarkDeleted(c) \/ \E s \in Servers : OthersInit(s, c)
               \/ \E u \in Clients : Block(u)
        PROVE  P
    BY <1>9 DEF DeleteRecord, Unlist, InitLocalClient, vars, Create, MarkDeleted, OthersInit,
       Block, server
  <1> HIDE DEF P
  <1> QED
    BY <1>1, <1>2, <1>3, <1>4, <1>5, <1>6, <1>7, <1>8, <1>9, Steps DEF TypeOK

-----------------------------------------------------------------------------
(* The invariants are kept. *)

LEMMA TypeStep ==
    ASSUME Inv, [Next]_vars PROVE TypeOK'
  <1>0. TypeOK /\ DeletedInv
    BY DEF Inv
  <1>1. /\ srvList' \in [Servers -> Seq(Channels)] /\ onServer' \in [Servers -> SUBSET Channels]
        /\ registered' \in [Servers -> SUBSET Clients] /\ refused' \subseteq Channels
    <2>1. At("add") \subseteq Channels
      BY <1>0, AtChannels DEF Busy
    <2> QED
      BY <1>0, <2>1, ServersChange, RestChange DEF ServersMove, TypeOK
  <1>2. /\ records' \subseteq Channels /\ index' \in Seq(Channels)
        /\ profiles' \subseteq Clients
    <2>1. ASSUME NEW c \in At("set"), Stored(c)
          PROVE  records' \subseteq Channels /\ index' \in Seq(Channels)
      BY <1>0, <2>1, StoredAt, StoredEffect DEF TypeOK
    <2>2. ASSUME NEW c, Removed(c)
          PROVE  records' \subseteq Channels /\ index' \in Seq(Channels)
      BY <1>0, <2>2 DEF Removed, TypeOK
    <2> QED
      BY <1>0, <2>1, <2>2, FileChange DEF FileMoves, TypeOK
  <1>3. /\ saved' \in LocalType /\ local' \in LocalType /\ listed' \subseteq Channels
        /\ deleting' \in [pc : {"no", "record", "list"}, chan : Channels \cup {None}]
        /\ deleting'.pc # "no" => deleting'.chan \in Channels
        /\ bootDeleted' \subseteq Channels
    <2> DEFINE P == /\ saved' \in LocalType /\ local' \in LocalType /\ listed' \subseteq Channels
                    /\ deleting' \in [pc : {"no", "record", "list"}, chan : Channels \cup {None}]
                    /\ deleting'.pc # "no" => deleting'.chan \in Channels
                    /\ bootDeleted' \subseteq Channels
    <2>1. CASE UNCHANGED <<window, listed, boot>>
      BY <1>0, <2>1 DEF window, boot, TypeOK
    <2>2. ASSUME NEW c \in At("add"), Shown(c) PROVE P
      <3>1. c \in Channels
        BY <1>0, AtChannels DEF Busy
      <3> QED
        BY <1>0, <2>2, <3>1 DEF Shown, window, boot, TypeOK
    <2>3. ASSUME NEW c \in listed, Marked(c) PROVE P
      BY <1>0, <2>3 DEF Marked, boot, TypeOK
    <2>4. CASE DeletionGoesOn
      BY <1>0, <2>4 DEF DeletionGoesOn, boot, TypeOK
    <2>5. CASE BlockedMoves
      BY <1>0, <2>5 DEF BlockedMoves, boot, TypeOK
    <2>6. CASE Restart
      BY <1>0, <2>6 DEF Restart, TypeOK, LocalType
    <2> QED
      BY <2>1, <2>2, <2>3, <2>4, <2>5, <2>6, WindowChange DEF WindowMoves
  <1>4. faults' \in 0..MaxFaults /\ bootFaults' \in 0..faults'
    <2>1. faults' \in 0..MaxFaults /\ bootFaults \in 0..faults' /\ faults' \in Nat
      BY <1>0, FaultsChange, FaultEffect DEF TypeOK
    <2>2. UNCHANGED bootFaults \/ Restart
      BY WindowChange DEF WindowMoves, boot, Shown, Marked, DeletionGoesOn, BlockedMoves
    <2>3. CASE Restart
      BY <2>1, <2>3 DEF Restart, Fault
    <2> QED
      BY <2>1, <2>2, <2>3
  <1>5. TasksOK'
    BY PlacesStep
  <1> QED
    BY <1>1, <1>2, <1>3, <1>4, <1>5 DEF TypeOK, TasksOK, TaskType, Busy

LEMMA IndexedChange ==
    ASSUME Inv, [Next]_vars
    PROVE  /\ Indexed' \subseteq Indexed \cup At("set")
           /\ records' \subseteq records \cup At("set")
  <1>1. ASSUME NEW c \in At("set"), Stored(c)
        PROVE  Indexed' \subseteq Indexed \cup {c} /\ records' \subseteq records \cup {c}
    BY <1>1, StoredAt, StoredEffect DEF Inv
  <1>2. ASSUME NEW c, Removed(c)
        PROVE  Indexed' = Indexed /\ records' \subseteq records
    BY <1>2 DEF Removed, Indexed
  <1> QED
    BY <1>1, <1>2, FileChange DEF FileMoves, Indexed

LEMMA UnbornStep ==
    ASSUME Inv, [Next]_vars PROVE UnbornInv'
  <1> SUFFICES ASSUME NEW c \in Mine, task'[c].pc = "off"
               PROVE  /\ \A s \in Servers : c \notin onServer'[s]
                      /\ c \notin records' \cup Indexed' \cup listed' \cup local'.deleted
                      /\ \A t \in Tasks : task'[t].chan # c
    BY DEF UnbornInv
  <1>1. task[c].pc = "off" /\ c # None
    BY TasksChange, Kinds DEF TaskMoves
  <1>2. /\ \A s \in Servers : c \notin onServer[s]
        /\ c \notin records \cup Indexed \cup listed \cup local.deleted \cup saved.deleted
        /\ \A t \in Tasks : task[t].chan # c
    BY <1>1 DEF Inv, UnbornInv, DeletedInv
  <1>3. c \notin Everywhere /\ \A p : c \notin At(p)
    BY <1>2 DEF Everywhere, At
  <1>4. \A s \in Servers : c \notin onServer'[s]
    BY <1>2, <1>3, ServersChange DEF ServersMove
  <1>5. \A t \in Tasks : task'[t].chan # c
    BY <1>1, <1>2, <1>3, TasksChange DEF TaskMoves
  <1>6. c \notin records' \cup Indexed'
    BY <1>2, <1>3, IndexedChange
  <1>7. c \notin listed' \cup local'.deleted
    BY <1>2, <1>3, WindowChange
    DEF WindowMoves, window, Shown, Marked, DeletionGoesOn, BlockedMoves, Restart
  <1> QED
    BY <1>4, <1>5, <1>6, <1>7

LEMMA DeletedStep ==
    ASSUME Inv, [Next]_vars
    PROVE  DeletedInv' /\ (Restart \/ local.deleted \subseteq local'.deleted)
           /\ saved.deleted \subseteq saved'.deleted
  <1>0. DeletedInv
    BY DEF Inv
  <1>1. CASE UNCHANGED <<window, listed, boot>>
    BY <1>0, <1>1 DEF window, boot, DeletedInv
  <1>2. ASSUME NEW c \in At("add"), Shown(c)
        PROVE  DeletedInv' /\ UNCHANGED <<local, saved>>
    BY <1>0, <1>2 DEF Shown, window, boot, DeletedInv
  <1>3. ASSUME NEW c \in listed, Marked(c), deleting.pc = "no"
        PROVE  DeletedInv' /\ local.deleted \subseteq local'.deleted
               /\ saved.deleted \subseteq saved'.deleted
    BY <1>0, <1>3 DEF Marked, boot, DeletedInv
  <1>4. CASE DeletionGoesOn
    BY <1>0, <1>4 DEF DeletionGoesOn, boot, DeletedInv
  <1>5. CASE BlockedMoves
    BY <1>0, <1>5 DEF BlockedMoves, boot, DeletedInv
  <1>6. CASE Restart
    BY <1>0, <1>6 DEF Restart, DeletedInv
  <1> QED
    BY <1>1, <1>2, <1>3, <1>4, <1>5, <1>6, WindowChange DEF WindowMoves, window

LEMMA SpareStep ==
    ASSUME Inv, [Next]_vars PROVE SpareInv'
  <1>0. SpareInv /\ DeletedInv /\ PlacesInv /\ TypeOK
    BY DEF Inv
  <1>1. CASE Restart
    <2>1. \A t \in Tasks : task'[t].pc \notin Bringing
      BY <1>0, <1>1, RestartEffect, Kinds DEF Bringing
    <2> QED
      BY <1>1, <2>1 DEF SpareInv, Restart
  <1>2. CASE ~ Restart
    <2>1. UNCHANGED bootDeleted /\ listed' \subseteq listed \cup At("add")
      BY <1>2, WindowChange
      DEF WindowMoves, Shown, Marked, DeletionGoesOn, BlockedMoves, boot
    <2>2. At("add") \cap bootDeleted = {}
      BY <1>0 DEF At, SpareInv, Bringing
    <2>3. \A t \in Tasks : task'[t].pc \in Bringing => task'[t].chan \notin bootDeleted
      BY <1>0, TasksChange DEF TaskMoves, SpareInv, DeletedInv
    <2> QED
      BY <1>0, <2>1, <2>2, <2>3 DEF SpareInv
  <1> QED
    BY <1>1, <1>2

\* The index only grows, by what tasks store.
LEMMA IndexGrows ==
    ASSUME Inv, [Next]_vars
    PROVE  /\ Len(index) \in Nat /\ Len(index') \in Nat /\ Len(index) <= Len(index')
           /\ \A i \in 1..Len(index) : index'[i] = index[i] /\ index[i] \in Indexed
           /\ \A i \in 1..Len(index') : i \notin 1..Len(index) => index'[i] \in At("set")
  <1>1. index \in Seq(Channels) /\ Len(index) \in Nat /\ DOMAIN index = 1..Len(index)
    BY LenProperties DEF Inv, TypeOK
  <1>2. ASSUME NEW c \in At("set"), Stored(c)
        PROVE  /\ Len(index') \in Nat /\ Len(index) <= Len(index')
               /\ \A i \in 1..Len(index) : index'[i] = index[i]
               /\ \A i \in 1..Len(index') : i \notin 1..Len(index) => index'[i] = c
    BY <1>2, StoredAt, StoredEffect DEF Inv
  <1>3. UNCHANGED index \/ \E c \in At("set") : Stored(c)
    BY FileChange DEF FileMoves, Removed
  <1>4. \A i \in 1..Len(index) : index[i] \in Indexed
    BY <1>1 DEF Indexed
  <1> QED
    BY <1>1, <1>2, <1>3, <1>4

LEMMA StartTypes ==
    ASSUME Inv
    PROVE  /\ task[Main].next \in Nat /\ task[Main].size \in Nat
           /\ Len(index) \in Nat /\ task[Main].size <= Len(index)
  BY TaskTypes, LenProperties DEF Inv, BootInv, TypeOK, TaskType

\* What the start removes was deleted and saved, since it is not in the window yet;
\* but a channel that names the client twice may be.
LEMMA RemovedIsDeleted ==
    ASSUME Inv, task[Main].pc = "start", task[Main].next < task[Main].size,
           index[task[Main].next + 1] \in local.deleted
    PROVE  \/ index[task[Main].next + 1] \in saved.deleted
           \/ Twice(index[task[Main].next + 1])
  <1>1. task[Main].next \in Nat /\ task[Main].size \in Nat
    BY TaskTypes DEF Inv, TaskType
  <1>2. task[Main].next + 1 \in (task[Main].next + 1)..task[Main].size
    BY <1>1
  <1>3. index[task[Main].next + 1] \in Remaining(task[Main].next + 1)
    BY <1>2 DEF Remaining
  <1> QED
    BY <1>3 DEF Inv, BootInv, DeletedInv, Ahead1

\* The index names a channel as often as it is appended to it.
LEMMA IndexedOnceStep ==
    ASSUME Inv, [Next]_vars PROVE IndexedOnce'
  <1> DEFINE Places(c) == { i \in DOMAIN index : index[i] = c }
             Places1(c) == { i \in DOMAIN index' : index'[i] = c }
  <1>0. /\ IndexInv /\ TypeOK /\ PlacesInv /\ index \in Seq(Channels)
        /\ saved.deleted \subseteq saved'.deleted
    BY DeletedStep DEF Inv, TypeOK
  <1>1. CASE UNCHANGED index
    BY <1>0, <1>1 DEF IndexInv, IndexedOnce
  <1>2. ASSUME NEW c \in At("set"), c \notin records,
               NEW j \in 0..Len(EncList[c]), Write(c, j)
        PROVE  IndexedOnce'
    <2>1. c \in Channels
      BY <1>0, StoredAt
    <2>2. /\ Len(index) \in Nat /\ DOMAIN index = 1..Len(index)
          /\ DOMAIN index' = 1..(Len(index) + Named(c, j)) /\ Named(c, j) \in Nat
          /\ \A i \in 1..Len(index) : index'[i] = index[i]
          /\ \A i \in 1..(Len(index) + Named(c, j)) : i \notin 1..Len(index) => index'[i] = c
      BY <1>0, <1>2, <2>1, EntriesAdded, NamedTypes DEF Write
    <2>3. ASSUME NEW d \in Channels, d # c PROVE Places1(d) = Places(d)
      <3>1. \A i \in 1..Len(index) : i \in 1..(Len(index) + Named(c, j))
        BY <2>2
      <3> QED
        BY <2>2, <2>3, <3>1
    <2>4. CASE c \in Indexed
      <3>1. PICK t \in Tasks : task[t].pc = "set" /\ task[t].chan = c
        BY <1>2 DEF At
      <3>2. t \in Servers \cup Mine
        BY <1>0, <3>1, Kinds DEF PlacesInv, Booted
      <3>3. t \in Mine => ~ Twice(c)
        BY <1>0, <2>1, <3>1, NamedTypes DEF PlacesInv
      <3>4. c \in saved.deleted
        BY <1>0, <1>2, <2>4, <3>1, <3>2, <3>3 DEF IndexInv, Gone, Bringing
      <3> QED
        BY <1>0, <2>3, <3>4 DEF IndexInv, IndexedOnce
    <2>5. CASE c \notin Indexed
      <3>1. \A i \in 1..Len(index) : index'[i] # c
        BY <2>2, <2>5 DEF Indexed
      <3>2. Places1(c) = (Len(index) + 1)..(Len(index) + Named(c, j))
        BY <2>2, <3>1
      <3>3. Cardinality(Places1(c)) = Named(c, j)
        <4> DEFINE a == Len(index) + 1
                   b == Len(index) + Named(c, j)
        <4>1. a \in Int /\ b \in Int /\ (IF a > b THEN 0 ELSE b - a + 1) = Named(c, j)
          BY <2>2
        <4> HIDE DEF a, b, Places1
        <4>2. Cardinality(a..b) = IF a > b THEN 0 ELSE b - a + 1
          BY <4>1, FS_Interval
        <4> QED
          BY <3>2, <4>1, <4>2 DEF a, b
      <3>4. ~ (Cardinality(Places1(c)) > Named(c, Len(EncList[c])))
        <4>1. Named(c, Len(EncList[c])) \in Nat /\ Named(c, j) <= Named(c, Len(EncList[c]))
          BY <2>1, NamedTypes
        <4> HIDE DEF Places1
        <4> QED
          BY <2>2, <3>3, <4>1
      <3> QED
        BY <1>0, <2>3, <3>4 DEF IndexInv, IndexedOnce
    <2> QED
      BY <2>4, <2>5
  <1> QED
    BY <1>1, <1>2, FileChange DEF FileMoves, Stored, Removed

\* How the start moves on; where it gave up, it stays.
LEMMA MainStep ==
    ASSUME Inv, [Next]_vars, ~ Restart
    PROVE  \/ task'[Main] = task[Main]
           \/ StartListeners
           \/ /\ task[Main].pc # "dead" /\ ~ Up /\ ~ Up'
              /\ task'[Main].size = task[Main].size
              /\ \/ task'[Main].next = task[Main].next
                 \/ /\ task'[Main].next = task[Main].next + 1
                    /\ index[task[Main].next + 1] \in records \cup local.deleted
  <1> DEFINE m == task[Main]
             Same == m.pc # "dead" /\ ~ Up /\ ~ Up' /\ task'[Main].size = m.size
                     /\ task'[Main].next = m.next
             Further == m.pc # "dead" /\ ~ Up /\ ~ Up' /\ task'[Main].size = m.size
                        /\ task'[Main].next = m.next + 1
                        /\ index[m.next + 1] \in records \cup local.deleted
             P == task'[Main] = task[Main] \/ StartListeners \/ Same \/ Further
  <1>0. TypeOK /\ PlacesInv /\ ServersInv /\ DeletedInv /\ BootInv
    BY DEF Inv
  <1>1. ASSUME NEW t \in Tasks, NEW p, Moved(t, p), t # Main PROVE P
    BY <1>1, Kinds DEF Moved
  <1>2. ASSUME NEW p, p # "up", Moved(Main, p), task'[Main].next = m.next,
               m.pc \notin {"dead", "up"}
        PROVE  Same
    BY <1>2 DEF Moved, Up
  <1>3. ASSUME Ended(Main, m.next + 1), m.pc \notin {"dead", "up"},
               index[m.next + 1] \in records \cup local.deleted
        PROVE  Further
    BY <1>3 DEF Ended, Rest, Moved, Up
  <1> HIDE DEF Same, Further
  <1>4. ASSUME NEW t \in Tasks, NEW s \in Servers, PublishTo(t, s) PROVE P
    BY <1>0, <1>1, <1>2, <1>4, PublishToEffect
  <1>5. ASSUME NEW t \in Tasks, Published(t) PROVE P
    <2>1. CASE t = Main /\ Ended(Main, m.next + 1)
      <3>1. m.pc = "init" /\ index[m.next + 1] \in records \cup local.deleted
        BY <1>0, <1>5, <2>1, PublishedEffect DEF BootInv, DeletedInv
      <3> QED
        BY <1>3, <2>1, <3>1
    <2> QED
      BY <1>0, <1>1, <1>5, <2>1, PublishedEffect DEF Ended, Kept
  <1>6. ASSUME NEW t \in Tasks, SetChannel(t) PROVE P
    <2>1. t # Main
      BY <1>0, <1>6, SetChannelEffect DEF PlacesInv, Booted
    <2> QED
      BY <1>0, <1>1, <1>6, <2>1, SetChannelEffect DEF Ended, Kept, GaveUp
  <1>7. ASSUME NEW t \in Tasks, AddIntoList(t) PROVE P
    <2>1. CASE t = Main
      BY <1>0, <1>2, <1>7, <2>1, AddIntoListEffect DEF Kept, GaveUp
    <2>2. CASE t # Main
      BY <1>0, <1>1, <1>7, <2>2, AddIntoListEffect DEF Ended, GaveUp
    <2> QED
      BY <2>1, <2>2
  <1>8. ASSUME StartNext PROVE P
    <2>1. m.pc = "start"
      BY <1>0, <1>8, StartNextEffect
    <2>2. CASE Moved(Main, "load") /\ task'[Main].next = m.next
      BY <1>2, <2>1, <2>2
    <2>3. CASE Ended(Main, m.next + 1) /\ index[m.next + 1] \in local.deleted
      BY <1>3, <2>1, <2>3
    <2>4. CASE Kept(Main, "dead")
      BY <1>2, <2>1, <2>4 DEF Kept
    <2> QED
      BY <1>0, <1>8, <2>2, <2>3, <2>4, StartNextEffect
  <1>9. ASSUME StartLoad PROVE P
    <2>1. m.pc = "load" /\ (Kept(Main, "add") \/ Kept(Main, "dead"))
      BY <1>0, <1>9, StartLoadEffect
    <2> QED
      BY <1>2, <2>1 DEF Kept
  <1>10. ASSUME NEW s \in Servers, ListenChannel(s) \/ CheckChannel(s) \/ LookupChannel(s)
         PROVE  P
    BY <1>0, <1>1, <1>10, Kinds, ListenChannelEffect, CheckChannelEffect, LookupChannelEffect
    DEF Ended, Kept
  <1>11. ASSUME NEW c \in Mine, Create(c) PROVE P
    BY <1>0, <1>1, <1>11, Kinds, CreateEffect DEF Kept
  <1>12. ASSUME \/ DeleteRecord \/ Unlist \/ InitLocalClient \/ UNCHANGED vars
                \/ \E c \in Channels : MarkDeleted(c) \/ \E s \in Servers : OthersInit(s, c)
                \/ \E u \in Clients : Block(u) \/ \E s \in Servers : Register(s, u)
         PROVE  P
    BY <1>12 DEF DeleteRecord, Unlist, MarkDeleted, OthersInit, Block, Register,
       InitLocalClient, vars
  <1>13. P
    BY <1>4, <1>5, <1>6, <1>7, <1>8, <1>9, <1>10, <1>11, <1>12, Steps
  <1> QED
    BY <1>13 DEF Same, Further

\* A channel without a record is named in the index only if its deletion is saved,
\* or if the start has just removed it.
LEMMA GoneChange ==
    ASSUME Inv, [Next]_vars, NEW c, c \in Gone', c \notin Gone
    PROVE  /\ ~ Restart /\ c \in local.deleted /\ Twice(c)
           /\ task[Main].pc = "start"
  <1>0. TypeOK /\ saved.deleted \subseteq saved'.deleted
    BY DeletedStep DEF Inv
  <1>1. ASSUME UNCHANGED <<records, index>> \/ \E d \in At("set") : Stored(d) PROVE FALSE
    <2>1. ASSUME NEW d \in At("set"), Stored(d) PROVE FALSE
      <3>1. d \in Channels
        BY <1>0, StoredAt
      <3>2. Indexed' \subseteq Indexed \cup {d} /\ records \subseteq records'
        BY <1>0, <2>1, <3>1, StoredEffect
      <3>3. Indexed' = Indexed \/ d \in records'
        BY <2>1 DEF Stored, Write, Indexed
      <3> QED
        BY <1>0, <3>2, <3>3 DEF Gone
    <2> QED
      BY <1>0, <1>1, <2>1 DEF Gone, Indexed
  <1>2. ~ Restart
    BY <1>0, <1>1, RestartStores
  <1>3. PICK d \in local.deleted : Removed(d) /\
             \/ d \in saved.deleted
             \/ /\ task[Main].pc = "start" /\ task[Main].next < task[Main].size
                /\ d = index[task[Main].next + 1]
    BY <1>1, FileChange DEF FileMoves
  <1>4. c = d /\ c \notin saved.deleted
    BY <1>0, <1>3 DEF Gone, Removed, Indexed
  <1> QED
    BY <1>2, <1>3, <1>4, RemovedIsDeleted

LEMMA IndexStep ==
    ASSUME Inv, [Next]_vars PROVE IndexInv'
  <1>0. /\ IndexInv /\ TypeOK /\ PlacesInv /\ PlacesInv' /\ BootInv
        /\ Restart \/ local.deleted \subseteq local'.deleted
    BY PlacesStep, DeletedStep DEF Inv
  <1>1. ASSUME NEW s \in Servers, ~ Up \/ Restart PROVE task'[s].pc \notin Bringing
    <2>1. CASE Restart
      BY <1>0, <2>1, RestartEffect DEF Bringing
    <2>2. CASE ~ Up'
      BY <1>0, <2>2 DEF PlacesInv, Bringing
    <2>3. CASE ~ Up /\ Up'
      <3>1. StartListeners
        BY <2>3, TasksChange, Kinds DEF Up, TaskMoves
      <3> QED
        BY <1>0, <3>1, StartListenersEffect DEF Off, Bringing
    <2> QED
      BY <1>1, <2>1, <2>2, <2>3
  <1>2. ASSUME NEW c \in Gone'
        PROVE  /\ Twice(c)
               /\ \A s \in Servers : task'[s].pc \in Bringing => task'[s].chan # c
    <2>1. CASE c \notin Gone
      <3>1. Twice(c) /\ ~ Up
        BY <1>2, <2>1, GoneChange DEF Up
      <3> QED
        BY <1>1, <3>1
    <2>2. CASE c \in Gone
      <3>1. Twice(c) /\ \A s \in Servers : task[s].pc \in Bringing => task[s].chan # c
        BY <1>0, <2>2 DEF IndexInv
      <3>2. c \in local.deleted \/ ~ Up
        BY <1>0, <2>2 DEF IndexInv, Up
      <3>3. ASSUME NEW s \in Servers, task'[s].pc \in Bringing PROVE task'[s].chan # c
        BY <1>1, <3>1, <3>2, <3>3, TasksChange, Kinds DEF TaskMoves
      <3> QED
        BY <3>1, <3>3
    <2> QED
      BY <2>1, <2>2
  <1>3. ASSUME NEW c \in Gone'
        PROVE  \/ c \in local'.deleted \/ task'[Main].pc = "dead"
               \/ ~ Up' /\ c \in { index'[i] : i \in (task'[Main].next + 1)..task'[Main].size }
    <2>1. CASE Restart
      <3>1. /\ task'[Main].pc = "start" /\ task'[Main].next = 0
            /\ task'[Main].size = Len(index') /\ DOMAIN index' = 1..Len(index')
        BY <1>0, <2>1, RestartEffect, RestartStores, LenProperties
      <3>2. c \in Indexed'
        BY <1>3 DEF Gone
      <3> QED
        BY <3>1, <3>2 DEF Indexed, Up
    <2>2. CASE ~ Restart /\ c \notin Gone
      BY <1>0, <1>3, <2>2, GoneChange
    <2>3. CASE ~ Restart /\ c \in Gone /\ c \notin local.deleted
      <3>1. c \notin records
        BY <2>3 DEF Gone
      <3>2. \/ task[Main].pc = "dead"
            \/ ~ Up /\ c \in Remaining(task[Main].next + 1)
        BY <1>0, <2>3 DEF IndexInv
      <3>3. /\ task[Main].next \in Nat /\ task[Main].size \in Nat /\ Len(index) \in Nat
            /\ task[Main].size <= Len(index)
        BY StartTypes
      <3>4. \A i \in 1..task[Main].size : index'[i] = index[i]
        BY <3>3, IndexGrows
      <3>5. CASE task[Main].pc = "dead"
        BY <1>0, <2>3, <3>5, MainStep, StartListenersEffect
      <3>6. CASE ~ Up /\ c \in Remaining(task[Main].next + 1)
        <4>1. PICK i \in (task[Main].next + 1)..task[Main].size : index[i] = c
          BY <3>6 DEF Remaining
        <4>2. i \in 1..task[Main].size /\ index'[i] = c
          BY <3>3, <3>4, <4>1
        <4>3. ~ StartListeners
          BY <1>0, <3>3, <4>1, StartListenersEffect
        <4>4. task'[Main].size = task[Main].size /\ ~ Up'
          BY <2>3, <3>6, <4>3, MainStep DEF Up
        <4>5. i \in (task'[Main].next + 1)..task'[Main].size
          <5>1. CASE task'[Main].next = task[Main].next
            BY <4>1, <4>4, <5>1
          <5>2. CASE /\ task'[Main].next = task[Main].next + 1
                     /\ index[task[Main].next + 1] \in records \cup local.deleted
            <6>1. i # task[Main].next + 1
              BY <2>3, <3>1, <4>1, <5>2
            <6> QED
              BY <3>3, <4>1, <4>4, <5>2, <6>1
          <5> QED
            BY <2>3, <4>3, <5>1, <5>2, MainStep
        <4> QED
          BY <4>2, <4>4, <4>5
      <3> QED
        BY <3>2, <3>5, <3>6
    <2> QED
      BY <1>0, <2>1, <2>2, <2>3
  <1> QED
    BY <1>2, <1>3, IndexedOnceStep DEF IndexInv, Remaining

LEMMA PublishedKept ==
    ASSUME Inv, [Next]_vars, NEW c, Published1(c) PROVE Published1(c)'
  BY ServersChange DEF ServersMove, Published1

LEMMA BackedMoves ==
    ASSUME Inv, [Next]_vars, NEW t \in Tasks, NEW p, Moved(t, p), Backed(t)'
    PROVE  \A u \in Tasks : Backed(u)'
  <1> SUFFICES ASSUME NEW u \in Tasks, u # t PROVE Backed(u)'
    OBVIOUS
  <1>1. task'[u] = task[u] /\ Backed(u)
    BY DEF Moved, Inv, PublishedInv
  <1> QED
    BY <1>1, PublishedKept DEF Backed

LEMMA FreeMoves ==
    ASSUME Inv, [Next]_vars, NEW t \in Tasks, NEW n,
           \/ Ended(t, n) \/ GaveUp(t)
           \/ \E p \in {"load", "check", "lookup", "add", "dead", "done"} : Moved(t, p)
           \/ Moved(t, "init") /\ ~ task'[t].ok
    PROVE  \A u \in Tasks : Backed(u)'
  <1>1. ASSUME NEW p, p \notin {"init", "set"}, Moved(t, p)
        PROVE  \A u \in Tasks : Backed(u)'
    BY <1>1, BackedMoves DEF Backed, Moved
  <1>2. Rest(t) \notin {"init", "set"}
    BY DEF Rest
  <1>3. CASE Moved(t, "init") /\ ~ task'[t].ok
    BY <1>3, BackedMoves DEF Backed, Moved
  <1> QED
    BY <1>1, <1>2, <1>3 DEF Ended, GaveUp, Kept

LEMMA PublishedStep ==
    ASSUME Inv, [Next]_vars PROVE PublishedInv'
  <1> DEFINE P == \A u \in Tasks : Backed(u)'
  <1>0. TypeOK /\ ServersInv /\ BootInv /\ PublishedInv
    BY DEF Inv
  <1>1. StoredIsPublished'
    <2>1. \A c \in At("set") : Published1(c)
      BY <1>0 DEF At, PublishedInv, Backed
    <2>2. \A c \in records : Published1(c)
      BY <1>0 DEF PublishedInv, StoredIsPublished, Published1
    <2>3. \A c \in records' : Published1(c)'
      BY <2>1, <2>2, IndexedChange, PublishedKept
    <2> QED
      BY <2>3 DEF StoredIsPublished, Published1
  <1>2. ASSUME NEW t \in Tasks, NEW s \in Servers, PublishTo(t, s) PROVE P
    <2>1. Moved(t, "init") /\ task'[t].pc = "init" /\ task'[t].chan = task[t].chan
      BY <1>0, <1>2, PublishToEffect DEF Moved
    <2>2. PICK c : c = task[t].chan
      OBVIOUS
    <2>3. ASSUME task'[t].ok PROVE Published1(c)'
      <3>1. CASE task[t].ok
        <4>1. Published1(c)
          BY <1>0, <1>2, <2>2, <3>1, PublishToEffect DEF PublishedInv, Backed
        <4> QED
          BY <4>1, PublishedKept
      <3>2. CASE c \in onServer'[s]
        BY <3>2 DEF Published1
      <3> QED
        BY <1>0, <1>2, <2>2, <2>3, <3>1, <3>2, PublishToEffect
    <2> QED
      BY <2>1, <2>2, <2>3, BackedMoves DEF Backed
  <1>3. ASSUME NEW t \in Tasks, Published(t) PROVE P
    <2>1. CASE (task[t].ok \/ Servers = {}) /\ Kept(t, "set")
      <3>1. Moved(t, "set") /\ task'[t].chan = task[t].chan /\ Published1(task[t].chan)
        BY <1>0, <1>3, <2>1, PublishedEffect DEF Kept, PublishedInv, Backed, Published1
      <3>2. Backed(t)'
        BY <3>1, PublishedKept DEF Backed
      <3> QED
        BY <3>1, <3>2, BackedMoves
    <2> QED
      BY <1>0, <1>3, <2>1, PublishedEffect, FreeMoves
  <1>4. ASSUME NEW t \in Tasks, SetChannel(t) PROVE P
    BY <1>0, <1>4, SetChannelEffect, FreeMoves DEF Kept
  <1>5. ASSUME NEW t \in Tasks, AddIntoList(t) PROVE P
    BY <1>0, <1>5, AddIntoListEffect, FreeMoves DEF Kept
  <1>6. ASSUME StartNext \/ StartLoad PROVE P
    <2>1. \/ Ended(Main, task[Main].next + 1)
          \/ Moved(Main, "load") \/ Moved(Main, "add") \/ Moved(Main, "dead")
      BY <1>0, <1>6, StartNextEffect, StartLoadEffect DEF Kept
    <2> QED
      BY <2>1, Kinds, FreeMoves
  <1>7. ASSUME StartListeners PROVE P
    <2>1. \A u \in Tasks : task'[u] = task[u] \/ task'[u].pc \in {"up", "listen"}
      BY <1>0, <1>7, Kinds, StartListenersEffect DEF Off
    <2>2. ASSUME NEW u \in Tasks, task'[u] = task[u] PROVE Backed(u)'
      BY <1>0, <2>2, PublishedKept DEF PublishedInv, Backed
    <2>3. ASSUME NEW u \in Tasks, task'[u].pc \in {"up", "listen"} PROVE Backed(u)'
      BY <2>3 DEF Backed
    <2> QED
      BY <2>1, <2>2, <2>3
  <1>8. ASSUME NEW s \in Servers, ListenChannel(s) \/ CheckChannel(s) \/ LookupChannel(s)
        PROVE  P
    BY <1>0, <1>8, Kinds, ListenChannelEffect, CheckChannelEffect, LookupChannelEffect,
       FreeMoves DEF Kept
  <1>9. ASSUME NEW c \in Mine, Create(c) PROVE P
    BY <1>0, <1>9, Kinds, CreateEffect, FreeMoves DEF Kept
  <1>10. ASSUME Restart PROVE P
    <2>1. \A u \in Tasks : task'[u].pc \in {"start", "off", "done"}
      BY <1>0, <1>10, Kinds, RestartEffect
    <2> QED
      BY <2>1 DEF Backed
  <1>11. ASSUME UNCHANGED task PROVE P
    BY <1>0, <1>11, PublishedKept DEF PublishedInv, Backed
  <1>12. ASSUME \/ DeleteRecord \/ Unlist \/ InitLocalClient \/ UNCHANGED vars
                \/ \E c \in Channels : MarkDeleted(c) \/ \E s \in Servers : OthersInit(s, c)
                \/ \E u \in Clients : Block(u) \/ \E s \in Servers : Register(s, u)
         PROVE  UNCHANGED task
    BY <1>12 DEF DeleteRecord, Unlist, MarkDeleted, OthersInit, Block, Register,
       InitLocalClient, vars
  <1>13. P
    BY <1>2, <1>3, <1>4, <1>5, <1>6, <1>7, <1>8, <1>9, <1>10, <1>11, <1>12, Steps
  <1> QED
    BY <1>1, <1>13 DEF PublishedInv

-----------------------------------------------------------------------------
(* The start. *)

\* Steps of other tasks and of the window, that show nothing of what remains.
LEMMA BootKept ==
    ASSUME Inv, [Next]_vars, ~ Restart, task'[Main] = task[Main],
           listed' \cap Remaining(1) \subseteq listed
    PROVE  BootInv'
  <1> DEFINE m == task[Main]
  <1>1. /\ BootInv /\ DeletedInv /\ SpareInv /\ UnbornInv /\ TypeOK /\ PlacesInv
        /\ m.next \in Nat /\ m.size \in Nat /\ Len(index) \in Nat /\ m.size <= Len(index)
    BY StartTypes DEF Inv
  <1>2. /\ Len(index') \in Nat /\ Len(index) <= Len(index')
        /\ \A i \in 1..Len(index) : index'[i] = index[i] /\ index[i] \in Indexed
        /\ \A i \in 1..Len(index') : i \notin 1..Len(index) => index'[i] \in At("set")
    BY IndexGrows
  <1>3. \A i \in 1..m.size : i \in 1..Len(index) /\ index'[i] = index[i]
    BY <1>1, <1>2
  <1>4. /\ \A n \in Nat : n >= 1 => Remaining(n)' = Remaining(n) /\ Remaining(n) \subseteq Remaining(1)
        /\ Remaining(1) \subseteq Indexed
    BY <1>1, <1>2, <1>3 DEF Remaining
  <1>5. /\ UNCHANGED boot /\ refused \subseteq refused' /\ saved.deleted \subseteq saved'.deleted
        /\ local'.deleted \subseteq local.deleted \cup listed
        /\ listed \cup local.deleted \subseteq listed' \cup local'.deleted
    BY <1>1, RestChange, DeletedStep, WindowChange
    DEF WindowMoves, Shown, Marked, DeletionGoesOn, BlockedMoves, window, boot, DeletedInv
  <1>6. m.size <= Len(index') /\ m.next <= m.size
    BY <1>1, <1>2 DEF BootInv
  <1>7. m.pc \in {"load", "add", "init"} =>
           m.next < m.size /\ m.chan = index'[m.next + 1] /\ m.chan = index[m.next + 1]
    BY <1>1, <1>3 DEF BootInv
  <1>8. m.pc = "load" => m.chan \notin local'.deleted \/ Twice(m.chan)
    <2> SUFFICES ASSUME m.pc = "load", ~ Twice(m.chan) PROVE m.chan \notin local'.deleted
      OBVIOUS
    <2>1. m.chan \notin local.deleted /\ Ahead1(m.next + 1) \cap listed = {}
      BY <1>1 DEF BootInv
    <2>2. m.next + 1 \in (m.next + 1)..m.size
      BY <1>1, <1>7
    <2>3. m.chan \in Ahead1(m.next + 1)
      BY <1>7, <2>2 DEF Remaining, Ahead1
    <2> QED
      BY <1>5, <2>1, <2>3
  <1>9. m.pc = "init" => m.chan \in listed' \cup local'.deleted
    BY <1>1, <1>5 DEF BootInv
  <1>10. \A i, j \in 1..m.size :
            i # j /\ index'[i] = index'[j] => index'[i] \in bootDeleted' \/ Twice(index'[i])
    BY <1>1, <1>3, <1>5 DEF BootInv, boot
  <1>11. /\ m.pc \in {"start", "load", "add"} => Ahead1(m.next + 1)' \cap listed' = {}
         /\ m.pc = "init" => Ahead1(m.next + 2)' \cap listed' = {}
    BY <1>1, <1>4 DEF BootInv, Ahead1
  <1>15. m.pc \in {"add", "init"} => m.chan \in records' \cup saved'.deleted
    <2>1. ASSUME m.pc # "start" PROVE records \subseteq records' \cup saved'.deleted
      <3>1. ASSUME NEW c \in At("set"), Stored(c) PROVE records \subseteq records'
        BY <1>1, <3>1, StoredAt, StoredEffect
      <3> QED
        BY <1>5, <2>1, <3>1, FileChange DEF FileMoves, Removed
    <2> QED
      BY <1>1, <1>5, <2>1 DEF BootInv
  <1>12. \A c \in Mine : task'[c].pc \in {"init", "set", "add"} => c \notin Remaining(1)'
    <2> SUFFICES ASSUME NEW c \in Mine, task'[c].pc \in {"init", "set", "add"}
                 PROVE  c \notin Remaining(1)
      BY <1>4
    <2>1. task[c].pc \in {"init", "set", "add", "off"}
      BY <1>1, Kinds, TasksChange DEF TaskMoves, Bringing, PlacesInv
    <2> QED
      BY <1>1, <1>4, <2>1 DEF BootInv, UnbornInv
  <1>13. ASSUME NEW i \in 1..Len(index'), m.pc # "dead", i \notin (m.next + 1)..m.size
         PROVE  index'[i] \notin bootDeleted \cap records'
    <2>1. At("set") \cap bootDeleted = {}
      BY <1>1 DEF At, SpareInv, Bringing
    <2>2. CASE i \in 1..Len(index)
      BY <1>1, <1>2, <1>13, <2>1, <2>2, IndexedChange DEF BootInv
    <2> QED
      BY <1>2, <2>1, <2>2
  <1>14. StartGivesUpOnFault'
    <2>1. faults <= faults' /\ faults \in Nat /\ faults' \in Nat /\ bootFaults \in Nat
      BY <1>1, FaultsChange, FaultEffect, MaxFaultsAssumption DEF TypeOK
    <2>2. task'[Main].chan = m.chan /\ task'[Main].pc = m.pc
      OBVIOUS
    <2> HIDE DEF m
    <2> QED
      BY <1>1, <1>5, <2>1, <2>2 DEF BootInv, StartGivesUpOnFault, boot, m
  <1> HIDE DEF m
  <1> QED
    BY <1>5, <1>6, <1>7, <1>8, <1>9, <1>10, <1>11, <1>12, <1>13, <1>14, <1>15
    DEF BootInv, m, boot

\* Steps of the start itself, which leave the index and the other tasks alone.
LEMMA BootMoves ==
    ASSUME Inv, [Next]_vars, NEW p, Moved(Main, p), ~ Up, p \in Booted,
           UNCHANGED <<index, window, boot>>, records' \subseteq records,
           task'[Main].next \in {task[Main].next, task[Main].next + 1},
           task'[Main].next <= task[Main].size,
           p \in {"load", "add", "init"} =>
               /\ task'[Main].next < task[Main].size
               /\ task'[Main].chan = index[task'[Main].next + 1],
           p = "load" => task'[Main].chan \notin local.deleted \/ Twice(task'[Main].chan),
           p = "init" => task'[Main].chan \in listed' \cup local.deleted,
           p \in {"add", "init"} => task'[Main].chan \in records' \cup saved.deleted,
           p \in {"start", "load", "add"} => Ahead1(task'[Main].next + 1) \cap listed' = {},
           p = "init" => Ahead1(task'[Main].next + 2) \cap listed' = {},
           p # "dead" => /\ task[Main].pc # "dead"
                         /\ task'[Main].next = task[Main].next + 1 =>
                               index[task[Main].next + 1] \notin bootDeleted \cap records',
           p = "dead" => \/ faults' > bootFaults
                         \/ task'[Main].chan \in refused' \/ Twice(task'[Main].chan)
    PROVE  BootInv'
  <1> DEFINE m == task[Main]
             l == task'[Main]
             R(n) == { index'[i] : i \in n..l.size }
  <1>1. /\ BootInv /\ m.next \in Nat /\ m.size \in Nat /\ Len(index) \in Nat
        /\ m.size <= Len(index)
    BY StartTypes DEF Inv
  <1>2. l.pc = p /\ l.size = m.size /\ \A c \in Mine : task'[c] = task[c]
    BY Kinds DEF Moved
  <1>3. \A n : R(n) = Remaining(n)
    BY <1>2 DEF Remaining
  <1>4. l.size <= Len(index') /\ l.next <= l.size
    BY <1>1, <1>2
  <1>5. l.pc \in {"load", "add", "init"} => l.next < l.size /\ l.chan = index'[l.next + 1]
    BY <1>2
  <1>6. /\ l.pc = "load" => l.chan \notin local'.deleted \/ Twice(l.chan)
        /\ l.pc = "init" => l.chan \in listed' \cup local'.deleted
        /\ l.pc \in {"add", "init"} => l.chan \in records' \cup saved'.deleted
    BY <1>2 DEF window
  <1>7. \A i, j \in 1..l.size :
            i # j /\ index'[i] = index'[j] => index'[i] \in bootDeleted' \/ Twice(index'[i])
    BY <1>1, <1>2 DEF BootInv, boot
  <1>8. /\ l.pc \in {"start", "load", "add"} =>
              { c \in R(l.next + 1) : ~ Twice(c) } \cap listed' = {}
        /\ l.pc = "init" => { c \in R(l.next + 2) : ~ Twice(c) } \cap listed' = {}
    BY <1>2, <1>3 DEF Ahead1
  <1>9. \A c \in Mine : task'[c].pc \in {"init", "set", "add"} => c \notin R(1)
    BY <1>1, <1>2, <1>3 DEF BootInv
  <1>10. ASSUME NEW i \in 1..Len(index'), l.pc # "dead", i \notin (l.next + 1)..l.size
         PROVE  index'[i] \notin bootDeleted' \cap records'
    <2>1. i \in 1..Len(index) /\ index'[i] = index[i] /\ bootDeleted' = bootDeleted
      BY <1>10 DEF boot
    <2>2. CASE i \in (m.next + 1)..m.size
      <3>1. l.next = m.next + 1 /\ i = m.next + 1
        BY <1>1, <1>2, <1>10, <2>2
      <3> QED
        BY <1>2, <1>10, <2>1, <3>1
    <2>3. CASE i \notin (m.next + 1)..m.size
      BY <1>1, <1>2, <1>10, <2>1, <2>3 DEF BootInv
    <2> QED
      BY <2>2, <2>3
  <1>11. StartGivesUpOnFault'
    BY <1>2 DEF StartGivesUpOnFault, Twice, boot
  <1> HIDE DEF l, m, R
  <1> QED
    BY <1>4, <1>5, <1>6, <1>7, <1>8, <1>9, <1>10, <1>11
    DEF BootInv, Ahead1, Remaining, l, R, boot

\* The failure of the start.
LEMMA BootFails ==
    ASSUME Inv, [Next]_vars, Kept(Main, "dead"), task[Main].pc \in Booted,
           Fault \/ task[Main].chan \in refused' \/ Twice(task[Main].chan),
           UNCHANGED <<index, records, window, boot>>
    PROVE  BootInv'
  <1>1. /\ ~ Up /\ Moved(Main, "dead") /\ task'[Main].next = task[Main].next
        /\ task'[Main].chan = task[Main].chan
    BY DEF Up, Booted, Kept
  <1>2. Fault => faults' > bootFaults
    BY FaultEffect, MaxFaultsAssumption DEF Fault, Inv, TypeOK
  <1>3. task[Main].next <= task[Main].size
    BY DEF Inv, BootInv
  <1> QED
    BY <1>1, <1>2, <1>3, BootMoves DEF Booted

LEMMA BootStartNext ==
    ASSUME Inv, [Next]_vars, StartNext PROVE BootInv'
  <1> DEFINE m == task[Main]
             c == index[m.next + 1]
  <1>1. TypeOK /\ BootInv /\ DeletedInv /\ m.next \in Nat /\ m.size \in Nat
    BY StartTypes DEF Inv
  <1>2. /\ m.pc = "start" /\ m.next < m.size /\ ~ Up
        /\ UNCHANGED <<index, window, boot, listed>>
    BY <1>1, StartNextEffect DEF Up
  <1>3. Ahead1(m.next + 1) \cap listed = {}
    BY <1>1, <1>2 DEF BootInv
  <1>4. CASE c \notin local.deleted /\ Moved(Main, "load") /\ task'[Main].chan = c
             /\ task'[Main].next = m.next /\ UNCHANGED <<records, faults>>
    BY <1>1, <1>2, <1>3, <1>4, BootMoves DEF Booted
  <1>5. CASE c \in local.deleted /\ records' = records \ {c} /\ Ended(Main, m.next + 1)
             /\ UNCHANGED faults
    <2>1. Moved(Main, "start") /\ task'[Main].next = m.next + 1
      BY <1>5 DEF Ended, Rest
    <2>2. Ahead1(m.next + 1 + 1) \subseteq Ahead1(m.next + 1)
      BY <1>1 DEF Remaining, Ahead1
    <2> QED
      BY <1>1, <1>2, <1>3, <1>5, <2>1, <2>2, BootMoves DEF Booted
  <1>6. CASE Fault /\ Kept(Main, "dead") /\ UNCHANGED records
    BY <1>2, <1>6, BootFails DEF Booted
  <1> QED
    BY <1>1, <1>4, <1>5, <1>6, StartNextEffect

\* The index names the channel, and it was not deleted, so it has a record; unless
\* the index names it again, and it was deleted after its first entry.
LEMMA BootStartLoad ==
    ASSUME Inv, [Next]_vars, StartLoad PROVE BootInv'
  <1> DEFINE m == task[Main]
  <1>1. /\ TypeOK /\ BootInv /\ DeletedInv /\ IndexInv
        /\ m.next \in Nat /\ m.size \in Nat /\ Len(index) \in Nat /\ m.size <= Len(index)
    BY StartTypes DEF Inv
  <1>2. /\ m.pc = "load" /\ ~ Up /\ UNCHANGED <<index, records, window, boot, listed>>
        /\ Kept(Main, IF m.chan \in records THEN "add" ELSE "dead")
    BY <1>1, StartLoadEffect DEF Up, file
  <1>3. /\ m.next < m.size /\ m.chan = index[m.next + 1]
        /\ m.chan \notin local.deleted \/ Twice(m.chan)
    BY <1>1, <1>2 DEF BootInv
  <1>4. m.next + 1 \in 1..Len(index)
    BY <1>1, <1>3
  <1>5. m.chan \in Indexed
    BY <1>3, <1>4, IndexGrows
  <1>6. m.chan \in records \/ Twice(m.chan)
    BY <1>1, <1>3, <1>5 DEF IndexInv, DeletedInv, Gone
  <1>7. CASE m.chan \in records
    <2>1. Moved(Main, "add") /\ task'[Main].chan = m.chan /\ task'[Main].next = m.next
      BY <1>2, <1>7 DEF Kept
    <2>2. Ahead1(m.next + 1) \cap listed' = {}
      BY <1>1, <1>2 DEF BootInv
    <2> QED
      BY <1>1, <1>2, <1>3, <1>7, <2>1, <2>2, BootMoves DEF Booted
  <1>8. CASE m.chan \notin records
    BY <1>2, <1>6, <1>8, BootFails DEF Booted
  <1> QED
    BY <1>7, <1>8

\* What comes later in the index is not what was just shown: it would be named
\* twice, and so have been deleted, or name the client twice.
LEMMA BootAdd ==
    ASSUME Inv, [Next]_vars, AddIntoList(Main) PROVE BootInv'
  <1> DEFINE m == task[Main]
  <1>1. /\ TypeOK /\ BootInv /\ SpareInv /\ Main \in Tasks
        /\ m.next \in Nat /\ m.size \in Nat
    BY StartTypes, Kinds DEF Inv
  <1>2. /\ m.pc = "add" /\ ~ Up /\ UNCHANGED <<index, records, window, boot>>
    BY <1>1, AddIntoListEffect DEF Up
  <1>3. /\ m.next < m.size /\ m.chan = index[m.next + 1] /\ Ahead1(m.next + 1) \cap listed = {}
        /\ m.chan \in records \cup saved.deleted
    BY <1>1, <1>2 DEF BootInv
  <1>4. CASE listed' = listed \cup {m.chan} /\ Kept(Main, "init")
    <2>1. m.chan \notin Ahead1(m.next + 2)
      <3> SUFFICES ASSUME NEW i \in (m.next + 2)..m.size, index[i] = m.chan, ~ Twice(m.chan)
                   PROVE  FALSE
        BY DEF Remaining, Ahead1
      <3>1. i \in 1..m.size /\ m.next + 1 \in 1..m.size /\ i # m.next + 1
        BY <1>1, <1>3
      <3>2. m.chan \in bootDeleted
        BY <1>1, <1>3, <3>1 DEF BootInv
      <3> QED
        BY <1>1, <1>2, <3>2 DEF SpareInv, Bringing
    <2>2. Ahead1(m.next + 2) \subseteq Ahead1(m.next + 1)
      BY <1>1 DEF Remaining, Ahead1
    <2>3. Ahead1(m.next + 2) \cap listed' = {}
      BY <1>3, <1>4, <2>1, <2>2
    <2>4. Moved(Main, "init") /\ task'[Main].next = m.next /\ task'[Main].chan = m.chan
      BY <1>4 DEF Kept
    <2> QED
      BY <1>1, <1>2, <1>3, <1>4, <2>3, <2>4, BootMoves DEF Booted
  <1>5. CASE (Fault \/ m.chan \in refused') /\ GaveUp(Main)
    BY <1>2, <1>5, BootFails DEF Booted, GaveUp
  <1> QED
    BY <1>1, <1>4, <1>5, AddIntoListEffect

LEMMA BootPublished ==
    ASSUME Inv, [Next]_vars, Published(Main) PROVE BootInv'
  <1> DEFINE m == task[Main]
  <1>1. /\ TypeOK /\ BootInv /\ SpareInv /\ Main \in Tasks
        /\ m.next \in Nat /\ m.size \in Nat
    BY StartTypes, Kinds DEF Inv
  <1>2. /\ m.pc = "init" /\ ~ Up /\ UNCHANGED <<index, records, window, boot, listed>>
        /\ Ended(Main, m.next + 1)
    BY <1>1, PublishedEffect DEF Up, file
  <1>3. /\ m.next < m.size /\ m.chan = index[m.next + 1] /\ m.chan \notin bootDeleted
        /\ Ahead1(m.next + 2) \cap listed = {}
    BY <1>1, <1>2 DEF BootInv, SpareInv, Bringing
  <1>4. Moved(Main, "start") /\ task'[Main].next = m.next + 1 /\ m.next + 1 + 1 = m.next + 2
    BY <1>1, <1>2 DEF Ended, Rest
  <1> QED
    BY <1>1, <1>2, <1>3, <1>4, BootMoves DEF Booted

LEMMA BootPublishTo ==
    ASSUME Inv, [Next]_vars, NEW s \in Servers, PublishTo(Main, s) PROVE BootInv'
  <1> DEFINE m == task[Main]
  <1>1. /\ TypeOK /\ ServersInv /\ BootInv /\ Main \in Tasks
        /\ m.next \in Nat /\ m.size \in Nat
    BY StartTypes, Kinds DEF Inv
  <1>2. /\ m.pc = "init" /\ ~ Up /\ UNCHANGED <<index, records, window, boot, listed>>
        /\ Moved(Main, "init") /\ task'[Main].chan = m.chan /\ task'[Main].next = m.next
    BY <1>1, PublishToEffect DEF Up, file
  <1>3. /\ m.next < m.size /\ m.chan = index[m.next + 1] /\ m.chan \in listed \cup local.deleted
        /\ m.chan \in records \cup saved.deleted /\ Ahead1(m.next + 2) \cap listed = {}
    BY <1>1, <1>2 DEF BootInv
  <1> QED
    BY <1>1, <1>2, <1>3, BootMoves DEF Booted

LEMMA BootListeners ==
    ASSUME Inv, [Next]_vars, StartListeners PROVE BootInv'
  <1> DEFINE m == task[Main]
             l == task'[Main]
  <1>1. TypeOK /\ BootInv /\ m.next \in Nat /\ m.size \in Nat /\ Len(index) \in Nat
    BY StartTypes DEF Inv
  <1>2. /\ m.pc = "start" /\ m.next = m.size /\ UNCHANGED <<index, records, boot>>
        /\ l.pc = "up" /\ l.next = 0 /\ l.size = 0
    BY <1>1, StartListenersEffect DEF Off, file
  <1>3. \A i : i \notin (m.next + 1)..m.size /\ i \notin (l.next + 1)..l.size /\ i \notin 1..l.size
    BY <1>1, <1>2
  <1>4. \A i \in 1..Len(index') : index'[i] \notin bootDeleted' \cap records'
    BY <1>1, <1>2, <1>3 DEF BootInv, boot
  <1>5. { index'[i] : i \in 1..l.size } = {}
    BY <1>3
  <1> HIDE DEF l
  <1> QED
    BY <1>1, <1>2, <1>3, <1>4, <1>5 DEF BootInv, Ahead1, Remaining, StartGivesUpOnFault, l

LEMMA BootRestart ==
    ASSUME Inv, [Next]_vars, Restart PROVE BootInv'
  <1> DEFINE l == task'[Main]
  <1>1. /\ TypeOK /\ IndexedOnce' /\ index' \in Seq(Channels)
        /\ Len(index') \in Nat /\ DOMAIN index' = 1..Len(index')
    BY IndexedOnceStep, RestartStores, LenProperties DEF Inv
  <1>2. /\ l.pc = "start" /\ l.next = 0 /\ l.size = Len(index')
        /\ \A c \in Mine : task'[c].pc \in {"off", "done"}
    BY <1>1, RestartEffect
  <1>3. listed' = {} /\ bootDeleted' = saved.deleted /\ UNCHANGED saved
    BY DEF Restart
  <1>4. ASSUME NEW i \in 1..l.size, NEW j \in 1..l.size, i # j, index'[i] = index'[j],
               ~ Twice(index'[i])
        PROVE  index'[i] \in bootDeleted'
    <2> DEFINE c == index'[i]
               Places == { k \in DOMAIN index' : index'[k] = c }
    <2>1. c \in Channels /\ i \in Places /\ j \in Places /\ Places \subseteq 1..Len(index')
      BY <1>1, <1>2, <1>4, ElementOfSeq
    <2> HIDE DEF Places, l
    <2>2. IsFiniteSet(Places) /\ Cardinality(Places) \in Nat
      <3>1. IsFiniteSet(1..Len(index'))
        BY <1>1, FS_Interval
      <3> QED
        BY <2>1, <3>1, FS_Subset, FS_CardinalityType
    <2>3. Cardinality({i} \cup {j}) = 2 /\ {i} \cup {j} \subseteq Places
      <3>1. IsFiniteSet({i}) /\ Cardinality({i}) = 1 /\ j \notin {i}
        BY <1>4, FS_Singleton
      <3>2. Cardinality({i} \cup {j}) = Cardinality({i}) + 1
        BY <3>1, FS_AddElement
      <3> QED
        BY <2>1, <3>1, <3>2
    <2>4. 2 <= Cardinality(Places)
      BY <2>2, <2>3, FS_Subset
    <2>5. Named(c, Len(EncList[c])) \in Nat /\ ~ (Named(c, Len(EncList[c])) > 1)
      <3>1. Len(EncList[c]) \in 0..Len(EncList[c])
        BY <2>1, NamedTypes
      <3> QED
        BY <1>4, <2>1, <3>1, NamedTypes DEF Twice
    <2>6. Cardinality(Places) > Named(c, Len(EncList[c]))
      BY <2>2, <2>4, <2>5
    <2> QED
      BY <1>1, <1>3, <2>1, <2>6 DEF IndexedOnce, Places
  <1>5. \A i \in 1..Len(index') : i \in (l.next + 1)..l.size
    BY <1>1, <1>2
  <1> HIDE DEF l
  <1> QED
    BY <1>1, <1>2, <1>3, <1>4, <1>5 DEF BootInv, StartGivesUpOnFault, l

LEMMA BootStep ==
    ASSUME Inv, [Next]_vars PROVE BootInv'
  <1> SUFFICES ASSUME ~ Restart PROVE BootInv'
    BY BootRestart
  <1>0. TypeOK /\ PlacesInv /\ ServersInv /\ BootInv
    BY DEF Inv
  <1>1. ASSUME NEW t \in Tasks \ {Main}, \/ \E s \in Servers : PublishTo(t, s)
                                         \/ Published(t) \/ SetChannel(t) \/ AddIntoList(t)
        PROVE  BootInv'
    <2>1. task'[Main] = task[Main]
      BY <1>0, <1>1, Kinds, PublishToEffect, PublishedEffect, SetChannelEffect,
         AddIntoListEffect DEF Kept, Ended, GaveUp, Moved
    <2>2. listed' \cap Remaining(1) \subseteq listed
      <3>1. listed' = listed \/ AddIntoList(t)
        BY <1>1 DEF PublishTo, Published, SetChannel
      <3>2. CASE AddIntoList(t)
        <4>1. task[t].pc = "add" /\ listed' \subseteq listed \cup {task[t].chan}
          BY <1>0, <3>2, AddIntoListEffect
        <4>2. CASE t \in Mine
          BY <1>0, <4>1, <4>2 DEF BootInv, PlacesInv
        <4>3. CASE t \in Servers
          <5>1. task[Main].size = 0
            BY <1>0, <4>1, <4>3 DEF PlacesInv
          <5> QED
            BY <5>1 DEF Remaining
        <4> QED
          BY <4>2, <4>3, Kinds
      <3> QED
        BY <3>1, <3>2
    <2> QED
      BY <2>1, <2>2, BootKept
  <1>2. ASSUME task'[Main] = task[Main], listed' \subseteq listed PROVE BootInv'
    BY <1>2, BootKept
  <1>3. ASSUME NEW s \in Servers, ListenChannel(s) \/ CheckChannel(s) \/ LookupChannel(s)
        PROVE  BootInv'
    <2>1. task'[Main] = task[Main]
      BY <1>0, <1>3, Kinds, ListenChannelEffect, CheckChannelEffect, LookupChannelEffect
      DEF Kept, Ended, Moved
    <2>2. UNCHANGED listed
      BY <1>3 DEF ListenChannel, CheckChannel, LookupChannel
    <2> QED
      BY <1>2, <2>1, <2>2
  <1>4. ASSUME NEW c \in Mine, Create(c) PROVE BootInv'
    <2>1. task'[Main] = task[Main] /\ UNCHANGED listed
      BY <1>0, <1>4, Kinds, CreateEffect DEF Kept, Moved
    <2> QED
      BY <1>2, <2>1
  <1>5. ASSUME \/ DeleteRecord \/ Unlist \/ InitLocalClient \/ UNCHANGED vars
               \/ \E c \in Channels : MarkDeleted(c) \/ \E s \in Servers : OthersInit(s, c)
               \/ \E u \in Clients : Block(u) \/ \E s \in Servers : Register(s, u)
        PROVE  BootInv'
    <2>1. UNCHANGED task /\ listed' \subseteq listed
      BY <1>5 DEF DeleteRecord, Unlist, MarkDeleted, OthersInit, Block, Register,
       InitLocalClient, vars
    <2> QED
      BY <1>2, <2>1
  <1>6. ~ SetChannel(Main)
    BY <1>0 DEF SetChannel, PlacesInv, Booted
  <1> QED
    BY <1>1, <1>3, <1>4, <1>5, <1>6, BootPublishTo, BootPublished, BootAdd, BootStartNext,
       BootStartLoad, BootListeners, Steps

-----------------------------------------------------------------------------
(* The invariants of the specification. *)

LEMMA InitialState ==
    ASSUME Init PROVE Inv
  <1> DEFINE b == Booting(<<>>)
  <1>1. /\ b \in TaskType /\ b.pc = "start" /\ b.chan = None /\ ~ b.ok /\ b.next = 0 /\ b.size = 0
        /\ Off \in TaskType /\ Off.pc = "off" /\ Off.chan = None /\ ~ Off.ok
    BY DEF Booting, Off, TaskType, TaskPlaces
  <1>2. /\ task \in [Tasks -> TaskType] /\ task[Main] = b
        /\ \A s \in Servers : task[s] = Off
        /\ \A c \in Mine : task[c] = Off
    <2>1. task = [t \in Tasks |-> IF t = Main THEN b ELSE Off]
      BY DEF Init
    <2> HIDE DEF b
    <2> QED
      BY <1>1, <2>1, Kinds
  <1> HIDE DEF b
  <1>3. /\ \A t \in Tasks : task[t].pc \in {"start", "off"} /\ task[t].chan = None
        /\ task[Main].pc = "start" /\ task[Main].next = 0 /\ task[Main].size = 0
        /\ \A t \in Servers \cup Mine : task[t].pc = "off"
    BY <1>1, <1>2, Kinds
  <1>4. /\ registered \in [Servers -> SUBSET Clients] /\ onServer = [s \in Servers |-> {}]
        /\ srvList = [s \in Servers |-> <<>>] /\ records = {} /\ index = <<>> /\ listed = {}
        /\ saved.deleted = {} /\ local.deleted = {} /\ bootDeleted = {}
        /\ deleting = [pc |-> "no", chan |-> None] /\ bootFaults = 0 /\ faults = 0
        /\ saved \in LocalType /\ local \in LocalType /\ profiles \subseteq Clients
        /\ refused = {}
    BY MeAssumption, RegistrationAssumption DEF Init, LocalType
  <1>5. Indexed = {} /\ ServersInv
    BY <1>4 DEF Indexed, ServersInv
  <1>6. index \in Seq(Channels) /\ Len(index) = 0 /\ DOMAIN index = {}
    BY <1>4
  <1>7. TypeOK
    BY <1>2, <1>3, <1>4, <1>6, MaxFaultsAssumption DEF TypeOK, TaskType
  <1>8. PlacesInv
    BY <1>3, Kinds DEF PlacesInv, Booted, Up
  <1>9. UnbornInv
    BY <1>3, <1>4, <1>5, Kinds DEF UnbornInv
  <1>10. DeletedInv /\ PublishedInv /\ SpareInv
    BY <1>3, <1>4
    DEF DeletedInv, PublishedInv, Backed, StoredIsPublished, SpareInv, Bringing
  <1>11. IndexInv
    <2>1. \A c \in Channels : { i \in DOMAIN index : index[i] = c } = {}
      BY <1>6
    <2>2. \A c \in Channels : ~ (0 > Named(c, Len(EncList[c])))
      BY NamedTypes
    <2> QED
      BY <1>4, <1>5, <2>1, <2>2, FS_EmptySet DEF IndexInv, IndexedOnce, Gone
  <1>12. BootInv
    BY <1>3, <1>4, <1>6, Kinds DEF BootInv, StartGivesUpOnFault, Ahead1, Remaining
  <1> QED
    BY <1>5, <1>7, <1>8, <1>9, <1>10, <1>11, <1>12 DEF Inv

LEMMA InvStep ==
    ASSUME Inv, [Next]_vars PROVE Inv'
  BY TypeStep, PlacesStep, ServersChange, UnbornStep, DeletedStep, PublishedStep, SpareStep,
     IndexStep, BootStep DEF Inv, ServersMove

LEMMA Invariance == Spec => []Inv
  BY InitialState, InvStep, PTL DEF Spec

\* The goroutines of the client, its database, its window and the lists of its
\* servers keep their types, whatever the order of the steps and the faults.
THEOREM TypeCorrect == Spec => []TypeOK
  BY Invariance, PTL DEF Inv

\* A channel with a record exists on a server, if the client has any: SetChannel
\* comes after a request of initRemoteChannel has been carried out.
THEOREM StoredIsPublishedAlways == Spec => []StoredIsPublished
  <1>1. Inv => StoredIsPublished
    BY DEF Inv, PublishedInv
  <1> QED
    BY <1>1, Invariance, PTL

\* What was deleted when the application started does not come back into its
\* window, nor, where the index names it, into the database.
THEOREM DeletionSurvivesRestartAlways == Spec => []DeletionSurvivesRestart
  <1>1. ASSUME Inv PROVE DeletionSurvivesRestart
    <2>1. bootDeleted \cap listed = {}
      BY <1>1 DEF Inv, SpareInv
    <2>2. ASSUME Up PROVE bootDeleted \cap records \cap Indexed = {}
      <3>1. task[Main].pc # "dead" /\ task[Main].size = 0 /\ task[Main].next = 0
        BY <1>1, <2>2 DEF Up, Inv, PlacesInv
      <3>2. \A i \in 1..Len(index) : index[i] \notin bootDeleted \cap records
        BY <1>1, <3>1 DEF Inv, BootInv
      <3>3. DOMAIN index = 1..Len(index)
        BY <1>1, LenProperties DEF Inv, TypeOK
      <3> QED
        BY <3>2, <3>3 DEF Indexed
    <2> QED
      BY <2>1, <2>2 DEF DeletionSurvivesRestart
  <1> QED
    BY <1>1, Invariance, PTL

\* The start of the application gives up only on a fault of its own, on a channel
\* that cannot be shown, or on one that names the client twice: apart from that the
\* index it goes through names only channels that are stored or were deleted.
THEOREM StartGivesUpOnFaultAlways == Spec => []StartGivesUpOnFault
  <1>1. Inv => StartGivesUpOnFault
    BY DEF Inv, BootInv
  <1> QED
    BY <1>1, Invariance, PTL

\* SetChannel appends to the index of the client what it has no record of, so the
\* index names a channel more often than the channel names the client only after
\* its deletion.
THEOREM IndexedOnceAlways == Spec => []IndexedOnce
  <1>1. Inv => IndexedOnce
    BY DEF Inv, IndexInv
  <1> QED
    BY <1>1, Invariance, PTL

-----------------------------------------------------------------------------
(* A fault hides one channel. *)

\* When a task moves, only the channel that it leaves may lose its cover.
LEMMA CoverMoves ==
    ASSUME Inv, [Next]_vars, NEW t \in Tasks, NEW p, Moved(t, p),
           UNCHANGED local, listed \subseteq listed', refused \subseteq refused',
           t = Main => task'[Main].next \in {task[Main].next, task[Main].next + 1}
    PROVE  /\ task[t].pc = "add" => Covered \subseteq Covered' \cup {task[t].chan}
                                       \/ task'[Main].next # task[Main].next
           /\ task[t].pc # "add" =>
                 IF task'[Main].next = task[Main].next THEN Covered \subseteq Covered'
                 ELSE Covered \subseteq Covered' \cup {index[task[Main].next + 1]}
  <1> DEFINE n == task[Main].next + 1
             l == task'[Main]
  <1>1. /\ task[Main].next \in Nat /\ task[Main].size \in Nat /\ Len(index) \in Nat
        /\ task[Main].size <= Len(index) /\ l.size = task[Main].size
        /\ l.next \in {task[Main].next, task[Main].next + 1}
    BY StartTypes, Kinds DEF Moved
  <1>2. \A i \in 1..task[Main].size : index'[i] = index[i]
    BY <1>1, IndexGrows
  <1>3. Remaining(n) \subseteq { index'[i] : i \in (l.next + 1)..l.size }
                                \cup (IF l.next = task[Main].next THEN {} ELSE {index[n]})
    <2> SUFFICES ASSUME NEW i \in n..task[Main].size
                 PROVE  \/ index[i] \in { index'[j] : j \in (l.next + 1)..l.size }
                        \/ l.next # task[Main].next /\ i = n
      BY DEF Remaining
    <2>1. i \in 1..task[Main].size /\ index'[i] = index[i]
      BY <1>1, <1>2
    <2>2. i \in Int /\ task[Main].next + 1 <= i /\ i <= task[Main].size
      BY <1>1
    <2>3. CASE l.next = task[Main].next
      <3>1. i \in (l.next + 1)..l.size
        BY <1>1, <2>2, <2>3
      <3> QED
        BY <2>1, <3>1
    <2>4. CASE l.next = task[Main].next + 1
      <3>1. i = n \/ i \in (l.next + 1)..l.size
        BY <1>1, <2>2, <2>4
      <3>2. l.next # task[Main].next
        BY <1>1, <2>4
      <3> QED
        BY <2>1, <3>1, <3>2
    <2> QED
      BY <1>1, <2>3, <2>4
  <1>4. At("add") \subseteq At("add")' \cup (IF task[t].pc = "add" THEN {task[t].chan} ELSE {})
    BY DEF At, Moved
  <1> HIDE DEF n, l
  <1> QED
    BY <1>1, <1>3, <1>4 DEF Covered, Remaining, n, l

Safe    == Lost' \subseteq Lost
LostOne == Fault /\ \E c : Lost' \subseteq Lost \cup {c}

LEMMA SafeMoves ==
    ASSUME NEW t \in Tasks, NEW p, Moved(t, p), Inv, [Next]_vars,
           task[t].pc # "add", task'[Main].next = task[Main].next,
           UNCHANGED local, UNCHANGED listed, refused \subseteq refused',
           records' \subseteq records, UNCHANGED index
    PROVE  Safe
  <1>1. Covered \subseteq Covered'
    BY CoverMoves
  <1> QED
    BY <1>1 DEF Safe, Lost, Indexed

\* A channel that SetChannel stores completely is in the index.
LEMMA StoredIndexed ==
    ASSUME TypeOK, NEW c \in Channels, c \notin records, Write(c, Len(EncList[c]))
    PROVE  Stored(c) /\ c \in Indexed'
  <1> DEFINE n == Len(EncList[c])
  <1>1. n \in 0..n /\ Named(c, n) \in Nat /\ Named(c, n) > 0
    BY NamedTypes
  <1>2. /\ Len(index) \in Nat /\ Len(index') = Len(index) + Named(c, n)
        /\ DOMAIN index' = 1..Len(index')
        /\ \A i \in 1..Len(index') : i \notin 1..Len(index) => index'[i] = c
    <2>1. index \in Seq(Channels) /\ index' = index \o Entries(c, n)
      BY DEF Write, TypeOK
    <2> HIDE DEF n
    <2>2. n \in 0..Len(EncList[c])
      BY <1>1 DEF n
    <2> QED
      BY <2>1, <2>2, EntriesAdded
  <1>3. Len(index) + 1 \in 1..Len(index') /\ Len(index) + 1 \notin 1..Len(index)
    BY <1>1, <1>2
  <1> QED
    BY <1>1, <1>2, <1>3 DEF Stored, Indexed

LEMMA LostSteps ==
    ASSUME Inv, [Next]_vars PROVE Safe \/ LostOne
  <1> DEFINE m == task[Main]
  <1>0. /\ TypeOK /\ PlacesInv /\ ServersInv /\ DeletedInv /\ BootInv
        /\ m.next \in Nat /\ m.size \in Nat /\ Len(index) \in Nat /\ m.next + 1 # m.next
        /\ Restart \/ refused \subseteq refused'
    BY StartTypes, RestChange DEF Inv
  <1>1. ASSUME NEW t \in Tasks, NEW s \in Servers, PublishTo(t, s) PROVE Safe
    <2>1. /\ task[t].pc # "add" /\ Moved(t, "init") /\ task'[Main].next = m.next
          /\ UNCHANGED <<local, listed, records, index, refused>>
      BY <1>0, <1>1, Kinds, PublishToEffect DEF file, window, Moved
    <2> QED
      BY <2>1, SafeMoves
  <1>2. ASSUME NEW t \in Tasks, Published(t) PROVE Safe
    <2>1. /\ task[t].pc = "init" /\ UNCHANGED <<local, listed, records, index, refused>>
      BY <1>0, <1>2, PublishedEffect DEF file, window
    <2>2. CASE t = Main /\ Ended(Main, m.next + 1)
      <3>1. Moved(Main, "start") /\ task'[Main].next = m.next + 1
        BY <2>2 DEF Ended, Rest
      <3>2. index[m.next + 1] \in listed \cup local.deleted
        BY <1>0, <2>1, <2>2 DEF BootInv
      <3>3. Covered \subseteq Covered' \cup {index[m.next + 1]}
        BY <1>0, <2>1, <2>2, <3>1, CoverMoves
      <3>4. Covered \subseteq Covered'
        BY <2>1, <3>2, <3>3 DEF Covered
      <3> QED
        BY <2>1, <3>4 DEF Safe, Lost, Indexed
    <2>3. CASE t # Main
      <3>1. PICK p : Moved(t, p)
        BY <1>0, <1>2, <2>3, PublishedEffect DEF Ended, Kept
      <3>2. task'[Main].next = m.next
        BY <2>3, <3>1, Kinds DEF Moved
      <3> QED
        BY <2>1, <3>1, <3>2, SafeMoves
    <2> QED
      BY <1>0, <1>2, <2>2, <2>3, PublishedEffect
  <1>3. ASSUME NEW t \in Tasks, SetChannel(t) PROVE Safe \/ LostOne
    <2> DEFINE c == task[t].chan
    <2>1. /\ task[t].pc = "set" /\ t # Main /\ c \in At("set")
          /\ c \in Channels /\ UNCHANGED <<local, listed, refused>>
      BY <1>0, <1>3, SetChannelEffect DEF PlacesInv, Booted, At, window
    <2>2. PICK p : Moved(t, p)
      BY <1>0, <1>3, <2>1, SetChannelEffect DEF Ended, Kept, GaveUp
    <2>3. task'[Main].next = m.next
      BY <2>1, <2>2, Kinds DEF Moved
    <2>4. Covered \subseteq Covered'
      BY <2>1, <2>2, <2>3, CoverMoves
    <2>5. CASE Fault /\ Stored(c)
      <3>1. Lost' \subseteq Lost \cup {c}
        BY <1>0, <2>1, <2>4, <2>5, StoredEffect DEF Lost
      <3> QED
        BY <2>5, <3>1 DEF LostOne
    <2>6. CASE /\ IF c \in records THEN UNCHANGED <<records, index>>
                  ELSE Write(c, Len(EncList[c]))
               /\ Kept(t, "add")
      <3>1. c \in Covered'
        BY <2>6 DEF Covered, At, Kept, Moved
      <3>2. CASE c \in records
        BY <2>4, <2>6, <3>2 DEF Safe, Lost, Indexed
      <3>3. CASE c \notin records
        <4>1. Stored(c) /\ c \in Indexed'
          BY <1>0, <2>1, <2>6, <3>3, StoredIndexed
        <4> QED
          BY <1>0, <2>1, <2>4, <3>1, <4>1, StoredEffect DEF Safe, Lost
      <3> QED
        BY <3>2, <3>3
    <2> QED
      BY <1>0, <1>3, <2>5, <2>6, SetChannelEffect
  <1>4. ASSUME NEW t \in Tasks, AddIntoList(t) PROVE Safe \/ LostOne
    <2> DEFINE c == task[t].chan
    <2>1. /\ task[t].pc = "add" /\ UNCHANGED <<local, records, index>>
          /\ listed \subseteq listed' /\ refused \subseteq refused'
      BY <1>0, <1>4, AddIntoListEffect DEF window
    <2>2. PICK p : Moved(t, p) /\ task'[Main].next = m.next
      BY <1>0, <1>4, Kinds, AddIntoListEffect DEF Ended, Kept, GaveUp, Moved
    <2>3. Covered \subseteq Covered' \cup {c}
      BY <2>1, <2>2, CoverMoves
    <2>4. CASE listed' = listed \cup {c} \/ refused' = refused \cup {c}
      <3>1. Covered \subseteq Covered'
        BY <2>3, <2>4 DEF Covered
      <3> QED
        BY <2>1, <3>1 DEF Safe, Lost, Indexed
    <2>5. CASE Fault
      <3>1. Lost' \subseteq Lost \cup {c}
        BY <2>1, <2>3 DEF Lost, Indexed
      <3> QED
        BY <2>5, <3>1 DEF LostOne
    <2> QED
      BY <1>0, <1>4, <2>4, <2>5, AddIntoListEffect
  <1>5. CASE StartNext
    <2> DEFINE c == index[m.next + 1]
    <2>1. m.pc # "add" /\ UNCHANGED <<local, listed, index, refused>> /\ Main \in Tasks
      BY <1>0, <1>5, StartNextEffect, Kinds DEF window
    <2>2. CASE records' = records \ {c} /\ Ended(Main, m.next + 1)
      <3>1. Moved(Main, "start") /\ task'[Main].next = m.next + 1
        BY <2>2 DEF Ended, Rest
      <3>2. Covered \subseteq Covered' \cup {c}
        BY <1>0, <2>1, <3>1, CoverMoves
      <3> QED
        BY <2>1, <2>2, <3>2 DEF Safe, Lost, Indexed
    <2>3. CASE (Moved(Main, "load") \/ Moved(Main, "dead")) /\ task'[Main].next = m.next
               /\ UNCHANGED records
      BY <2>1, <2>3, SafeMoves
    <2> QED
      BY <1>0, <1>5, <2>2, <2>3, StartNextEffect DEF Kept
  <1>6. CASE StartLoad
    <2>1. /\ m.pc # "add" /\ UNCHANGED <<local, listed, records, index, refused>>
          /\ (Moved(Main, "add") \/ Moved(Main, "dead")) /\ task'[Main].next = m.next
      BY <1>0, <1>6, StartLoadEffect DEF Kept, file, window
    <2> QED
      BY <2>1, Kinds, SafeMoves
  <1>7. CASE StartListeners
    <2>1. /\ UNCHANGED <<local, listed, records, index, refused>> /\ m.next = m.size
          /\ m.pc # "add" /\ \A s \in Servers : task[s].pc # "add"
          /\ \A c \in Mine : task'[c] = task[c]
      BY <1>0, <1>7, StartListenersEffect DEF file, window, PlacesInv, Up
    <2>2. At("add") \subseteq At("add")'
      BY <2>1, Kinds DEF At
    <2>3. Remaining(m.next + 1) = {}
      BY <1>0, <2>1 DEF Remaining
    <2>4. Covered \subseteq Covered'
      BY <2>1, <2>2, <2>3 DEF Covered
    <2> QED
      BY <2>1, <2>4 DEF Safe, Lost, Indexed
  <1>8. ASSUME NEW s \in Servers, ListenChannel(s) \/ CheckChannel(s) \/ LookupChannel(s)
        PROVE  Safe
    <2>1. task[s].pc # "add" /\ UNCHANGED <<local, listed, records, index, refused>> /\ s # Main
      BY <1>8, Kinds
      DEF ListenChannel, CheckChannel, LookupChannel, file, window
    <2>2. PICK p : Moved(s, p)
      BY <1>0, <1>8, ListenChannelEffect, CheckChannelEffect, LookupChannelEffect
      DEF Ended, Kept
    <2>3. task'[Main].next = m.next
      BY <2>1, <2>2, Kinds DEF Moved
    <2> QED
      BY <2>1, <2>2, <2>3, Kinds, SafeMoves
  <1>9. ASSUME NEW c \in Mine, Create(c) PROVE Safe
    <2>1. task[c].pc # "add" /\ UNCHANGED <<local, listed, records, index, refused>> /\ c # Main
      BY <1>0, <1>9, Kinds, CreateEffect DEF window
    <2>2. PICK p : Moved(c, p)
      BY <1>0, <1>9, CreateEffect DEF Kept
    <2>3. task'[Main].next = m.next
      BY <2>1, <2>2, Kinds DEF Moved
    <2> QED
      BY <2>1, <2>2, <2>3, Kinds, SafeMoves
  <1>10. CASE ~ Restart /\ UNCHANGED task /\ UNCHANGED index /\ records' \subseteq records
              /\ listed \cup local.deleted \subseteq listed' \cup local'.deleted
    <2>1. Covered \subseteq Covered'
      BY <1>0, <1>10 DEF Covered, Remaining, At
    <2> QED
      BY <1>10, <2>1 DEF Safe, Lost, Indexed
  <1>11. ASSUME ~ Restart,
                \/ DeleteRecord \/ Unlist \/ InitLocalClient \/ UNCHANGED vars
                \/ \E c \in Channels : MarkDeleted(c) \/ \E s \in Servers : OthersInit(s, c)
                \/ \E u \in Clients : Block(u) \/ \E s \in Servers : Register(s, u)
         PROVE  Safe \/ LostOne
    <2>1. UNCHANGED task /\ UNCHANGED index /\ records' \subseteq records
      BY <1>11 DEF DeleteRecord, Unlist, MarkDeleted, OthersInit, Block, Register, InitLocalClient, vars, file
    <2>2. listed \cup local.deleted \subseteq listed' \cup local'.deleted
      <3>1. ~ \E c \in At("add") : Shown(c) /\ listed' # listed \cup {c}
        BY DEF Shown
      <3> QED
        BY <1>0, <1>11, WindowChange
        DEF WindowMoves, Shown, Marked, DeletionGoesOn, BlockedMoves, window, DeletedInv
    <2> QED
      BY <1>10, <1>11, <2>1, <2>2
  <1>12. CASE Restart
    <2>1. /\ task'[Main].next = 0 /\ task'[Main].size = Len(index')
          /\ DOMAIN index' = 1..Len(index') /\ Fault
      BY <1>0, <1>12, RestartEffect, RestartStores, LenProperties DEF Restart
    <2>2. Indexed' \subseteq Covered'
      BY <2>1 DEF Covered, Remaining, Indexed
    <2>3. CASE UNCHANGED <<records, index>>
      BY <2>2, <2>3 DEF Safe, Lost, Indexed
    <2>4. ASSUME NEW c \in At("set"), Stored(c) PROVE LostOne
      <3>1. Indexed \subseteq Indexed' /\ records' \subseteq records \cup {c}
        BY <1>0, <2>4, StoredAt, StoredEffect
      <3> QED
        BY <2>1, <2>2, <3>1 DEF LostOne, Lost
    <2> QED
      BY <1>0, <1>12, <2>3, <2>4, RestartStores
  <1> HIDE DEF m
  <1> QED
    BY <1>1, <1>2, <1>3, <1>4, <1>5, <1>6, <1>7, <1>8, <1>9, <1>11, <1>12, Steps

LEMMA LostStep ==
    ASSUME Inv, [Next]_vars, LostInv PROVE LostInv'
  <1>0. /\ faults \in Nat /\ faults' \in Nat /\ faults <= faults'
        /\ Fault => faults' = faults + 1
    BY FaultsChange, FaultEffect, MaxFaultsAssumption DEF Inv, TypeOK
  <1>1. IsFiniteSet(records)
    BY DEF LostInv
  <1>2. IsFiniteSet(records')
    <2>1. ASSUME NEW c, records' \subseteq records \cup {c} PROVE IsFiniteSet(records')
      <3>1. IsFiniteSet(records \cup {c})
        BY <1>1, FS_AddElement
      <3> QED
        BY <2>1, <3>1, FS_Subset
    <2>2. records' \subseteq records \/ \E c : records' \subseteq records \cup {c}
      BY FileChange DEF FileMoves, Stored, Write, Removed
    <2> QED
      BY <1>1, <2>1, <2>2, FS_Subset
  <1>3. IsFiniteSet(Lost) /\ IsFiniteSet(Lost') /\ Cardinality(Lost) \in Nat
        /\ Cardinality(Lost') \in Nat /\ Cardinality(Lost) <= faults
    <2>1. Lost \subseteq records /\ Lost' \subseteq records'
      BY DEF Lost
    <2> QED
      BY <1>1, <1>2, <2>1, FS_Subset, FS_CardinalityType DEF LostInv
  <1>4. CASE Lost' \subseteq Lost
    <2>1. Cardinality(Lost') <= Cardinality(Lost)
      BY <1>3, <1>4, FS_Subset
    <2> QED
      BY <1>0, <1>2, <1>3, <2>1 DEF LostInv
  <1>5. ASSUME NEW c, Fault, Lost' \subseteq Lost \cup {c} PROVE LostInv'
    <2>1. /\ IsFiniteSet(Lost \cup {c})
          /\ Cardinality(Lost \cup {c}) \in {Cardinality(Lost), Cardinality(Lost) + 1}
      BY <1>3, FS_AddElement
    <2>2. Cardinality(Lost') <= Cardinality(Lost \cup {c})
      BY <1>5, <2>1, FS_Subset
    <2>3. Cardinality(Lost') <= faults'
      BY <1>0, <1>3, <1>5, <2>1, <2>2
    <2> QED
      BY <1>2, <2>3 DEF LostInv
  <1> QED
    BY <1>4, <1>5, LostSteps DEF Safe, LostOne

LEMMA LostInvariance == Spec => [](Inv /\ LostInv)
  <1>1. Init => Inv /\ LostInv
    <2> SUFFICES ASSUME Init PROVE LostInv
      BY InitialState
    <2>1. records = {} /\ faults = 0 /\ Lost = {}
      BY DEF Init, Lost
    <2> QED
      BY <2>1, FS_EmptySet DEF LostInv
  <1>2. Inv /\ LostInv /\ [Next]_vars => (Inv /\ LostInv)'
    BY InvStep, LostStep
  <1> QED
    BY <1>1, <1>2, PTL DEF Spec

\* Once the application is up, no more stored channels are missing in the window
\* than requests and writes have failed, those apart that addChannelIntoList
\* refused: no order of the goroutines, the window and the restarts hides one by
\* itself.
THEOREM FaultHidesOneAlways == Spec => []FaultHidesOne
  <1>1. ASSUME Inv, LostInv, Up PROVE Cardinality(Hidden) <= faults
    <2>1. task[Main].size = 0 /\ task[Main].next = 0
      BY <1>1 DEF Inv, PlacesInv
    <2>2. Remaining(task[Main].next + 1) = {}
      BY <2>1 DEF Remaining
    <2>3. At("add") \subseteq { task[t].chan : t \in Tasks }
      BY DEF At
    <2>4. Hidden \subseteq Lost /\ Lost \subseteq records
      BY <2>2, <2>3 DEF Hidden, Lost, Covered
    <2>5. /\ IsFiniteSet(Lost) /\ Cardinality(Lost) \in Nat /\ Cardinality(Lost) <= faults
          /\ faults \in Nat
      BY <1>1, <2>4, FS_Subset, FS_CardinalityType, MaxFaultsAssumption
      DEF LostInv, Inv, TypeOK
    <2>6. Cardinality(Hidden) \in Nat /\ Cardinality(Hidden) <= Cardinality(Lost)
      BY <2>4, <2>5, FS_Subset, FS_CardinalityType
    <2> QED
      BY <2>5, <2>6
  <1> QED
    BY <1>1, LostInvariance, PTL DEF FaultHidesOne
=============================================================================
