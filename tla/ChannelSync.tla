----------------------------- MODULE ChannelSync -----------------------------
(***************************************************************************)
(* The channels of one client: how they get from the servers into its      *)
(* database and its window, and from the client to all of its servers.     *)
(*                                                                         *)
(* A server keeps for every participant the list of its channels (see      *)
(* ChannelStore).  When the application starts it first goes through the   *)
(* list in its own database (runChannelsListener), and then listens to the *)
(* list of every server, from the beginning, with one goroutine each       *)
(* (runChannelsListenerOnConnection).  The user creates channels, each in  *)
(* a goroutine, deletes them and blocks participants.  All these tasks     *)
(* bring a channel to every server (initRemoteChannel), into the database  *)
(* (SetChannel) and into the window (addChannelIntoList), in steps that    *)
(* interleave and may fail, and the application may stop at any time.      *)
(*                                                                         *)
(* Clients register on servers when they like.  A server that does not     *)
(* know the author of a channel refuses it, a participant that no server   *)
(* knows cannot be loaded, and a name may pass the encoder and not the     *)
(* decoder: such a channel gets stuck on the way without any fault.        *)
(***************************************************************************)
EXTENDS Integers, Sequences, FiniteSets

CONSTANTS
    Servers,     \* connections of the client, which do not change here
    Channels,    \* channels the client takes part in
    Clients,     \* hashes of public keys
    Me,
    EncList,     \* EncList[c] : the participants, the author first
    BadNames,    \* channels with characters in their names that the decoder refuses
    Early,       \* the possible registrations at the beginning: Early[s] are on s
    Late,        \* the clients that may register while the application runs
    Main,        \* the task that starts the application
    None,        \* no channel
    MaxFaults    \* bound on failed requests, failed writes and crashes

Mine == { c \in Channels : EncList[c][1] = Me }

\* A listener is named by its server, a creation by the channel it creates.
Tasks == {Main} \cup Servers \cup Mine

\* The encoder lets the author pick a participant twice, but not itself.
ASSUME EncListAssumption ==
    /\ EncList \in [Channels -> Seq(Clients)]
    /\ \A c \in Channels :
          /\ \E k \in DOMAIN EncList[c] : EncList[c][k] = Me
          /\ \A k \in DOMAIN EncList[c] : EncList[c][k] = EncList[c][1] => k = 1
ASSUME DisjointAssumption ==
    /\ Servers \cap Channels = {}
    /\ Main \notin Servers \cup Channels /\ None \notin Channels
ASSUME MeAssumption == Me \in Clients
ASSUME RegistrationAssumption ==
    Early \subseteq [Servers -> SUBSET Clients] /\ Late \subseteq Clients
ASSUME MaxFaultsAssumption == MaxFaults \in Nat

VARIABLES
    \* the servers
    registered,  \* registered[s] : the clients whose public key s has
    onServer,    \* onServer[s] : the channels with a record on s
    srvList,     \* srvList[s] : the list of the client's channels on s
    \* the file of the client
    records,     \* the channels with a record
    index,       \* the client's list of its channels
    profiles,    \* the clients whose public key is stored
    saved,       \* local.data: the deleted channels and blocked participants
    \* its memory
    local,       \* the same, as the program sees them
    listed,      \* the channels in the window
    deleting,    \* what the window thread deletes: a step and a channel
    task,        \* task[t] : the state of every goroutine
    \* bookkeeping of the model
    bootDeleted, \* the channels that were deleted when the application started
    bootFaults,  \* and the faults until then
    refused,     \* the channels that did not get into the window, without a fault
    faults

lists  == <<onServer, srvList>>
server == <<registered, lists>>
file   == <<records, index, profiles>>
boot   == <<bootDeleted, bootFaults>>
vars   == <<server, file, saved, local, listed, deleting, task, boot, refused, faults>>

\* task[t] : where t is, the channel it works on, the index of the next one (of
\* a list of that size), the servers it still has to ask and whether one agreed.
Off == [pc |-> "off", chan |-> None, next |-> 0, size |-> 0,
        todo |-> {}, ok |-> FALSE]
Booting(list) == [Off EXCEPT !.pc = "start", !.size = Len(list)]

Indexed   == { index[i] : i \in DOMAIN index }
Author(c) == EncList[c][1]
Up        == task[Main].pc = "up"

Init ==
    /\ registered \in Early
    /\ onServer = [s \in Servers |-> {}] /\ srvList = [s \in Servers |-> <<>>]
    /\ records = {} /\ index = <<>>
    /\ profiles = { u \in {Me} : \E s \in Servers : u \in registered[s] }
    /\ saved = [deleted |-> {}, blocked |-> {}] /\ local = saved
    /\ listed = {}
    /\ deleting = [pc |-> "no", chan |-> None]
    /\ task = [t \in Tasks |-> IF t = Main THEN Booting(<<>>) ELSE Off]
    /\ bootDeleted = {} /\ bootFaults = 0 /\ refused = {} /\ faults = 0

window == <<saved, local, deleting>>

Fault == faults < MaxFaults /\ faults' = faults + 1
Become(t, l) == task' = [task EXCEPT ![t] = l]
Goto(t, label) == Become(t, [task[t] EXCEPT !.pc = label])

\* The end of a task's work on a channel: it goes on at index n of its list.
GoOn(t, n) ==
    Become(t, IF t = Main
                THEN [Off EXCEPT !.pc = "start", !.next = n, !.size = task[t].size]
              ELSE IF t \in Servers THEN [Off EXCEPT !.pc = "listen", !.next = n]
              ELSE [Off EXCEPT !.pc = "done"])
Pass(t)  == GoOn(t, task[t].next + 1)
Retry(t) == IF t = Main THEN Goto(t, "dead") ELSE GoOn(t, task[t].next)

-----------------------------------------------------------------------------
(* What the tasks have in common. *)

\* SetChannel lists a channel once for every entry of the client among its
\* participants; stopped after the first j of them it leaves the rest out.
Named(c, j)   == Cardinality({ k \in 1..j : EncList[c][k] = Me })
Entries(c, j) == [i \in 1..Named(c, j) |-> c]

\* handleChannelInit of server s finds the record, or stores it.
Enlist(s, c, j) ==
    /\ onServer' = [onServer EXCEPT ![s] = @ \cup {c}]
    /\ srvList' = [srvList EXCEPT ![s] = IF c \in onServer[s] THEN @ ELSE @ \o Entries(c, j)]

\* It knows who asks, by the token, and the author of the channel.
Accepts(s, c) == {Me, Author(c)} \subseteq registered[s]

\* Mutant: one server is enough.
PublishOnce(t, c) ==
    Become(t, [task[t] EXCEPT !.pc = "init", !.chan = c, !.ok = FALSE,
                              !.todo = { s \in Servers : s = CHOOSE x \in Servers : TRUE }])

\* initRemoteChannel asks all servers at once.
Publish(t, c) ==
    Become(t, [task[t] EXCEPT !.pc = "init", !.chan = c, !.todo = Servers, !.ok = FALSE])

\* A request that fails may have been carried out, in part or with its answer lost.
PublishTo(t, s) ==
    LET c == task[t].chan IN
    /\ task[t].pc = "init" /\ s \in task[t].todo
    /\ \/ /\ Accepts(s, c) /\ Enlist(s, c, Len(EncList[c])) /\ UNCHANGED faults
          /\ Become(t, [task[t] EXCEPT !.todo = @ \ {s}, !.ok = TRUE])
       \/ /\ ~ Accepts(s, c) /\ UNCHANGED <<lists, faults>>
          /\ Become(t, [task[t] EXCEPT !.todo = @ \ {s}])
       \/ /\ Fault
          /\ \/ Accepts(s, c) /\ \E j \in 0..Len(EncList[c]) : Enlist(s, c, j)
             \/ UNCHANGED lists
          /\ Become(t, [task[t] EXCEPT !.todo = @ \ {s}])
    /\ UNCHANGED <<registered, file, window, listed, boot, refused>>

\* Mutant: the errors of the servers are ignored.
PublishedAnyway(t) ==
    /\ task[t].pc = "init" /\ task[t].todo = {}
    /\ IF t = Main THEN Pass(t) ELSE Goto(t, "set")
    /\ UNCHANGED <<server, file, window, listed, boot, refused, faults>>

\* It fails if all servers do, and there are any; the start goes on anyway.
Published(t) ==
    /\ task[t].pc = "init" /\ task[t].todo = {}
    /\ IF t = Main THEN Pass(t)
       ELSE IF task[t].ok \/ Servers = {} THEN Goto(t, "set")
       ELSE Retry(t)
    /\ UNCHANGED <<server, file, window, listed, boot, refused, faults>>

\* The client's own SetChannel.
Write(c, j) == records' = records \cup {c} /\ index' = index \o Entries(c, j)

\* Stopped by an error or by the end of the process; the next call finds the record.
WriteTorn(c) == c \notin records /\ \E j \in 0..(Len(EncList[c]) - 1) : Write(c, j)

SetChannelFails(t) ==
    /\ Fault /\ task[t].chan \notin records
    /\ WriteTorn(task[t].chan) \/ UNCHANGED <<records, index>>
    /\ Retry(t)

\* Mutant: the record is not looked up.
SetChannelAgain(t) ==
    LET c == task[t].chan IN
    /\ task[t].pc = "set"
    /\ \/ Write(c, Len(EncList[c])) /\ Goto(t, "add") /\ UNCHANGED faults
       \/ SetChannelFails(t)
    /\ UNCHANGED <<server, profiles, window, listed, boot, refused>>

\* Mutant: a stored channel is not put into the window.
SetChannelPassing(t) ==
    LET c == task[t].chan IN
    /\ task[t].pc = "set"
    /\ \/ /\ IF c \in records THEN UNCHANGED <<records, index>> ELSE Write(c, Len(EncList[c]))
          /\ Pass(t) /\ UNCHANGED faults
       \/ SetChannelFails(t)
    /\ UNCHANGED <<server, profiles, window, listed, boot, refused>>

SetChannel(t) ==
    LET c == task[t].chan IN
    /\ task[t].pc = "set"
    /\ \/ /\ IF c \in records THEN UNCHANGED <<records, index>> ELSE Write(c, Len(EncList[c]))
          /\ Goto(t, "add") /\ UNCHANGED faults
       \/ SetChannelFails(t)
    /\ UNCHANGED <<server, profiles, window, listed, boot, refused>>

\* getClientInfo of the participants m to n of c: those that are not stored are
\* loaded from the first server that has them, and stored.
Known(u) == u \in profiles \/ \E s \in Servers : u \in registered[s]

Load(c, m, n) ==
    /\ \A k \in m..n : Known(EncList[c][k])
    /\ profiles' = profiles \cup { EncList[c][k] : k \in m..n }

\* The next one cannot be loaded: nobody has it, or a request or a write fails.
LoadFails(c, m, n) ==
    /\ Load(c, m, n) /\ EncList[c][n + 1] \notin profiles'
    /\ IF Known(EncList[c][n + 1]) THEN Fault ELSE UNCHANGED faults

\* The decoder looks at the name when the author is loaded.
NameRefused(c) == c \in BadNames /\ Load(c, 1, 1) /\ UNCHANGED faults

AddIntoList(t) ==
    LET c == task[t].chan
        last == IF c \in BadNames THEN 1 ELSE Len(EncList[c]) IN
    /\ task[t].pc = "add"
    /\ \/ /\ c \notin BadNames /\ Load(c, 1, last)
          /\ listed' = listed \cup {c}
          /\ IF t = Main THEN Publish(t, c) ELSE Pass(t)
          /\ UNCHANGED <<refused, faults>>
       \/ /\ NameRefused(c) \/ \E n \in 0..(last - 1) : LoadFails(c, 1, n)
          /\ refused' = IF faults' = faults THEN refused \cup {c} ELSE refused
          /\ Retry(t) /\ UNCHANGED listed
    /\ UNCHANGED <<server, records, index, window, boot>>

-----------------------------------------------------------------------------
(* The start of the application (runChannelsListener).                     *)

StartNext ==
    LET t == task[Main]
        c == index[t.next + 1] IN
    /\ t.pc = "start" /\ t.next < t.size
    /\ \/ /\ c \notin local.deleted
          /\ Become(Main, [t EXCEPT !.pc = "load", !.chan = c])
          /\ UNCHANGED <<records, faults>>
       \/ /\ c \in local.deleted                     \* or ErrNotFound
          /\ records' = records \ {c} /\ Pass(Main) /\ UNCHANGED faults
       \/ /\ c \in local.deleted \cap records
          /\ Fault /\ Retry(Main) /\ UNCHANGED records
    /\ UNCHANGED <<server, index, profiles, window, listed, boot, refused>>

StartLoad ==
    /\ task[Main].pc = "load"
    /\ Goto(Main, IF task[Main].chan \in records THEN "add" ELSE "dead")
    /\ UNCHANGED <<server, file, window, listed, boot, refused, faults>>

\* A listener for every connection, each from index 0.
StartListeners ==
    /\ task[Main].pc = "start" /\ task[Main].next = task[Main].size
    /\ task' = [t \in Tasks |-> IF t = Main THEN [Off EXCEPT !.pc = "up"]
                                ELSE IF t \in Servers THEN [Off EXCEPT !.pc = "listen"]
                                ELSE task[t]]
    /\ UNCHANGED <<server, file, window, listed, boot, refused, faults>>

-----------------------------------------------------------------------------
(* The listener of a server (runChannelsListenerOnConnection).             *)

ListenChannel(s) ==
    /\ task[s].pc = "listen" /\ task[s].next < Len(srvList[s]) /\ Me \in registered[s]
    /\ Become(s, [task[s] EXCEPT !.pc = "check", !.chan = srvList[s][task[s].next + 1]])
    /\ UNCHANGED <<server, file, window, listed, boot, refused, faults>>

\* Mutant: the list of deleted channels is not looked at.
CheckChannelBlocked(s) ==
    /\ task[s].pc = "check"
    /\ IF Author(task[s].chan) \in local.blocked THEN Pass(s) ELSE Goto(s, "lookup")
    /\ UNCHANGED <<server, file, window, listed, boot, refused, faults>>

CheckChannel(s) ==
    LET c == task[s].chan IN
    /\ task[s].pc = "check"
    /\ IF c \in local.deleted \/ Author(c) \in local.blocked
       THEN Pass(s) ELSE Goto(s, "lookup")
    /\ UNCHANGED <<server, file, window, listed, boot, refused, faults>>

LookupChannel(s) ==
    /\ task[s].pc = "lookup"
    /\ IF task[s].chan \in records THEN Pass(s) ELSE Publish(s, task[s].chan)
    /\ UNCHANGED <<server, file, window, listed, boot, refused, faults>>

-----------------------------------------------------------------------------
(* The window. *)

\* initLocalChannel, in a goroutine of its own: the channel does not exist until
\* the keys of the other participants are loaded.
Create(c) ==
    /\ task[c].pc = "off"
    /\ \/ Load(c, 2, Len(EncList[c])) /\ Publish(c, c) /\ UNCHANGED faults
       \/ (\E n \in 1..(Len(EncList[c]) - 1) : LoadFails(c, 2, n)) /\ Goto(c, "done")
    /\ UNCHANGED <<server, records, index, window, listed, boot, refused>>

\* SetLocalData: what the program knows has changed even if the write fails.
Save(l)      == local' = l /\ saved' = l /\ UNCHANGED faults
SaveFails(l) == local' = l /\ Fault /\ UNCHANGED saved

\* Mutant: the deletion goes on though the list could not be saved.
MarkDeletedAnyway(c) ==
    /\ deleting.pc = "no" /\ c \in listed
    /\ LET l == [local EXCEPT !.deleted = @ \cup {c}] IN Save(l) \/ SaveFails(l)
    /\ deleting' = [pc |-> "record", chan |-> c]
    /\ UNCHANGED <<server, file, listed, task, boot, refused>>

MarkDeleted(c) ==
    /\ deleting.pc = "no" /\ c \in listed
    /\ LET l == [local EXCEPT !.deleted = @ \cup {c}] IN
          \/ Save(l) /\ deleting' = [pc |-> "record", chan |-> c]
          \/ SaveFails(l) /\ UNCHANGED deleting
    /\ UNCHANGED <<server, file, listed, task, boot, refused>>

\* Mutant: the channel is forgotten before it is taken from the window.
DeleteRecordForgetting ==
    LET c == deleting.chan IN
    /\ deleting.pc = "record"
    /\ \/ /\ c \in records /\ records' = records \ {c}
          /\ deleting' = [pc |-> "list", chan |-> None] /\ UNCHANGED faults
       \/ /\ IF c \in records THEN Fault ELSE UNCHANGED faults
          /\ deleting' = [pc |-> "no", chan |-> None] /\ UNCHANGED records
    /\ UNCHANGED <<server, index, profiles, saved, local, listed, task, boot, refused>>

\* DelChannel leaves the index as it is.
DeleteRecord ==
    LET c == deleting.chan IN
    /\ deleting.pc = "record"
    /\ \/ /\ c \in records /\ records' = records \ {c}
          /\ deleting' = [deleting EXCEPT !.pc = "list"] /\ UNCHANGED faults
       \/ /\ IF c \in records THEN Fault ELSE UNCHANGED faults
          /\ deleting' = [pc |-> "no", chan |-> None] /\ UNCHANGED records
    /\ UNCHANGED <<server, index, profiles, saved, local, listed, task, boot, refused>>

Unlist ==
    /\ deleting.pc = "list"
    /\ listed' = listed \ {deleting.chan}
    /\ deleting' = [pc |-> "no", chan |-> None]
    /\ UNCHANGED <<server, file, saved, local, task, boot, refused, faults>>

\* Only authors: nothing here asks whether another participant is blocked.
Block(u) ==
    /\ deleting.pc = "no" /\ u # Me
    /\ \E c \in listed : u = Author(c)
    /\ LET l == [local EXCEPT !.blocked = IF u \in @ THEN @ \ {u} ELSE @ \cup {u}] IN
          Save(l) \/ SaveFails(l)
    /\ UNCHANGED <<server, file, listed, deleting, task, boot, refused>>

\* The application stops, perhaps while it stores a channel, and is started again.
Restart ==
    /\ Fault
    /\ \/ UNCHANGED <<records, index>>
       \/ \E t \in Tasks : task[t].pc = "set" /\ WriteTorn(task[t].chan)
    /\ local' = saved /\ listed' = {}
    /\ deleting' = [pc |-> "no", chan |-> None]
    /\ task' = [t \in Tasks |-> IF t = Main THEN Booting(index')
                                ELSE IF t \in Servers \/ task[t].pc = "off" THEN Off
                                ELSE [Off EXCEPT !.pc = "done"]]
    /\ bootDeleted' = saved.deleted /\ bootFaults' = faults + 1 /\ refused' = {}
    /\ UNCHANGED <<server, profiles, saved>>

\* initLocalClient, beside the start: before it the client has no profile to show.
InitLocalClient ==
    /\ Me \notin profiles /\ profiles' = profiles \cup {Me}
    /\ UNCHANGED <<server, records, index, window, listed, task, boot, refused, faults>>

-----------------------------------------------------------------------------
(* The other clients, and the servers. *)

\* handleClientInit; the client itself is registered by initRemoteClient.
Register(s, u) ==
    /\ u \notin registered[s] /\ (u = Me => Me \in profiles)
    /\ registered' = [registered EXCEPT ![s] = @ \cup {u}]
    /\ UNCHANGED <<lists, file, window, listed, task, boot, refused, faults>>

\* Other participants create channels and bring them to their servers, and so
\* does the listener of an open chat of the client.
OthersInit(s, c) ==
    /\ c \notin onServer[s] /\ Author(c) \in registered[s]
    /\ c \in Mine => \E t \in Servers : c \in onServer[t]
    /\ \/ Enlist(s, c, Len(EncList[c])) /\ UNCHANGED faults
       \/ Fault /\ \E j \in 0..(Len(EncList[c]) - 1) : Enlist(s, c, j)
    /\ UNCHANGED <<registered, file, window, listed, task, boot, refused>>

-----------------------------------------------------------------------------
Common(t) == \/ \E s \in Servers : PublishTo(t, s)
             \/ Published(t) \/ SetChannel(t) \/ AddIntoList(t)
StartStep == StartNext \/ StartLoad \/ StartListeners \/ Common(Main)
Listener(s) == ListenChannel(s) \/ CheckChannel(s) \/ LookupChannel(s) \/ Common(s)
Deletion == DeleteRecord \/ Unlist

Next ==
    \/ StartStep \/ Deletion \/ Restart \/ InitLocalClient
    \/ \E s \in Servers : Listener(s)
    \/ \E c \in Mine : Create(c) \/ Common(c)
    \/ \E c \in Channels : MarkDeleted(c) \/ \E s \in Servers : OthersInit(s, c)
    \/ \E u \in Clients : Block(u)
    \/ \E u \in Late, s \in Servers : Register(s, u)

Spec == Init /\ [][Next]_vars

\* Goroutines run and their requests are answered, the window thread runs.
Fairness ==
    /\ WF_vars(StartStep) /\ WF_vars(Deletion)
    /\ \A s \in Servers : WF_vars(Listener(s))
    /\ \A c \in Mine : WF_vars(Common(c))

FairSpec == Spec /\ Fairness

-----------------------------------------------------------------------------
(* Properties.                                                             *)

LocalType == [deleted : SUBSET Channels, blocked : SUBSET Clients]
TaskPlaces == {"off", "start", "load", "up", "dead", "listen", "check", "lookup",
               "init", "set", "add", "done"}

TypeOK ==
    /\ registered \in [Servers -> SUBSET Clients]
    /\ onServer \in [Servers -> SUBSET Channels]
    /\ srvList \in [Servers -> Seq(Channels)]
    /\ records \subseteq Channels /\ index \in Seq(Channels)
    /\ profiles \subseteq Clients
    /\ saved \in LocalType /\ local \in LocalType
    /\ listed \subseteq Channels
    /\ deleting \in [pc : {"no", "record", "list"}, chan : Channels \cup {None}]
    /\ deleting.pc # "no" => deleting.chan \in Channels
    /\ task \in [Tasks -> [pc : TaskPlaces, chan : Channels \cup {None},
                           next : Nat, size : Nat, todo : SUBSET Servers, ok : BOOLEAN]]
    /\ \A t \in Tasks : task[t].pc \in {"load", "check", "lookup", "init", "set", "add"}
                          => task[t].chan \in Channels
    /\ bootDeleted \subseteq Channels /\ refused \subseteq Channels
    /\ faults \in 0..MaxFaults /\ bootFaults \in 0..faults

\* A channel that the client has stored is on one of its servers at least, if it
\* has any, though every request and every answer may be lost: other participants
\* can find it (initRemoteChannel fails when all its requests do, and comes first).
StoredIsPublished ==
    \A c \in records : Servers = {} \/ \E s \in Servers : c \in onServer[s]

\* Once the application is up, a stored channel is in the window or about to
\* be, unless it was deleted or addChannelIntoList refused it, and a fault hides
\* one channel at most: a record without an entry in the index, or a participant
\* who could not be loaded.
Hidden == (records \ (local.deleted \cup refused))
              \ (listed \cup { task[t].chan : t \in Tasks })
FaultHidesOne == Up => Cardinality(Hidden) <= faults

\* A deleted channel may come back while the listener that had asked for it
\* goes on, but not after the next start: it is neither in the window nor, if
\* the index still names it, in the database.
DeletionSurvivesRestart ==
    /\ bootDeleted \cap listed = {}
    /\ Up => bootDeleted \cap records \cap Indexed = {}

\* The start gives up, and leaves the client without any listener of channels,
\* only when one of its own requests or writes fails or when the channel itself
\* cannot be shown: no interrupted deletion, creation or synchronisation leaves
\* an index it cannot go through.  The exception is a channel that names the
\* client twice: the user may delete it between its two entries.
StartGivesUpOnFault ==
    LET c == task[Main].chan IN
    task[Main].pc = "dead" =>
        faults > bootFaults \/ c \in refused \/ Named(c, Len(EncList[c])) > 1

\* The index names a channel no more often than its participants name the
\* client, unless the channel was deleted in between.
IndexedOnce ==
    \A c \in Channels :
        Cardinality({ i \in DOMAIN index : index[i] = c }) > Named(c, Len(EncList[c]))
            => c \in saved.deleted

\* When the disturbances are over, a channel that appears in the list of one
\* server and that the client neither has nor is working on gets into its window
\* and to every server that accepts it, unless the user deletes it or blocks its
\* author.  Its name has to be good and its participants known; the channels in
\* the list before it may be of any kind.
InFlight(c) == \E t \in Tasks : task[t].chan = c
Ahead(s, c) ==
    Me \in registered[s] /\ \E i \in (task[s].next + 1)..Len(srvList[s]) : srvList[s][i] = c
ChannelsSpread ==
    \A r \in Servers, c \in Channels \ BadNames :
        (/\ faults = MaxFaults /\ Up
         /\ c \notin records /\ ~ InFlight(c)
         /\ \E s \in Servers : Ahead(s, c)
         /\ Accepts(r, c) /\ \A k \in 1..Len(EncList[c]) : Known(EncList[c][k]))
            ~> (\/ c \in listed /\ c \in onServer[r]
                \/ c \in local.deleted \/ Author(c) \in local.blocked)
=============================================================================
