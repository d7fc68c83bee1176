---------------------------- MODULE Connections ----------------------------
(***************************************************************************)
(* The connections of the client (client.go), the page that adds and       *)
(* deletes them (windows_init.go), and the loops of main.go that start     *)
(* goroutines for them.                                                    *)
(*                                                                         *)
(* A connection is kept three times: in local.data in the file, in its     *)
(* copy in memory, and as an object with an HTTP client and its token in   *)
(* the list that everything else uses.  Adding and deleting change the     *)
(* copy first, then save it, and rebuild the list if that succeeded.       *)
(*                                                                         *)
(* Two loops look at the list every minute and start a goroutine for each  *)
(* identifier they have not seen before: one that registers the client     *)
(* (initRemoteClient) and one that listens to channels                     *)
(* (runChannelsListener).  The third such loop is that of an open chat;    *)
(* from a chat the page of connections cannot be reached without closing   *)
(* it, so its loop lives with one list.                                    *)
(***************************************************************************)
EXTENDS Naturals

CONSTANTS Ids,          \* the identifiers of certificates
          MaxObjects,   \* objects made for one identifier in one run
          MaxFaults,    \* failed saves
          MaxRestarts

ASSUME ConnectionsAssumption ==
    /\ MaxObjects \in Nat \ {0}
    /\ MaxFaults \in Nat /\ MaxRestarts \in Nat

Objects == 1..MaxObjects
None == 0
Loops == {"clients", "channels"}

VARIABLES
    saved,      \* Connections of local.data in the file
    ld,         \* Connections of its copy in memory
    list,       \* the object of each identifier in connects, or None
    made,       \* the number of objects made for each identifier in this run
    mapper,     \* connsMapper of each loop
    gos,        \* the goroutines: <<loop, identifier, object, where it is>>
    authed,     \* the objects with a token
    faults, restarts,
    unsaved,    \* history: changed in memory since the last save
    unlisted,   \* history: changed in memory since the list was built
    deleted     \* history: deleted in this run

copies == <<saved, ld, list, made>>
loops  == <<mapper, gos>>
history == <<unsaved, unlisted, deleted>>
vars == <<copies, loops, authed, faults, restarts, history>>

\* A start of the client (init) makes an object for each identifier.
First(ids) == [id \in Ids |-> IF id \in ids THEN 1 ELSE None]

Init ==
    /\ saved \in SUBSET Ids /\ ld = saved
    /\ list = First(saved) /\ made = First(saved)
    /\ mapper = [l \in Loops |-> {}] /\ gos = {}
    /\ authed = {} /\ faults = 0 /\ restarts = 0
    /\ unsaved = {} /\ unlisted = {} /\ deleted = {}

-----------------------------------------------------------------------------
(* The page of connections. *)

\* Mutant: every object is made anew, with a client of its own.
MapConnectsToListAnew(ids) ==
    /\ list' = [id \in Ids |-> IF id \in ids THEN made[id] + 1 ELSE None]
    /\ made' = [id \in Ids |-> IF id \in ids THEN made[id] + 1 ELSE made[id]]
    /\ \A id \in Ids : made'[id] <= MaxObjects

\* The objects in the list are kept, missing ones are made.
MapConnectsToList(ids) ==
    LET new == { id \in ids : list[id] = None }
    IN  /\ \A id \in new : made[id] < MaxObjects
        /\ made' = [id \in Ids |-> IF id \in new THEN made[id] + 1 ELSE made[id]]
        /\ list' = [id \in Ids |-> IF id \in new THEN made[id] + 1
                                   ELSE IF id \in ids THEN list[id] ELSE None]

\* SetLocalData writes the whole copy, whatever changed in it.
SaveAndList ==
    /\ saved' = ld' /\ unsaved' = {}
    /\ MapConnectsToList(ld') /\ unlisted' = {}
    /\ UNCHANGED faults

SaveFails(id) ==
    /\ faults < MaxFaults /\ faults' = faults + 1
    /\ unsaved' = unsaved \cup {id} /\ unlisted' = unlisted \cup {id}
    /\ UNCHANGED <<saved, list, made>>

\* InitClient and Auth, for which the window waits: they succeed, or the
\* dialog ends with an error and the connection stays.
Authorize(id) == authed' \in {authed, authed \cup {<<id, list'[id]>>}}

\* The dialog that loads a certificate which memory does not have.
AddConnection(id) ==
    /\ id \notin ld
    /\ ld' = ld \cup {id}
    /\ \/ SaveAndList /\ Authorize(id)
       \/ SaveFails(id) /\ UNCHANGED authed
    /\ UNCHANGED <<loops, restarts, deleted>>

\* For one that memory has addConnection does nothing; getConnectionByID finds
\* the object, or the dialog ends with an error.
FindConnection(id) ==
    /\ id \in ld /\ list[id] # None
    /\ UNCHANGED list /\ Authorize(id)
    /\ UNCHANGED <<saved, ld, made, loops, faults, restarts, history>>

\* Mutant: the list is not built again.
DelConnectionUnlisted(id) ==
    /\ list[id] # None /\ id \in ld
    /\ ld' = ld \ {id} /\ deleted' = deleted \cup {id}
    /\ saved' = ld' /\ unsaved' = {}
    /\ UNCHANGED <<list, made, faults, unlisted, loops, authed, restarts>>

\* delConnection of an entry of the list, whose error the dialog ignores; it
\* does nothing when memory has lost the identifier before.
DelConnection(id) ==
    /\ list[id] # None /\ id \in ld
    /\ ld' = ld \ {id} /\ deleted' = deleted \cup {id}
    /\ SaveAndList \/ SaveFails(id)
    /\ UNCHANGED <<loops, authed, restarts>>

\* Every other save (nickname, favourites, black lists) takes along what an
\* earlier one has missed.
SaveOther ==
    /\ saved' = ld /\ unsaved' = {}
    /\ UNCHANGED <<ld, list, made, loops, authed, faults, restarts,
                   unlisted, deleted>>

-----------------------------------------------------------------------------
(* The loops and their goroutines. *)

\* A turn of a loop that finds new identifiers in the list.
StartGoroutines(l) ==
    /\ LET new == { id \in Ids \ mapper[l] : list[id] # None }
       IN  /\ new # {}
           /\ mapper' = [mapper EXCEPT ![l] = @ \cup new]
           /\ gos' = gos \cup { <<l, id, list[id], "head">> : id \in new }
    /\ UNCHANGED <<copies, authed, faults, restarts, history>>

\* Mutant: the listener does not look whether it is still wanted.
CheckNever(id, o) ==
    /\ <<"channels", id, o, "head">> \in gos
    /\ gos' = (gos \ {<<"channels", id, o, "head">>})
                 \cup {<<"channels", id, o, "busy">>}
    /\ UNCHANGED <<copies, mapper, authed, faults, restarts, history>>

\* The head of a listener: inConnections, which asks the copy in memory.
Check(id, o) ==
    /\ <<"channels", id, o, "head">> \in gos
    /\ gos' = (gos \ {<<"channels", id, o, "head">>})
                 \cup (IF id \in ld THEN {<<"channels", id, o, "busy">>} ELSE {})
    /\ UNCHANGED <<copies, mapper, authed, faults, restarts, history>>

\* A round of the listener ends, with or without a channel.
NextRound(id, o) ==
    /\ <<"channels", id, o, "busy">> \in gos
    /\ gos' = (gos \ {<<"channels", id, o, "busy">>})
                 \cup {<<"channels", id, o, "head">>}
    /\ UNCHANGED <<copies, mapper, authed, faults, restarts, history>>

\* InitClient and Auth succeed in the end.  Nothing else ends this goroutine.
Register(id, o) ==
    /\ <<"clients", id, o, "head">> \in gos
    /\ gos' = gos \ {<<"clients", id, o, "head">>}
    /\ authed' = authed \cup {<<id, o>>}
    /\ UNCHANGED <<copies, mapper, faults, restarts, history>>

\* The client stops at any time and starts again from the file.
Restart ==
    /\ restarts < MaxRestarts /\ restarts' = restarts + 1
    /\ UNCHANGED saved
    /\ ld' = saved /\ list' = First(saved) /\ made' = First(saved)
    /\ mapper' = [l \in Loops |-> {}] /\ gos' = {}
    /\ authed' = {}
    /\ UNCHANGED faults
    /\ unsaved' = {} /\ unlisted' = {} /\ deleted' = {}

-----------------------------------------------------------------------------

Window ==
    \/ \E id \in Ids : AddConnection(id) \/ FindConnection(id) \/ DelConnection(id)
    \/ SaveOther

Goroutines ==
    \/ \E l \in Loops : StartGoroutines(l)
    \/ \E id \in Ids, o \in Objects :
          Check(id, o) \/ NextRound(id, o) \/ Register(id, o)

Next == Window \/ Goroutines \/ Restart

Spec == Init /\ [][Next]_vars

\* The loops turn every minute and their goroutines run; a registration that
\* is tried for ever succeeds.
Fairness ==
    /\ \A l \in Loops : WF_vars(StartGoroutines(l))
    /\ \A id \in Ids, o \in Objects :
          /\ WF_vars(Check(id, o)) /\ WF_vars(NextRound(id, o))
          /\ WF_vars(Register(id, o))

FairSpec == Spec /\ Fairness

-----------------------------------------------------------------------------
(* Properties. *)

\* Every variable has its type; goroutines and tokens belong to objects that
\* were made.
TypeOK ==
    /\ saved \subseteq Ids /\ ld \subseteq Ids
    /\ list \in [Ids -> Objects \cup {None}]
    /\ made \in [Ids -> Objects \cup {0}]
    /\ \A id \in Ids : list[id] <= made[id]
    /\ mapper \in [Loops -> SUBSET Ids]
    /\ gos \subseteq Loops \X Ids \X Objects \X {"head", "busy"}
    /\ authed \subseteq Ids \X Objects
    /\ faults \in 0..MaxFaults /\ restarts \in 0..MaxRestarts
    /\ unsaved \subseteq Ids /\ unlisted \subseteq Ids /\ deleted \subseteq Ids

\* File, memory and list name the same connections, but for those whose last
\* change could not be saved (client.go:100, 117): a later save of anything
\* repairs the file, only a later change of connections the list.
CopiesAgree ==
    \A id \in Ids :
        /\ id \notin unsaved => (id \in ld <=> id \in saved)
        /\ id \notin unlisted => (id \in ld <=> list[id] # None)

\* A loop has at most one goroutine for a connection, however often that is
\* deleted and added (main.go:128, 496); and unless it was deleted in this run
\* the goroutine works with the object that everything else uses, whose token
\* it is to get (client.go:180).
OneGoroutineEach ==
    \A g \in gos :
        /\ \A h \in gos : g[1] = h[1] /\ g[2] = h[2] => g = h
        /\ g[2] \notin deleted => g[3] = list[g[2]]

\* A connection in the list that is not deleted in this run gets registered
\* and listened to, also when its dialog ended with an error.
Served(id) ==
    (list[id] # None /\ id \notin deleted) ~>
        \/ list[id] = None \/ id \in deleted
        \/ /\ <<id, list[id]>> \in authed
           /\ \E g \in gos : g[1] = "channels" /\ g[2] = id

\* A connection that stays deleted is in the end not listened to any more.
Ended(id) ==
    <>[](id \notin ld) => <>[](\A g \in gos : ~ (g[1] = "channels" /\ g[2] = id))

\* The goroutines follow the connections, although neither loop ever forgets
\* an identifier (main.go:122-140, 302-306, 488-526).
ListenersFollow == \A id \in Ids : Served(id) /\ Ended(id)
=============================================================================
