---------------------------- MODULE ChannelList ----------------------------
(***************************************************************************)
(* The list of channels on the main page (channels.go) and what the user   *)
(* has decided about channels and participants: favourites, deleted        *)
(* channels, blocked participants (client.go, local.data).                 *)
(*                                                                         *)
(* An entry of the list is an object that a goroutine makes, the start, a  *)
(* listener or the creation of a channel, and adds later; it carries the   *)
(* time at which it was made and a copy of the favourite mark.  The mark in *)
(* local.data, the copy in the entry and the position in the list change   *)
(* one after the other, while goroutines add and sort.                     *)
(*                                                                         *)
(* A decision changes the copy of local.data in memory first and then      *)
(* writes all of it to the file.  Taking one back that memory does not have *)
(* succeeds at once, setting one writes again.                             *)
(*                                                                         *)
(* How a goroutine comes by its channel is the matter of ChannelSync.      *)
(***************************************************************************)
EXTENDS Naturals, Sequences, FiniteSets

CONSTANTS Channels, Users, Adders,
          NoChannel,
          StableLength,  \* up to this length slices.SortFunc is stable (12)
          MaxObjects,    \* entries made in one run of the client
          MaxFaults,     \* failed writes
          MaxRestarts

ASSUME ChannelListAssumption ==
    /\ NoChannel \notin Channels
    /\ StableLength \in Nat /\ MaxObjects \in Nat
    /\ MaxFaults \in Nat /\ MaxRestarts \in Nat

Objects == 1..MaxObjects
None == 0
Decisions == ({"favorite", "deleted"} \X Channels) \cup ({"blocked"} \X Users)

VARIABLES
    saved,      \* local.data in the file
    ld,         \* its copy in memory
    made,       \* the number of entries made: an entry is numbered by its time
    chan, fav,  \* the channel and the mark of each entry
    list,       \* the entries, in the order of the page
    adding,     \* what each goroutine is about to add
    rows,       \* the entries that the rows of the page open
    current,    \* currentChatChannel on the pages of a chat, None elsewhere
    doing,      \* "idle", or what a confirmed dialog has left: "flag", "sort"
    faults, restarts,
    told,       \* history: the decisions of dialogs that ended without error
    failed,     \* history: those whose last change was not written
    gone,       \* history: channels deleted in this run
    long        \* history: the list was too long when it was last sorted

data == <<saved, ld, told, failed>>
entries == <<made, chan, fav>>
vars == <<data, entries, list, adding, rows, current, doing, faults, restarts,
          gone, long>>

NoMarks == [o \in Objects |-> FALSE]
NoChannels == [o \in Objects |-> NoChannel]
NothingAdded == [g \in Adders |-> None]

Init ==
    /\ saved = {} /\ ld = {} /\ told = {} /\ failed = {}
    /\ made = 0 /\ chan = NoChannels /\ fav = NoMarks
    /\ list = <<>> /\ adding = NothingAdded /\ rows = {}
    /\ current = None /\ doing = "idle"
    /\ faults = 0 /\ restarts = 0
    /\ gone = {} /\ long = FALSE

-----------------------------------------------------------------------------
(* The list. *)

Listed(l) == { l[i] : i \in DOMAIN l }
InList(c) == \E o \in Listed(list) : chan[o] = c

\* The sequences of the entries in S that the two passes of _sortChannels may
\* leave: by time, and then by the marks in mark.  The second pass keeps the
\* order of the first if it is stable.
Sorted(S, mark) ==
    { l \in [1..Cardinality(S) -> S] :
         /\ Listed(l) = S
         /\ \A i, j \in DOMAIN l : i < j =>
               /\ mark[l[j]] => mark[l[i]]
               /\ (mark[l[i]] = mark[l[j]] /\ Cardinality(S) <= StableLength)
                     => l[i] < l[j] }

SortInto(S) ==
    /\ list' \in Sorted(S, fav)
    /\ long' = (Cardinality(S) > StableLength)

\* A goroutine that has found channel c not to be deleted makes its entry.
Make(g, c) ==
    /\ adding[g] = None /\ made < MaxObjects
    /\ <<"deleted", c>> \notin ld
    /\ made' = made + 1
    /\ adding' = [adding EXCEPT ![g] = made']
    /\ chan' = [chan EXCEPT ![made'] = c]
    /\ fav' = [fav EXCEPT ![made'] = <<"favorite", c>> \in ld]
    /\ UNCHANGED <<data, list, rows, current, doing, faults, restarts, gone, long>>

\* addChannel, under the lock of the list.
AddChannel(g) ==
    /\ adding[g] # None
    /\ adding' = [adding EXCEPT ![g] = None]
    /\ \/ InList(chan[adding[g]]) /\ UNCHANGED <<list, long>>
       \/ /\ ~InList(chan[adding[g]])
          /\ SortInto(Listed(list) \cup {adding[g]})
    /\ UNCHANGED <<data, entries, rows, current, doing, faults, restarts, gone>>

\* The dialog writes the mark of an entry without the lock, while addChannel
\* sorts by it: the order is then any.
AddWhileFlag(g) ==
    /\ adding[g] # None /\ ~InList(chan[adding[g]]) /\ doing = "flag"
    /\ LET S == Listed(list) \cup {adding[g]}
       IN  list' \in { l \in [1..Cardinality(S) -> S] : Listed(l) = S }
    /\ fav' = [fav EXCEPT ![current] = ~ @] /\ doing' = "sort"
    /\ adding' = [adding EXCEPT ![g] = None]
    /\ UNCHANGED <<data, made, chan, rows, current, faults, restarts, gone, long>>

-----------------------------------------------------------------------------
(* Local data.  Each of these is one critical section. *)

SetLocalData(d) == saved' = ld' /\ failed' = failed \ {d} /\ UNCHANGED faults

SaveFails(d) ==
    /\ faults < MaxFaults /\ faults' = faults + 1
    /\ failed' = failed \cup {d} /\ UNCHANGED <<saved, told>>

\* Mutant: nothing is written for what memory has already.
SetOnce(d) ==
    /\ ld' = ld \cup {d} /\ told' = told \cup {d}
    /\ IF d \in ld THEN failed' = failed \ {d} /\ UNCHANGED <<saved, faults>>
                   ELSE SetLocalData(d)

\* setFavoriteChannel, setDeletedChannel, setBlockedParticipant, without error.
Set(d) == ld' = ld \cup {d} /\ told' = told \cup {d} /\ SetLocalData(d)

\* unsetFavoriteChannel, unsetBlockedParticipant, without error.
Unset(d) ==
    /\ told' = told \ {d}
    /\ \/ d \notin ld /\ UNCHANGED <<ld, saved, failed, faults>>
       \/ d \in ld /\ ld' = ld \ {d} /\ SetLocalData(d)

SetFails(d) == ld' = ld \cup {d} /\ SaveFails(d)
UnsetFails(d) == d \in ld /\ ld' = ld \ {d} /\ SaveFails(d)

\* Any other save writes these along: the nickname, a connection.
SaveOther ==
    /\ doing = "idle"
    /\ saved' = ld
    /\ UNCHANGED <<ld, told, failed, entries, list, adding, rows, current, doing,
                   faults, restarts, gone, long>>

-----------------------------------------------------------------------------
(* The pages of the window. *)

\* The rows are drawn again, now or whenever the toolkit sees fit.
Redraw ==
    /\ doing = "idle" /\ rows' = Listed(list)
    /\ UNCHANGED <<data, entries, list, adding, current, doing, faults, restarts,
                   gone, long>>

\* A row opens the entry that it was drawn for.
Open ==
    /\ doing = "idle" /\ current = None /\ current' \in rows
    /\ UNCHANGED <<data, entries, list, adding, rows, doing, faults, restarts,
                   gone, long>>

Leave ==
    /\ doing = "idle" /\ current # None /\ current' = None
    /\ UNCHANGED <<data, entries, list, adding, rows, doing, faults, restarts,
                   gone, long>>

\* The confirmed dialog on the mark of the open chat: local data, the mark of
\* the entry, the order of the list.
MarkFavorite ==
    /\ doing = "idle" /\ current # None
    /\ LET d == <<"favorite", chan[current]>>
       IN  \/ ~fav[current] /\ Set(d) /\ doing' = "flag"
           \/ fav[current] /\ Unset(d) /\ doing' = "flag"
           \/ ~fav[current] /\ SetFails(d) /\ UNCHANGED doing
           \/ fav[current] /\ UnsetFails(d) /\ UNCHANGED doing
    /\ UNCHANGED <<entries, list, adding, rows, current, restarts, gone, long>>

\* Mutant: the list is not sorted again.
FlagOnly ==
    /\ doing = "flag"
    /\ fav' = [fav EXCEPT ![current] = ~ @] /\ doing' = "idle"
    /\ UNCHANGED <<data, made, chan, list, adding, rows, current, faults, restarts,
                   gone, long>>

Flag ==
    /\ doing = "flag"
    /\ fav' = [fav EXCEPT ![current] = ~ @] /\ doing' = "sort"
    /\ UNCHANGED <<data, made, chan, list, adding, rows, current, faults, restarts,
                   gone, long>>

SortChannels ==
    /\ doing = "sort" /\ doing' = "idle"
    /\ SortInto(Listed(list))
    /\ rows' = Listed(list)
    /\ UNCHANGED <<data, entries, adding, current, faults, restarts, gone>>

\* delChannel, which finds the entry by the channel.
Unlist(c) ==
    /\ \/ ~InList(c) /\ UNCHANGED list
       \/ \E i \in DOMAIN list :
             /\ chan[list[i]] = c
             /\ list' = SubSeq(list, 1, i - 1) \o SubSeq(list, i + 1, Len(list))
    /\ gone' = gone \cup {c} /\ current' = None

\* The confirmed dialog that deletes the open chat.  The deletion of the
\* record in the database may fail on its own (it is not found, for one).
DeleteChat ==
    /\ doing = "idle" /\ current # None
    /\ LET c == chan[current] IN
       \/ /\ Set(<<"deleted", c>>)
          /\ Unlist(c) \/ UNCHANGED <<list, gone, current>>
       \/ SetFails(<<"deleted", c>>) /\ UNCHANGED <<list, gone, current>>
    /\ UNCHANGED <<entries, adding, rows, doing, restarts, long>>

\* The buttons of the participants of the open chat.
BlockParticipant(u) ==
    /\ doing = "idle" /\ current # None
    /\ LET d == <<"blocked", u>>
       IN  Set(d) \/ SetFails(d) \/ Unset(d) \/ UnsetFails(d)
    /\ UNCHANGED <<entries, list, adding, rows, current, doing, restarts, gone, long>>

-----------------------------------------------------------------------------

\* The client stops at any time and starts again from the file.
Restart ==
    /\ restarts < MaxRestarts /\ restarts' = restarts + 1
    /\ ld' = saved
    /\ UNCHANGED <<saved, told, failed, faults>>
    /\ made' = 0 /\ chan' = NoChannels /\ fav' = NoMarks
    /\ list' = <<>> /\ adding' = NothingAdded /\ rows' = {}
    /\ current' = None /\ doing' = "idle"
    /\ gone' = {} /\ long' = FALSE

Goroutines ==
    \E g \in Adders :
        \/ \E c \in Channels : Make(g, c)
        \/ AddChannel(g) \/ AddWhileFlag(g)

Window ==
    \/ Redraw \/ Open \/ Leave \/ SaveOther
    \/ MarkFavorite \/ Flag \/ SortChannels
    \/ DeleteChat \/ \E u \in Users : BlockParticipant(u)

Next == Goroutines \/ Window \/ Restart

Spec == Init /\ [][Next]_vars

-----------------------------------------------------------------------------
(* Properties. *)

\* Every variable has its type, and nothing refers to an entry not yet made.
TypeOK ==
    /\ saved \subseteq Decisions /\ ld \subseteq Decisions
    /\ told \subseteq Decisions /\ failed \subseteq Decisions
    /\ made \in 0..MaxObjects
    /\ chan \in [Objects -> Channels \cup {NoChannel}]
    /\ \A o \in Objects : chan[o] = NoChannel <=> o > made
    /\ fav \in [Objects -> BOOLEAN]
    /\ list \in Seq(1..made) /\ rows \subseteq 1..made
    /\ adding \in [Adders -> 0..made] /\ current \in 0..made
    /\ doing \in {"idle", "flag", "sort"} /\ (current = None => doing = "idle")
    /\ faults \in 0..MaxFaults /\ restarts \in 0..MaxRestarts
    /\ gone \subseteq Channels /\ long \in BOOLEAN

Favorite(o) == <<"favorite", chan[o]>> \in ld

\* The entries whose mark local data has in the file too, and that were in the
\* list without a break.
Undisturbed(o) == chan[o] \notin gone /\ <<"favorite", chan[o]>> \notin failed

\* The page has a channel once, the favourites of local data first and then by
\* time, whoever adds, marks and sorts at once (channels.go:47-55, 91-117,
\* windows_render.go:89-98).  Left out are channels deleted in this run, which
\* may come back with an old mark or be marked through a row that still opens
\* the old entry; a mark whose save failed; and, when the list is so long that
\* the sort by marks forgets the one by time, the order by time.
ListInOrder ==
    doing = "idle" =>
        \A i, j \in DOMAIN list : i < j =>
            /\ chan[list[i]] # chan[list[j]]
            /\ (Undisturbed(list[i]) /\ Undisturbed(list[j])) =>
                  /\ Favorite(list[j]) => Favorite(list[i])
                  /\ (Favorite(list[i]) <=> Favorite(list[j])) /\ ~long
                        => list[i] < list[j]

\* A decision that the user was told of is what the next start finds, though
\* other dialogs fail or write everything along.  It is not for one whose last
\* write failed: that is carried out by the next save of something else, and
\* taking it back a second time succeeds without a write (client.go:232-237,
\* 294-299); setting it a second time is enough.
ToldIsSaved == \A d \in Decisions \ failed : d \in told <=> d \in saved
=============================================================================
