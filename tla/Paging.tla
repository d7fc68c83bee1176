------------------------------- MODULE Paging -------------------------------
(***************************************************************************)
(* What the user sees of one chat: its last page, the older messages that  *)
(* scrolling to the top adds, the new ones that the listeners add at the   *)
(* bottom, and the messages that contain a text, found from the newest to  *)
(* the oldest, a page at a time.                                           *)
(*                                                                         *)
(* A message is named by its index in the log of the database, 0, 1, 2 ... *)
(* The chat and the search each have a container, and an index (start)     *)
(* from which the next scroll goes on; 0 also says that nothing is left.   *)
(* A goroutine (runMessagesListener) loads the last page while the user    *)
(* may already scroll.  The user leaves the chat when it has been loaded.  *)
(*                                                                         *)
(* Then it starts the listeners (runMessagesListenerOnConnection).  Each   *)
(* looks up a message, stores it, relays it and shows it, with the steps   *)
(* of the others, of the loader and of the user in between: two may have   *)
(* looked up the same message, they show what they stored in any order, a  *)
(* failed relay keeps from the screen what is in the log, and one that is  *)
(* busy when the user leaves goes on, perhaps after the chat is open again.*)
(* Which messages they get, and how, is the matter of MessageListener and  *)
(* of ChatSession; here they disturb what pages and scrolls build.         *)
(*                                                                         *)
(* The names that every specification has begin with Page here, so that    *)
(* the proofs can extend this module beside MessageListener.               *)
(***************************************************************************)
EXTENDS Integers, Sequences, FiniteSets

CONSTANTS
    Listeners,   \* goroutines of this chat's sessions, one per connection
    PageSize,    \* consts.CountMessagesPerPage
    MaxCount     \* bound on the messages of the chat

ASSUME PageSizeAssumption == PageSize \in Nat \ {0}
ASSUME MaxCountAssumption == MaxCount \in Nat

LogIndices == 0..(MaxCount - 1)

VARIABLES
    count,       \* messages in the log of the chat
    view,        \* the content of the window: the chat, the search page before
                 \* and after a text was entered, or something else
    loader,      \* runMessagesListener: its place, counter and index
    filter,      \* the messages that contain the text searched for last
    hand,        \* hand[l]   : what listener l is doing with a message
    screen,      \* screen[v] : the messages in container v, from top to bottom, with
                 \* who put them there: a page or scroll, a listener of the session,
                 \* or one of a session that had been left (late)
    start,       \* start[v]  : its startIndexReader
    seen         \* seen[v]   : the messages its scroller has read (s.messages)

pageVars == <<count, view, loader, filter, hand, screen, start, seen>>

Views == {"chat", "search"}
Idle  == [pc |-> "idle", counter |-> 0, index |-> 0]

\* A listener without a message; with one (got), that was not in the log of the
\* database when this had `index' messages; or with one that is there, at `index'
\* (stored).  left: its session has ended.
Free  == [pc |-> "idle", index |-> 0, left |-> FALSE]
Hands == [pc : {"idle", "got"}, index : 0..MaxCount, left : BOOLEAN]
         \cup [pc : {"stored"}, index : LogIndices, left : BOOLEAN]

Entries == [index : LogIndices, by : {"page", "listener", "late"}]

PageInit ==
    /\ count \in 0..MaxCount
    /\ view = "other" /\ loader = Idle /\ filter = {}
    /\ hand = [l \in Listeners |-> Free]
    /\ screen = [v \in Views |-> <<>>]
    /\ start = [v \in Views |-> 0]
    /\ seen = [v \in Views |-> {}]

Loading == loader.pc \in {"count", "page"}

-----------------------------------------------------------------------------
\* clearAfterSwitch, which also ends the session, then the content.  A listener
\* that has a message goes on with it.
SwitchTo(v) ==
    /\ ~ Loading
    /\ view' = v
    /\ hand' = [l \in Listeners |->
                   IF hand[l].pc = "idle" THEN Free ELSE [hand[l] EXCEPT !.left = TRUE]]
    /\ screen' = [u \in Views |-> <<>>]
    /\ start' = [u \in Views |-> 0]
    /\ seen' = [u \in Views |-> {}]

OpenChat == SwitchTo("chat") /\ loader' = [Idle EXCEPT !.pc = "count"]
            /\ UNCHANGED <<count, filter>>
OpenSearch == /\ view = "chat" /\ SwitchTo("input") /\ loader' = Idle
              /\ UNCHANGED <<count, filter>>
Leave == /\ view # "other" /\ SwitchTo("other") /\ loader' = Idle
         /\ UNCHANGED <<count, filter>>

\* Mutant: scrolling starts with the oldest message of the page.
LoadCountAtPage ==
    LET first == IF count > PageSize THEN count - PageSize ELSE 0 IN
    /\ loader.pc = "count"
    /\ loader' = [pc |-> "page", counter |-> count, index |-> first]
    /\ start' = [start EXCEPT !["chat"] = first]
    /\ UNCHANGED <<count, view, filter, hand, screen, seen>>

LoadCount ==
    LET first == IF count > PageSize THEN count - PageSize ELSE 0 IN
    /\ loader.pc = "count"
    /\ loader' = [pc |-> "page", counter |-> count, index |-> first]
    /\ start' = [start EXCEPT !["chat"] = IF first = 0 THEN 0 ELSE first - 1]
    /\ UNCHANGED <<count, view, filter, hand, screen, seen>>

\* The messages of the last page, one after the other, then the listeners.
LoadMessage ==
    /\ loader.pc = "page"
    /\ IF loader.index < loader.counter
       THEN /\ loader' = [loader EXCEPT !.index = @ + 1]
            /\ screen' = [screen EXCEPT !["chat"] =
                            Append(@, [index |-> loader.index, by |-> "page"])]
       ELSE loader' = [loader EXCEPT !.pc = "listen"] /\ UNCHANGED screen
    /\ UNCHANGED <<count, view, filter, hand, start, seen>>

-----------------------------------------------------------------------------
(* The listeners. *)

\* A message arrives that GetMessage does not find.
Take(l) ==
    /\ loader.pc = "listen" /\ hand[l].pc = "idle"
    /\ hand' = [hand EXCEPT ![l] = [pc |-> "got", index |-> count, left |-> FALSE]]
    /\ UNCHANGED <<count, view, loader, filter, screen, start, seen>>

\* AddChannelMessage: unless another listener has stored it since, the message
\* becomes the last of the log.
Keep(l) ==
    /\ hand[l].pc = "got"
    /\ \/ /\ count < MaxCount /\ count' = count + 1
          /\ hand' = [hand EXCEPT ![l].pc = "stored", ![l].index = count]
       \/ \E i \in hand[l].index..(count - 1) :
             hand' = [hand EXCEPT ![l].pc = "stored", ![l].index = i] /\ UNCHANGED count
    /\ UNCHANGED <<view, loader, filter, screen, start, seen>>

\* It cannot be decoded, stored or relayed: it is not shown.
GiveUp(l) ==
    /\ hand[l].pc # "idle"
    /\ hand' = [hand EXCEPT ![l] = Free]
    /\ UNCHANGED <<count, view, loader, filter, screen, start, seen>>

\* It has been relayed, and goes to the bottom of the chat's container, whichever
\* session that is for by now.
Show(l) ==
    /\ hand[l].pc = "stored"
    /\ screen' = [screen EXCEPT !["chat"] =
                     Append(@, [index |-> hand[l].index,
                                by |-> IF hand[l].left THEN "late" ELSE "listener"])]
    /\ hand' = [hand EXCEPT ![l] = Free]
    /\ UNCHANGED <<count, view, loader, filter, start, seen>>

-----------------------------------------------------------------------------
\* The lowest index that is read when one goes down from index s until `enough'
\* messages of W have been read, or down to 0.
Down(s, W, enough) ==
    CHOOSE e \in 0..s :
        /\ Cardinality(W \cap (e..s)) = enough \/ e = 0
        /\ \A x \in (e + 1)..s : Cardinality(W \cap (x..s)) < enough

\* W from its lowest to its highest member.
Ascending(W) ==
    CHOOSE s \in [1..Cardinality(W) -> W] : \A i, j \in DOMAIN s : i < j => s[i] < s[j]

\* How a search or a scroll adds W.
Page(W) ==
    LET s == Ascending(W) IN [k \in DOMAIN s |-> [index |-> s[k], by |-> "page"]]

\* OnSubmitted: clears the search, reads down from the newest message, and
\* scrolling goes on at the first index that was not read.
\* Mutant: one index further down.
SearchOnePast(found) ==
    LET low == Down(count - 1, found, PageSize)
        read == IF count = 0 THEN {} ELSE low..(count - 1) IN
    /\ view \in {"input", "search"} /\ view' = "search"
    /\ filter' = found
    /\ screen' = [u \in Views |-> IF u = "search" THEN Page(found \cap read) ELSE <<>>]
    /\ start' = [u \in Views |-> IF u = "search" /\ count > 0 /\ low > 1 THEN low - 2 ELSE 0]
    /\ seen' = [u \in Views |-> {}]
    /\ UNCHANGED <<count, loader, hand>>

Search(found) ==
    LET low == Down(count - 1, found, PageSize)
        read == IF count = 0 THEN {} ELSE low..(count - 1) IN
    /\ view \in {"input", "search"} /\ view' = "search"
    /\ filter' = found
    /\ screen' = [u \in Views |-> IF u = "search" THEN Page(found \cap read) ELSE <<>>]
    /\ start' = [u \in Views |-> IF u = "search" /\ count > 0 /\ low > 0 THEN low - 1 ELSE 0]
    /\ seen' = [u \in Views |-> {}]
    /\ UNCHANGED <<count, loader, hand>>

-----------------------------------------------------------------------------
Wanted(v) == IF v = "chat" THEN LogIndices ELSE filter

\* Mutant: with exactly PageSize left the first message is not read.
UnreadButFirst(v) ==
    IF start[v] = 0 THEN {}
    ELSE IF start[v] <= PageSize THEN (IF start[v] = PageSize THEN 1 ELSE 0)..start[v]
    ELSE Down(start[v], Wanted(v) \cup seen[v], PageSize)..start[v]

\* Mutant: a message that does not match does not make the page longer.
UnreadUnfiltered(v) ==
    IF start[v] = 0 THEN {}
    ELSE IF start[v] <= PageSize THEN 0..start[v]
    ELSE Down(start[v], LogIndices, PageSize)..start[v]

\* The indices a scroll goes through.  When no more than a page is left, all of
\* it; else as many as make a page: a message that does not match makes the page
\* longer (readUntil goes down with it), one that was seen does not.
Unread(v) ==
    IF start[v] = 0 THEN {}
    ELSE IF start[v] <= PageSize THEN 0..start[v]
    ELSE Down(start[v], Wanted(v) \cup seen[v], PageSize)..start[v]

\* Mutant: start goes down by a page whatever is left.
ScrollPast(v) ==
    /\ view = v
    /\ seen' = [seen EXCEPT ![v] = @ \cup Unread(v)]
    /\ screen' = [screen EXCEPT ![v] = Page((Unread(v) \cap Wanted(v)) \ seen[v]) \o @]
    /\ start' = [start EXCEPT ![v] = @ - PageSize]
    /\ UNCHANGED <<count, view, loader, filter, hand>>

\* OnScrolled, at the top: the unread messages that match are added above, and
\* start follows readUntil, but stays when no more than a page was left.
Scroll(v) ==
    /\ view = v
    /\ seen' = [seen EXCEPT ![v] = @ \cup Unread(v)]
    /\ screen' = [screen EXCEPT ![v] = Page((Unread(v) \cap Wanted(v)) \ seen[v]) \o @]
    /\ start' = [start EXCEPT ![v] =
                    IF @ <= PageSize THEN @
                    ELSE LET low == CHOOSE x \in Unread(v) : x - 1 \notin Unread(v) IN
                         IF low = 0 THEN 0 ELSE low - 1]
    /\ UNCHANGED <<count, view, loader, filter, hand>>

-----------------------------------------------------------------------------
PageNext ==
    \/ OpenChat \/ OpenSearch \/ Leave
    \/ LoadCount \/ LoadMessage
    \/ \E l \in Listeners : Take(l) \/ Keep(l) \/ GiveUp(l) \/ Show(l)
    \/ \E found \in SUBSET (0..(count - 1)) : Search(found)
    \/ \E v \in Views : Scroll(v)

PageSpec == PageInit /\ [][PageNext]_pageVars

-----------------------------------------------------------------------------
(* Properties.                                                             *)

PageTypeOK ==
    /\ count \in 0..MaxCount
    /\ view \in Views \cup {"input", "other"}
    /\ loader \in [pc : {"idle", "count", "page", "listen"},
                   counter : 0..MaxCount, index : 0..MaxCount]
    /\ filter \subseteq LogIndices
    /\ hand \in [Listeners -> Hands]
    /\ screen \in [Views -> Seq(Entries)]
    /\ start \in [Views -> LogIndices \cup {0}]
    /\ seen \in [Views -> SUBSET LogIndices]

\* The messages on a screen are in the order of the log and none is there twice,
\* though the page, the listeners and the scrolls add them at both ends at the same
\* time, and the scrolls may read an index again.  Only two listeners may show
\* theirs in another order, or both the same one; and where a listener of a session
\* that was left puts its message nothing says.
ScreenOrdered ==
    \A v \in Views : \A p, q \in DOMAIN screen[v] :
        LET a == screen[v][p]
            b == screen[v][q] IN
        p < q /\ a.by # "late" /\ b.by # "late" =>
            a.index < b.index \/ (a.by = "listener" /\ b.by = "listener")

\* What the last page, a search and the scrolls have put on the screen.
OnScreen(v) == { screen[v][p].index : p \in { q \in DOMAIN screen[v] : screen[v][q].by = "page" } }

\* What they should: all that was in the log when the page was counted, or when the
\* text was searched for; of the last page, what has been loaded.
Due(v) == IF v = "chat" THEN 0..(loader.index - 1) ELSE filter

Missing(v) == Due(v) \ OnScreen(v)

Shown(v) == view = v /\ (v = "chat" => loader.pc \in {"page", "listen"})

\* Only messages older than all that is there are missing: the page, search results
\* and scrolls join without a gap, whatever the listeners store, show or lose.
NoGaps ==
    \A v \in Views : Shown(v) =>
        \A i \in Missing(v), j \in OnScreen(v) : i < j

\* When scrolling adds nothing any more, the user has seen all that was in the log
\* when the chat was opened, or the text searched for, but for one case: the very
\* first message cannot be reached when the pages end just before it, for then the
\* index at which to go on, 0, says that nothing is left.
EndsBeforeFirst(v) ==
    /\ 0 \in Missing(v)
    /\ IF v = "chat" THEN loader.counter = PageSize + 1
       ELSE Len(screen[v]) > 0 /\ Len(screen[v]) % PageSize = 0
EndReached ==
    \A v \in Views :
        Shown(v) /\ start[v] <= PageSize /\ Unread(v) \subseteq seen[v] =>
            Missing(v) = {} \/ (Missing(v) = {0} /\ EndsBeforeFirst(v))

\* Until the end is reached a scroll adds at least a full page, however many
\* messages in between do not match.
FullPages ==
    [][\A v \in Views :
          Shown(v) /\ Scroll(v) =>
              Len(screen'[v]) >= Len(screen[v]) + PageSize \/ (Missing(v)' \subseteq {0})]_pageVars
=============================================================================
