---------------------------- MODULE ChatSession ----------------------------
(***************************************************************************)
(* The chat page of the client (windows_render.go, main.go): opening and   *)
(* leaving chats, the goroutines an open chat has, and what they put on    *)
(* the screen.                                                             *)
(*                                                                         *)
(* Opening a chat starts a session (runMessagesListener): a waiter that is *)
(* to stop it, a loader that shows the last page and then starts one       *)
(* listener per server.  Leaving the chat sends on closeListenChat, an     *)
(* unbuffered channel, if chatListenerActive says that a waiter waits; the *)
(* flag is a plain variable that every waiter writes.  Everything that is  *)
(* shown goes through fyne.Do, a queue that the window thread works off,   *)
(* into the one container that all chats use.                              *)
(*                                                                         *)
(* The logs of the servers are the environment: a listener may be handed   *)
(* any message of its chat that it has not passed.  The order on the       *)
(* screen and the size of a page are the matter of Paging.                 *)
(***************************************************************************)
EXTENDS Naturals

CONSTANTS Chats, Messages, Servers,
          ChatOf,       \* the chat of a message
          NoChat, NoMessage,
          Page,         \* the loader, as the origin of an item
          MaxSessions,  \* how many times the user opens a chat
          MaxFaults     \* failed writes, reads and pushes

ASSUME ChatSessionAssumption ==
    /\ ChatOf \in [Messages -> Chats]
    /\ NoChat \notin Chats /\ NoMessage \notin Messages
    /\ Page \notin Servers
    /\ MaxSessions \in Nat /\ MaxFaults \in Nat

Sessions == 1..MaxSessions
Items == Sessions \X (Servers \cup {Page}) \X Messages
MessagesOf(c) == { m \in Messages : ChatOf[m] = c }

VARIABLES
    window,     \* "idle", or "blocked" in the send on closeListenChat
    next,       \* the chat a blocked window is about to open, NoChat: no chat
    view,       \* the session on the screen, 0 on any other page
    current,    \* currentChatChannel
    active,     \* chatListenerActive
    chat,       \* the chat of each session
    waiter,     \* "none", "new", "wait", "received", "off", "done"
    loader,     \* "none", "count", "page", "listen", "failed"
    page,       \* what the loader has yet to show
    pc, msg,    \* each listener: "off", "poll", "got", "relay"
    passed,     \* the messages below its counter that it failed to store
    stored,     \* the messages in the database of the client
    queue,      \* the closures given to fyne.Do
    shown,      \* the objects in the container of the chat page
    text,       \* where a text was entered that is not sent yet
    faults,
    hasty,      \* history: the user switched before the goroutines were ready
    astray,     \* history: texts sent elsewhere than where they were entered
    raced,      \* history: messages that two listeners stored
    quiet,      \* history: messages stored and, for a failed push, not shown
    carried     \* history: items ready to be shown when their session ended

windowVars == <<window, next, view, current>>
waiterVars == <<active, waiter>>
listeners  == <<pc, msg, passed>>
textVars   == <<text, astray>>
vars == <<windowVars, waiterVars, chat, loader, page, listeners, stored, queue,
          shown, textVars, faults, hasty, raced, quiet, carried>>

Init ==
    /\ window = "idle" /\ next = NoChat /\ view = 0 /\ current = NoChat
    /\ active = FALSE
    /\ chat = [k \in Sessions |-> NoChat]
    /\ waiter = [k \in Sessions |-> "none"]
    /\ loader = [k \in Sessions |-> "none"]
    /\ page = [k \in Sessions |-> {}]
    /\ pc = [k \in Sessions |-> [s \in Servers |-> "off"]]
    /\ msg = [k \in Sessions |-> [s \in Servers |-> NoMessage]]
    /\ passed = [k \in Sessions |-> [s \in Servers |-> {}]]
    /\ stored \in SUBSET Messages
    /\ queue = {} /\ shown = {}
    /\ text = NoChat
    /\ faults = 0
    /\ hasty = FALSE /\ astray = {} /\ raced = {} /\ quiet = {} /\ carried = {}

Cancelled(k) == waiter[k] = "done"

-----------------------------------------------------------------------------
(* The window thread. *)

\* A waiter that has not set the flag yet, or has yet to take it back, and a
\* text whose goroutine has not read its target: the steps of goroutines
\* that were started and need no other party.
Unsettled ==
    \/ \E k \in Sessions : waiter[k] \in {"new", "received"}
    \/ text # NoChat

\* The session that a chat gets when it is opened.
IsNext(n) == waiter[n] = "none" /\ (n > 1 => waiter[n - 1] # "none")

\* The end of set...Content, after clearAfterSwitch, which leaves the waiters
\* as in w: a chat becomes the current one and gets a session; any other page
\* keeps the current chat.
Enter(c, w) ==
    \/ /\ c = NoChat
       /\ view' = 0 /\ waiter' = w
       /\ UNCHANGED <<current, chat, loader>>
    \/ \E n \in Sessions :
          /\ c \in Chats /\ IsNext(n)
          /\ view' = n /\ current' = c
          /\ chat' = [chat EXCEPT ![n] = c]
          /\ waiter' = [w EXCEPT ![n] = "new"]
          /\ loader' = [loader EXCEPT ![n] = "count"]

\* clearAfterSwitch empties the container.  Whether a waiter has to be told,
\* it knows from the flag alone; if so, the window is blocked until one
\* receives.
SwitchTo(c) ==
    /\ window = "idle"
    /\ c \in Chats => view = 0 /\ \E n \in Sessions : waiter[n] = "none"
    /\ shown' = {} /\ hasty' = (hasty \/ Unsettled)
    /\ \/ ~active /\ Enter(c, waiter) /\ UNCHANGED <<window, next>>
       \/ /\ active /\ window' = "blocked" /\ next' = c /\ view' = 0
          /\ UNCHANGED <<current, chat, waiter, loader>>
    /\ UNCHANGED <<active, page, listeners, stored, queue, textVars, faults,
                   raced, quiet, carried>>

\* Send and receive are one event, and the window goes on.
Rendezvous(k) ==
    /\ window = "blocked" /\ waiter[k] = "wait"
    /\ window' = "idle" /\ next' = NoChat
    /\ Enter(next, [waiter EXCEPT ![k] = "received"])
    /\ UNCHANGED <<active, page, listeners, stored, queue, shown, textVars,
                   faults, hasty, raced, quiet, carried>>

\* A closure given to fyne.Do runs: addMessageToChat.
ShowNext ==
    /\ window = "idle"
    /\ \E i \in queue : queue' = queue \ {i} /\ shown' = shown \cup {i}
    /\ UNCHANGED <<windowVars, waiterVars, chat, loader, page, listeners, stored,
                   textVars, faults, hasty, raced, quiet, carried>>

-----------------------------------------------------------------------------
(* The waiter of a session. *)

WaiterStart(k) ==
    /\ waiter[k] = "new"
    /\ active' = TRUE /\ waiter' = [waiter EXCEPT ![k] = "wait"]
    /\ UNCHANGED <<windowVars, chat, loader, page, listeners, stored, queue,
                   shown, textVars, faults, hasty, raced, quiet, carried>>

\* Mutant: the flag is not taken back.
WaiterOffKeeping(k) ==
    /\ waiter[k] = "received"
    /\ waiter' = [waiter EXCEPT ![k] = "off"]
    /\ UNCHANGED <<windowVars, active, chat, loader, page, listeners, stored,
                   queue, shown, textVars, faults, hasty, raced, quiet, carried>>

WaiterOff(k) ==
    /\ waiter[k] = "received"
    /\ active' = FALSE /\ waiter' = [waiter EXCEPT ![k] = "off"]
    /\ UNCHANGED <<windowVars, chat, loader, page, listeners, stored, queue,
                   shown, textVars, faults, hasty, raced, quiet, carried>>

\* The context is cancelled.  The loader does not look at it, and what was
\* given to the window stays with it.
WaiterCancel(k) ==
    /\ waiter[k] = "off"
    /\ waiter' = [waiter EXCEPT ![k] = "done"]
    /\ carried' = carried \cup
                     { i \in queue \cup shown : i[1] = k /\ i[2] # Page }
    /\ UNCHANGED <<windowVars, active, chat, loader, page, listeners, stored,
                   queue, shown, textVars, faults, hasty, raced, quiet>>

-----------------------------------------------------------------------------
(* The loader of a session. *)

LoadCount(k) ==
    /\ loader[k] = "count"
    /\ loader' = [loader EXCEPT ![k] = "page"]
    /\ page' = [page EXCEPT ![k] = stored \cap MessagesOf(chat[k])]
    /\ quiet' = IF k = view THEN quiet \ page'[k] ELSE quiet
    /\ UNCHANGED <<windowVars, waiterVars, chat, listeners, stored, queue, shown,
                   textVars, faults, hasty, raced, carried>>

LoadMessage(k) ==
    /\ loader[k] = "page"
    /\ \E m \in page[k] :
          /\ page' = [page EXCEPT ![k] = @ \ {m}]
          /\ queue' = queue \cup {<<k, Page, m>>}
    /\ UNCHANGED <<windowVars, waiterVars, chat, loader, listeners, stored, shown,
                   textVars, faults, hasty, raced, quiet, carried>>

\* A read of the database fails: the session gets no listeners.
LoadFails(k) ==
    /\ loader[k] \in {"count", "page"} /\ faults < MaxFaults
    /\ faults' = faults + 1
    /\ loader' = [loader EXCEPT ![k] = "failed"]
    /\ page' = [page EXCEPT ![k] = {}]
    /\ UNCHANGED <<windowVars, waiterVars, chat, listeners, stored, queue, shown,
                   textVars, hasty, raced, quiet, carried>>

StartListeners(k) ==
    /\ loader' = [loader EXCEPT ![k] = "listen"]
    /\ pc' = [pc EXCEPT ![k] = [s \in Servers |-> "poll"]]
    /\ UNCHANGED <<windowVars, waiterVars, chat, page, msg, passed, stored, queue,
                   shown, textVars, faults, hasty, raced, quiet, carried>>

\* Mutant: the listeners do not wait for the page.
LoadDoneEarly(k) == loader[k] = "page" /\ StartListeners(k)

LoadDone(k) == loader[k] = "page" /\ page[k] = {} /\ StartListeners(k)

-----------------------------------------------------------------------------
(* The listener of session k on server s. *)

\* The listener is at the head of its loop again, or through with a message.
Continue(k, s) ==
    /\ pc' = [pc EXCEPT ![k][s] = "poll"]
    /\ msg' = [msg EXCEPT ![k][s] = NoMessage]

\* Mutant: the database is not asked.
ReceiveUnchecked(k, s) ==
    /\ pc[k][s] = "poll" /\ ~Cancelled(k)
    /\ \E m \in MessagesOf(chat[k]) \ passed[k][s] :
          msg' = [msg EXCEPT ![k][s] = m]
    /\ pc' = [pc EXCEPT ![k][s] = "got"]
    /\ UNCHANGED <<windowVars, waiterVars, chat, loader, page, passed, stored, queue,
                   shown, textVars, faults, hasty, raced, quiet, carried>>

\* ListenMessage returns a message that the database does not have.  The
\* counter passes it, so that it is not asked for again if it is not stored.
Receive(k, s) ==
    /\ pc[k][s] = "poll" /\ ~Cancelled(k)
    /\ \E m \in MessagesOf(chat[k]) \ (passed[k][s] \cup stored) :
          msg' = [msg EXCEPT ![k][s] = m]
    /\ pc' = [pc EXCEPT ![k][s] = "got"]
    /\ UNCHANGED <<windowVars, waiterVars, chat, loader, page, passed, stored, queue,
                   shown, textVars, faults, hasty, raced, quiet, carried>>

\* AddChannelMessage, which returns nil for a message that is there already.
Store(k, s) ==
    /\ pc[k][s] = "got"
    /\ stored' = stored \cup {msg[k][s]}
    /\ raced' = raced \cup (stored \cap {msg[k][s]})
    /\ pc' = [pc EXCEPT ![k][s] = "relay"]
    /\ UNCHANGED <<windowVars, waiterVars, chat, loader, page, msg, passed, queue,
                   shown, textVars, faults, hasty, quiet, carried>>

StoreFails(k, s) ==
    /\ pc[k][s] = "got" /\ faults < MaxFaults
    /\ faults' = faults + 1
    /\ passed' = [passed EXCEPT ![k][s] = @ \cup {msg[k][s]}]
    /\ Continue(k, s)
    /\ UNCHANGED <<windowVars, waiterVars, chat, loader, page, stored, queue,
                   shown, textVars, hasty, raced, quiet, carried>>

\* Mutant: the push does not depend on the context.
RelayAnyway(k, s) ==
    /\ pc[k][s] = "relay"
    /\ queue' = queue \cup {<<k, s, msg[k][s]>>}
    /\ Continue(k, s)
    /\ UNCHANGED <<windowVars, waiterVars, chat, loader, page, passed, stored,
                   shown, textVars, faults, hasty, raced, quiet, carried>>

\* pushRemoteMessage: a push was accepted, for which the context is needed;
\* then the message is given to the window, for which it is not.
Relay(k, s) ==
    /\ pc[k][s] = "relay" /\ ~Cancelled(k)
    /\ queue' = queue \cup {<<k, s, msg[k][s]>>}
    /\ Continue(k, s)
    /\ UNCHANGED <<windowVars, waiterVars, chat, loader, page, passed, stored,
                   shown, textVars, faults, hasty, raced, quiet, carried>>

\* Every push failed, as they do after the cancellation: the message is not
\* shown.
RelayFails(k, s) ==
    /\ pc[k][s] = "relay"
    /\ \/ Cancelled(k) /\ UNCHANGED faults
       \/ ~Cancelled(k) /\ faults < MaxFaults /\ faults' = faults + 1
    /\ quiet' = quiet \cup {msg[k][s]}
    /\ Continue(k, s)
    /\ UNCHANGED <<windowVars, waiterVars, chat, loader, page, passed, stored,
                   queue, shown, textVars, hasty, raced, carried>>

ListenerEnds(k, s) ==
    /\ pc[k][s] = "poll" /\ Cancelled(k)
    /\ pc' = [pc EXCEPT ![k][s] = "off"]
    /\ passed' = [passed EXCEPT ![k][s] = {}]
    /\ UNCHANGED <<windowVars, waiterVars, chat, loader, page, msg, stored, queue,
                   shown, textVars, faults, hasty, raced, quiet, carried>>

-----------------------------------------------------------------------------
(* Texts.  The goroutine that pushes a text reads the current chat when it  *)
(* runs.                                                                    *)

EnterText ==
    /\ window = "idle" /\ view # 0 /\ text = NoChat
    /\ text' = chat[view]
    /\ UNCHANGED <<windowVars, waiterVars, chat, loader, page, listeners, stored,
                   queue, shown, astray, faults, hasty, raced, quiet, carried>>

SendText ==
    /\ text # NoChat
    /\ text' = NoChat
    /\ astray' = astray \cup { t \in {<<text, current>>} : text # current }
    /\ UNCHANGED <<windowVars, waiterVars, chat, loader, page, listeners, stored,
                   queue, shown, faults, hasty, raced, quiet, carried>>

-----------------------------------------------------------------------------

Waiter(k) == WaiterStart(k) \/ WaiterOff(k) \/ WaiterCancel(k)
Loader(k) == LoadCount(k) \/ LoadMessage(k) \/ LoadFails(k) \/ LoadDone(k)
Listener(k, s) ==
    \/ Receive(k, s) \/ Store(k, s) \/ StoreFails(k, s)
    \/ Relay(k, s) \/ RelayFails(k, s) \/ ListenerEnds(k, s)

Next ==
    \/ \E c \in Chats \cup {NoChat} : SwitchTo(c)
    \/ \E k \in Sessions : Rendezvous(k) \/ Waiter(k) \/ Loader(k)
    \/ \E k \in Sessions, s \in Servers : Listener(k, s)
    \/ ShowNext \/ EnterText \/ SendText

Spec == Init /\ [][Next]_vars

-----------------------------------------------------------------------------
(* Properties. *)

\* Every variable of the window and of its goroutines has its type.
TypeOK ==
    /\ window \in {"idle", "blocked"} /\ next \in Chats \cup {NoChat}
    /\ view \in Sessions \cup {0} /\ current \in Chats \cup {NoChat}
    /\ active \in BOOLEAN
    /\ chat \in [Sessions -> Chats \cup {NoChat}]
    /\ waiter \in [Sessions -> {"none", "new", "wait", "received", "off", "done"}]
    /\ loader \in [Sessions -> {"none", "count", "page", "listen", "failed"}]
    /\ page \in [Sessions -> SUBSET Messages]
    /\ pc \in [Sessions -> [Servers -> {"off", "poll", "got", "relay"}]]
    /\ msg \in [Sessions -> [Servers -> Messages \cup {NoMessage}]]
    /\ \A k \in Sessions, s \in Servers :
          (msg[k][s] = NoMessage) <=> pc[k][s] \in {"off", "poll"}
    /\ passed \in [Sessions -> [Servers -> SUBSET Messages]]
    /\ stored \subseteq Messages /\ quiet \subseteq stored /\ raced \subseteq stored
    /\ queue \subseteq Items /\ shown \subseteq Items /\ carried \subseteq Items
    /\ text \in Chats \cup {NoChat}
    /\ astray \subseteq Chats \X (Chats \cup {NoChat})
    /\ faults \in 0..MaxFaults /\ hasty \in BOOLEAN

\* A window that waits in clearAfterSwitch has somebody to wait for.
WindowAnswers ==
    window = "blocked" => \E k \in Sessions : waiter[k] \in {"new", "wait"}

\* Every session but the one on the screen, and the one the window is about
\* to stop, has been told to end.
SessionsEnd ==
    LET left == { k \in Sessions \ {view} : waiter[k] \in {"new", "wait"} }
    IN  \A j, k \in left : window = "blocked" /\ j = k

\* A text goes to the chat it was entered in.
TextsArrive == astray = {}

\* While nobody switches before the goroutines of the last steps have started
\* (main.go:144-149, windows_init.go:810), the flag and the channel do what
\* they are for: the window does not hang, no session is left behind, and no
\* text goes astray.
PatientUser == ~hasty => WindowAnswers /\ SessionsEnd /\ TextsArrive

\* What the container shows of a listener whose session has ended was ready
\* when the context was cancelled: nothing received, stored or pushed later
\* appears in the chat opened next (main.go:287-297).  The loader is not
\* bound by it: it shows the whole page of a chat, however late.
StaleWasReady ==
    \A i \in shown : (Cancelled(i[1]) /\ i[2] # Page) => i \in carried

\* Once the page of the open chat is loaded, every stored message of it is on
\* the screen or on its way there, but for those whose push failed since.
ScreenComplete ==
    (view # 0 /\ loader[view] = "listen") =>
        \A m \in (stored \cap MessagesOf(chat[view])) \ quiet :
            \/ \E i \in queue \cup shown : i[3] = m
            \/ \E k \in Sessions, s \in Servers :
                  msg[k][s] = m /\ pc[k][s] = "relay"

\* A session shows a message twice only if two of its listeners asked the
\* database for it before either had stored it (main.go:271, 287): page and
\* listeners do not overlap.
TwiceOnlyIfRaced ==
    \A i, j \in shown :
        (i[1] = j[1] /\ i[3] = j[3] /\ i # j) =>
            i[2] \in Servers /\ j[2] \in Servers /\ i[3] \in raced
=============================================================================
