# A TLA+ model of the messenger

This directory models the stateful core of the messenger — the database of
channels and messages, the listeners that bring messages and channels from the
servers, the relay that makes the servers agree, the start, creation and
deletion of channels, the authorization of sessions, the connections, the list
of channels, and the pages of a chat with the goroutines behind them — as TLA+
modules.  TLC checks them on small instances; TLAPS proves all their safety
properties for every value of the constants.

Paths below are relative to the repository; `main.go`, `client.go`,
`windows_*.go` and `channels.go` are the client application,
`internal/client` its HTTP client, `internal/database` the storage that client
and server share, `fog-server` the server.

    tlc -workers 2 -config ServerStore.cfg MCChannelStore.tla    # a run
    tlapm ChannelStore_proofs.tla                                # proofs


## 1. The system

Servers do not know each other.  A client is connected to several of them; it
creates channels, writes messages, and *pushes each message and each channel to
every server it is connected to*.  Whatever a client receives from one server it
pushes to all of them again (the relay).  A server keeps, for every channel, a
log of messages, and for every participant, a list of channels; clients poll
both by index (long poll: a request waits up to ten seconds for index `i` to
exist).  The client keeps its own copy of both in the same kind of file.

### Components, state, operations

| component | state | operations | hard because |
|---|---|---|---|
| channel and message store (`internal/database/database.go`) | a bbolt key-value file: channel records, message records, an indexed list of channels per participant, an indexed log of messages per channel; one `sync.RWMutex` | `SetChannel`, `AddChannelMessage`, `DelChannel`, `GetChannelMessageHashByIndex`, `GetMessage`, counts | an operation is several atomic writes and nothing makes them atomic together: any write may fail, the program may stop in between, `DelChannel` runs under the *shared* lock, and counts, slots and records are read in separate critical sections |
| message listener (`main.go:204-300`, `binarySearchCounter` 582-609) | per open chat and connection: interval of a bisection, counter, message in hand | search the boundary between known and unknown messages, long poll, store, relay, display | the log grows while it is searched; other listeners fill the same database from logs in another order; the counter moves before the message is stored; a closed chat leaves a goroutine with a message in its hands |
| message synchronisation (`pushRemoteMessage`, handlers of `fog-server/handlers.go`) | the log of every server, the database of every client, who still has to push what | send, push, relay, open and close a chat | pushes may fail or be carried out without an answer, a crash may stop an author between two servers |
| channel synchronisation (`main.go:84-140, 302-465`, `windows_init.go`, `client.go`, `channels.go`) | the lists of the servers, the client's records, index and list of deleted channels and blocked users, the channels in its window | start, listen, create, delete, block | each takes several requests and writes in its own goroutine on the same channel, each step may fail or be refused for good, the application may stop anywhere and starts from what the file says |
| registration and authorization (`handleClientInit`, `handleAuth`, `GetSecretKey`, `Auth`) | server: secret key in file and memory, known users, one pending task per *user*; session: one token, one mutex | register, two-request exchange | tasks are forgotten by a restart and replaced by another session's or a late request; goroutines meet in `TryLock` |
| paging and search of a chat (`windows_init.go:56-107, 931-1013`, `main.go:143-191`) | messages on the screen, index of the next older one, messages already read | load the last page, scroll, search | several bounds with 0 as a special value; a goroutine loads while the user scrolls, and listeners add messages out of order, twice, late or not at all |
| chat session (`windows_render.go:172-292`, `main.go:142-211, 253-299`, `windows_init.go:805-818`) | the open chat, the close channel and its flag, the goroutines of every chat that was opened, the queue of the window thread, the container of the chat page | switch chats, load, receive, display, send | a plain flag that every waiter writes, an unbuffered channel, closures that draw later, globals read late, two listeners with the same message |
| connections (`client.go:48-125, 176-208`, `main.go:122-140, 302-315, 488-526`, `windows_init.go:582-682`) | connections in the file, in memory and as objects; two loops with their goroutines and the identifiers they have seen | add, delete, save anything, start | memory changes before the file and the list only after it; loops that never forget; goroutines that keep the object they began with |
| list of channels and decisions of the user (`channels.go`, `client.go:156-302`, `windows_render.go:79-133`, `windows_init.go:151-248, 864-886`) | the sorted list, a copy of the favourite mark in each entry, favourites, deleted channels and blocked users in memory and file, the rows that are drawn | add, mark, delete, block, sort, redraw | mark in memory, mark in the file, mark in the entry and position change one after the other while goroutines add and sort; a failed save is carried out later |
| cryptography, encoding, HTTP plumbing, layout, log, downloader | — | — | pure conversions and presentation; not modelled |

### How the parts meet

- Goroutines of one client (one listener per connection and kind, one per send
  or creation, the window thread) share its database, its memory and its list of
  channels; they meet only through them, not through messages.
- HTTP handlers of a server run concurrently and share its database.
- Clients and servers meet through requests that may fail before or after they
  were carried out.  There is no other retry than the loops of the listeners.
- A restart keeps the file and loses everything else.

### What makes each part right

- Store: a log or list never has holes, repetitions or dangling entries;
  something accepted is listed unless a fault struck inside the operation; an
  index once seen can be read; a deletion is completed.
- Listener: no message is skipped unless another connection or a failed write
  explains it; the search stays within the log; what is posted is delivered.
- Message synchronisation: everybody with an open chat gets everything, and the
  relay brings every server what one of them has.
- Channel synchronisation: what is stored is published, listed and shown, unless a
  channel is refused for what it is; what is deleted stays deleted; an interrupted
  operation never blocks the next start.
- Authorization: a session gets in, gets one token, and the token stays valid.
- Paging: page, searches and scrolls are in order and without gaps, whatever the
  listeners do meanwhile, and scrolling reaches the beginning.
- Chat session: the window never hangs, a session that was left ends, a text goes
  where it was entered, and what is stored of the open chat is on the screen, once.
- Connections: file, memory and list agree; each connection has its goroutines
  once, with the object everything else uses, and they follow what is added and
  deleted.
- List of channels: a channel is in it once, favourites first and then by time;
  what the user was told is in the file.

`PROJECT.json` lists the components with their sources, the hazards with the
line where each bites and the properties that cover it, and for every
definition the lines it models.


## 2. The modules

| module | models | composed of |
|---|---|---|
| `MessageLog` | what a database promises: per channel an append-only log without repetitions, until the channel is retired | abstract specification |
| `ChannelStore` | `internal/database/database.go`, one step per write | implements `MessageLog` (property `ImplementsMessageLog`) |
| `MessageListener` | one listener of one client against one growing log | — |
| `MessageSync` | clients, servers, pushes and relays of one channel | every listener in it implements `MessageListener` (`ListenersConform`); relies on `MessageLog` |
| `ChannelSync` | the channels of one client and its servers | relies on the list properties of `ChannelStore` |
| `Authorization` | sessions and one server | — |
| `Paging` | one chat on the screen | reads a log as `MessageLog` promises |
| `ChatSession` | the chat page and the goroutines of the chats that were opened | what a listener is handed is the matter of `MessageListener`, the order on the screen of `Paging` |
| `Connections` | three copies of the connections, two loops | the connections that the other modules hold fixed |
| `ChannelList` | the list on the main page, decisions in `local.data` | how a channel comes to be added is the matter of `ChannelSync` |
| `MC*` | constants of the instances TLC checks | |
| `*_proofs` | the theorems and their proofs; those of `MessageListener` and `Paging` are together in `Messages_proofs` | |

Definitions keep the names of the functions they model.  Some definitions have
a variant in front of them marked `Mutant:` — the same code with a plausible
mistake.  They are in no specification; they are there to show that the property
named in `PROJECT.json` under `mutants` notices the mistake.

### ChannelStore

The state is the file (`channels`, `chanSlot`, `chanCount`, `messages`,
`msgSlot`, `msgCount`, `deleted`), the mutex (`writer`, `readers`) and the local
variables of every process.  A process is a goroutine: a handler of the server,
a listener or the window thread of the client.  An operation is a `Call...`
action followed by one action per write of the Go function
(`SetChannelLock/Record/Slot/Count`, `AddMessageLock/Record/Slot/Count`,
`DelChannelLock/Count/Next/Record/Slot/Log/End`); what is read under the
exclusive lock belongs to the action that takes it.  `ListenCount`,
`ListenSlot`, `ListenLoad` are the separate reads of the listen and load
handlers, between which other processes write.  `WriteFails` ends an operation
at any of its writes; `DeleteIgnored` is a `Del` whose error the code ignores;
`Crash` stops every process and keeps the file.  `faults` bounds these three.
Not modelled: that a waiting writer of a Go `RWMutex` stops new readers (it
removes interleavings), and `SetClient`/`GetClient`, one write each.

### MessageListener

`Open` (the size of the log is read), `Probe` and `SearchDone` (the loop of
`binarySearchCounter`, one step per request), `SearchError`, `ListenKnown`,
`ListenNew`, `Store`, `StoreFails`, `Close` and `Crash` are the steps of
`runMessagesListenerOnConnection`.  A write that fails after the record leaves the
record, without slot or count: from then on the message counts as known.  When the chat is closed the context is
cancelled, but a listener that has a message stores it: it moves to `held`, and
`LateStore` puts it into the database at any later time, also when the chat is
open again.  `Post` and `LearnElsewhere` are the rest of the world.  The
variables `elsewhere` and `failed` are history, for the properties only.

### MessageSync

`Send` begins a push (the text goes to the servers `1..NServers` in turn,
`SendNext`; the author does not store its own message, it gets it back from a
server).  `TryPush` is a push: carried out, refused, or carried out with its
answer lost.  `Work(u, s)` are the steps of the listener of `u` on `s`, now with
`Relay`, which pushes what was stored to every server.  A request that fails, a
write that fails, a closed chat and a restart count as `faults`.  The channel is
initialised on all servers and everybody is authorised (`ChannelSync` and
`Authorization` are about that); messages are well-formed, for honest clients
wrote them; `AddChannelMessage` is one step, which `ImplementsMessageLog`
justifies; a push carried out after its client closed the chat is not modelled.

### ChannelSync

`task[t]` is the goroutine `t`: the start of the application (`Main`), one
listener per server, and one creation per channel of one's own.  They share
`PublishTo/Published` (`initRemoteChannel`, requests to all servers in any
order, a success if one of them succeeds or if there is none), `SetChannel` and
`AddIntoList` (`getClientInfo` for each participant, the decoder, then the list).
`StartNext`, `StartLoad`, `StartListeners` are `runChannelsListener`;
`ListenChannel`, `CheckChannel`, `LookupChannel` are the listener, whose check of
the deleted list and use of it are steps apart.  `MarkDeleted`, `DeleteRecord`,
`Unlist` are the deletion dialog, `Block` the block button, `InitLocalClient` the
profile of the client, `Register` the registrations, `OthersInit` what other
participants do.  `saved` is `local.data` in the file and `local` the copy in
memory, which differ when a save fails.  `Restart` keeps the file.

A channel may get stuck without any fault.  A server stores it only when it knows
who asks and who is its author (`Accepts`).  A participant whom neither the file
nor a server knows cannot be loaded (`Known`, `LoadFails`), until it registers.
The decoder refuses names that the encoder let pass (`BadNames`, `NameRefused`).
Nobody keeps the author from picking a participant twice, so `EncList` is any
sequence with the author once and first, and `SetChannel` lists the channel once
for each entry of the client (`Named`, `Entries`); a write that fails, or the end
of the process, leaves the first few of them or only the record (`WriteTorn`).
`refused` remembers, until the next start, which channels did not get into the
window without a fault.

The connections are fixed, and there may be none.  `Early` are the registrations
there may be at the beginning and `Late` the clients that may register later, in
any order.  A registration that is tried again until it succeeds has no fairness
here: a server the client is not known to yet does not answer its listener.

### Authorization

A session runs `initRemoteClient` (goroutine `client`: register, then `Auth`,
again until it succeeds) and `initRemoteChannel` (goroutine `channel`: `Auth`
while another is inside, then the channel).  `TryAuth` is `Auth` with its
`TryLock`; `GetTask` and `PostTask` are the two requests; `NoAnswer` is all that
may go wrong with one, including that the server handles it after the client
gave up (`late`, `HandleLate`).  `StartServer` is `GetSecretKey`.  A token is
represented by the key it was signed with.  Tasks are random strings of 96
characters in the code, so no two are the same; `Fresh` is a task that nobody
remembers, and may be used again when it is forgotten.  `TasksAssumption` asks for enough of
them: a finite set has more than two for each session.
`Expire` is the day that a token lives.

### Paging

A message is its index in the log.  `LoadCount` and `LoadMessage` are the
goroutine that loads the last page, `Search` the search dialog, `Scroll` the
callback `OnScrolled` of both containers, `SwitchTo` is `clearAfterSwitch`.  The
loops that go down through the log until a page is full are given by what they
read (`Down`, `Unread`).

What a listener does with a message is four steps, each an action: `Take` (the
answer, and the lookup that does not find it), `Keep` (`AddChannelMessage`, which
finds the record if another listener was faster), `GiveUp` (it cannot be decoded,
stored or relayed, and is not shown although it may be in the log) and `Show`.
Any number of them are under way at once, so the bottom of the screen may have
what they stored in another order, twice, or not.  A listener that is busy when
the user leaves goes on, and shows its message in the container whatever it is
used for by then (`left`, `late`).  Every entry on a screen says who put it there,
so that the properties can tell what pages, searches and scrolls build from what
listeners add.

The user leaves a chat only after its page was loaded, and reads of the client's
own file succeed.  Late messages of other chats are in `ChatSession`.  The names
that every specification has begin with `Page` here
(`PageInit`, `PageNext`, `PageSpec`, `PageTypeOK`), for `Messages_proofs` extends
this module beside `MessageListener`, and `EXTENDS` has one namespace.

### ChatSession

`Enter` and `SwitchTo` are `setChatChanContent` and `clearAfterSwitch`: every
opening of a chat is a session `k` with a waiter (`WaiterStart`, `WaiterOff`,
`WaiterCancel`), a loader (`LoadCount`, `LoadMessage`, `LoadFails`, `LoadDone`)
and one listener per server (`Receive`, `Store`, `StoreFails`, `Relay`,
`RelayFails`, `ListenerEnds`).  A window that sends on `closeListenChat` without
a waiter is `"blocked"` until `Rendezvous`.  What is shown passes through
`queue`, the closures given to `fyne.Do`, and `ShowNext` draws one.  `EnterText`
and `SendText` are the two halves of the entry: where the text was entered, and
`currentChatChannel` when its goroutine runs.  `hasty` records that the user
switched before those goroutines had started, which takes microseconds;
`PatientUser` is about users who never do.  `astray`, `raced`, `quiet` and
`carried` are history too.  The servers are the environment: a listener may be
handed any message of its chat that it has not passed.  A page is all of the
chat, an item is drawn in any order.

### Connections

`saved`, `ld` and `list` are `local.data` in the file, in memory, and the objects
in `connects`, numbered in the order in which they are made for an identifier.
`AddConnection` and `DelConnection` are the functions of `client.go` with the
dialog around them; each has a branch in which the save fails after memory has
changed, and `DelConnection` none in which the user hears of it, for the dialog
ignores the error.  `FindConnection` is the branch of the dialog for a connection
that is there already.  `StartGoroutines(l)` is a turn of one of the two loops
over the list, `Check` and `NextRound` the listener for channels, whose only end
is the check at its head, `Register` a registration, which ends by success.
`SaveOther` is any other save, which writes all of `ld`; `Restart` begins from
the file.  The third loop over connections, that of an open chat, is
`StartListeners` of `ChatSession`: the page of connections cannot be reached
without leaving the chat, so this loop never sees the list change.

### ChannelList

An entry is numbered by the time at which it was made.  `Make` is the end of
`addChannelIntoList`: the mark and the time are taken before the lock of the
list, so that `AddChannel` may come after other entries or after a deletion.
`Sorted` is what `_sortChannels` may leave: by time, then by mark, the second
pass keeping the order of the first only in lists of at most `StableLength`
entries (twelve, the length up to which `slices.SortFunc` sorts by insertion).
A confirmed favourite dialog is three steps, `MarkFavorite` (memory and file),
`Flag` (the mark of the entry) and `SortChannels`; `Flag` takes no lock, and
`AddWhileFlag` is the race with a sort, after which the order is any.  `Set`,
`Unset`, `SetFails` and `UnsetFails` are the four pairs of functions of
`client.go:218-302`.  A row opens the entry that it was drawn for (`rows`), which
may have been deleted since: the toolkit draws when it likes (`Redraw`), except
after a favourite dialog, which refreshes.  A dialog is modal, and only the
window thread saves nicknames and connections (`SaveOther`).


## 3. What TLC checks

`faults` (constant `MaxFaults`) bounds failed requests and writes, lost answers
and restarts, and in `MessageSync` closed chats too; `Connections` and
`ChannelList` bound restarts (`MaxRestarts`) and the objects of one run
(`MaxObjects`) separately, `ChatSession` the number of times a chat is opened
(`MaxSessions`).  Each run takes less than three minutes with two workers.

| run | asks | instance | distinct states |
|---|---|---|---|
| `server_store` | Do two handlers, with failing writes and restarts, keep the logs and lists readable, and is only lost what a fault tore? (`LogSound`, `ChannelIndexSound`, `ListenResolves`, `OneLossPerFault`) | 2 processes, 2 channels, 3 messages, 2 participants one of whom is in both channels, 2 faults | 69,825 |
| `client_store` | With a deletion in the middle: does the code implement `MessageLog`, and what survives a deletion? (`DeletionComplete`, `ImplementsMessageLog`) | 3 processes, 1 channel, 2 messages, 1 fault | 1,658,706 |
| `message_listener` | What may a listener skip, does the search stay in the log, is a message ahead of an open session stored in the end? (`SkipsOnlyOvertaken`, `NewPostsNotSkipped`, `SearchInBounds`, `Delivery`) | 3 messages, any number of sessions, restarts, failed writes | 111,618 |
| `relay` | Is every listener, among the others and the relays, a `MessageListener`, and does the relay repair the servers after disturbances? (`TypeOK`, `ListenersConform`, `RelayRepairs`) | 1 client, 2 servers, 2 messages, 2 faults | 294,300 |
| `undisturbed` | Without disturbances, does everybody read everything, whatever the order of the logs? (`EveryoneReads`) | 1 client, 2 servers, 3 messages, none | 525,506 |
| `channel_sync` | Do stored, published, shown and deleted channels agree under every interleaving and failure? (`TypeOK`, `StoredIsPublished`, `FaultHidesOne`, `DeletionSurvivesRestart`, `StartGivesUpOnFault`) | 2 servers that know all participants, all but one, or all but the client, a channel of one's own and one of another's, 2 faults | 4,283,154 |
| `channel_reach` | Does a channel that one server has get to the client and to all servers that accept it, and what is in the index more than once? (`IndexedOnce`, `ChannelsSpread`) | 2 servers, one of which learns of the client late, 2 channels of others: one with a name that is refused, one that names the client twice; 1 fault | 840,450 |
| `authorization` | Who gets a token, is there only one exchange that sets it, does it stay valid, does everybody get in? (`TypeOK`, `InWithValidToken`, `TokenWrittenOnce`, `GetsIn`) | 2 sessions of one user, 2 goroutines each, 3 faults | 76,122 |
| `paging` | Are page, searches and scrolls in order and without gaps, does every scroll bring a page, and is the beginning reached, while listeners store, show and lose messages? (`PageTypeOK`, `ScreenOrdered`, `NoGaps`, `EndReached`, `FullPages`) | pages of 2, up to 6 messages, every set of matches, 2 listeners | 1,848,279 |
| `chat_session` | When does the window answer, which goroutines end, what is on the screen, and how often? (`PatientUser`, `StaleWasReady`, `ScreenComplete`, `TwiceOnlyIfRaced`) | 2 chats with a message each, opened twice, 2 servers, 1 failure | 2,712,400 |
| `connections` | Do the copies agree, has each connection its goroutines once, and do they follow it? (`CopiesAgree`, `OneGoroutineEach`, `ListenersFollow`) | 2 connections, 2 objects each, 1 failed save, 1 restart | 582,857 |
| `channel_list` | Is the list in order, and what the user was told in the file? (`ListInOrder`, `ToldIsSaved`) | 3 channels, 3 entries, 2 goroutines, lists of 3 are sorted unstably, 1 failed save, 1 restart | 4,826,742 |

### Why these bounds

- *Store.*  Two writers and a shared participant are what it takes to interleave
  the check, the count and the append of two operations on one list; two faults
  let a retry of a torn operation fail again.  The third process of the client
  run allows a second `DelChannel`, or a late writer, inside a deletion.  The
  theorems remove the bounds for all properties.
- *Listener.*  Three messages give a bisection of two probes, and with liveness
  they are what fits; the theorems hold for any number.
- *Message synchronisation.*  Three messages in two logs can be in orders that
  differ in a non-adjacent place, so that the search of one log meets an island
  of messages known from the other (`undisturbed`).  Two servers are enough for a
  push to reach one and miss the other; two faults, with two messages, for a torn
  push whose repair is torn again (`relay`).  `ListenersConform` is proved for any
  number of everything.
- *Channels.*  Two servers, because a success needs only one of them; two
  channels, because a fault on one must not cost the other; two faults, because
  most bad histories need one to tear something and a restart to meet the result.
  `channel_sync` begins with servers that know everybody, that do not know one
  participant (he is stuck in `AddIntoList`), or that do not know the client (no
  server accepts what it creates).  `channel_reach` has two channels of others:
  creation is in `channel_sync`, and the listeners treat one's own channels alike
  once they are on a server; the channel with the bad name goes into the lists
  before or after the good one, and the good one names the client twice, so that
  a torn `SetChannel` leaves one entry of two.  No servers at all, and both
  peculiarities in one channel, are covered by the theorems, which remove the
  bounds for all that is not liveness.
- *Authorization.*  Two sessions of one user are what shares the pending task;
  the theorems hold for any number of users and sessions.
- *Chat session.*  Two sessions meet in the flag and in the channel, and the
  second may be of the same chat or of the other; two servers race for a message.
- *Connections.*  Two objects of one identifier are what deleting and adding again
  makes; the second connection is there to be unaffected.
- *List of channels.*  Three entries are the first that a sort by marks can put
  back in the wrong order, and three is one too many for `StableLength` 2: both
  the stable and the unstable sort occur.  Here, in the session and for the
  connections the theorems hold for any number of everything.
- *Paging.*  Three pages of two, so that the first, an inner and the last
  scroll are all different, with both remainders modulo the page.  Two listeners
  can store n and n + 1 and show them the other way round, show one message
  twice, and one of them may be of a session that was left; they differ in their
  names only, so the run uses symmetry.  The theorems hold for every size of a
  page and of a log and for any number of listeners.

The runs with `CHECK_DEADLOCK FALSE` are those where the system has nothing left
to do when all messages are sent and read, all channels are created or all
sessions and entries are used up, and every fault was used — or, in `ChatSession`,
where a hasty user has blocked the window.

### What they show

- The order of the writes is what makes the store right: the count is written
  last, so a torn append leaves at most an unlisted record.  Such a record is
  lost for good, though, because a retry finds it and reports success;
  `OneLossPerFault` says that nothing else is ever lost, `FaultHidesOne` the same
  of channels in the client.
- The bisection may skip messages, but only among the backlog of its session,
  and only below one that reached the database through another connection or
  failed to be stored (`SkipsOnlyOvertaken`, `NewPostsNotSkipped`).  Without
  faults the other listeners make up for it (`EveryoneReads`).
- The relay repairs a partial push only for a client that does not have the
  message yet: if the relay itself is cut, this client never relays it again.
  `RelayRepairs` therefore speaks of messages the client lacks.
- A channel that was deleted while a listener was bringing it comes back for the
  rest of this run and is gone after the next start (`DeletionSurvivesRestart`).
  No earlier interruption makes a start give up: a failure of its own does, and a
  channel that cannot be shown for what it is (`StartGivesUpOnFault`).  The latter
  stays in the file, so with it every later start gives up too, and the client has
  no listener of channels any more.  One history more kills a start: a channel
  that names the client twice is in the window after its first entry, and the user
  may delete it between the check and the read of the second; this is the
  exception in the property, and its counterexample without it.
- A client without connections stores a channel that no server has: there is
  nobody to ask, so `initRemoteChannel` succeeds (`StoredIsPublished`).
- A channel reaches every server only if each knows its author: a server that
  does not refuses it for good, and nothing brings it there later except a start
  or an open chat (`Accepts` in `ChannelsSpread`).
- Two sessions of one user that authorise at the same time may refuse each other;
  `GetsIn` assumes that the rival is quiet in the end.  A token is never renewed:
  after a day every request is refused until the application restarts.  This is
  outside `InWithValidToken` and stated as a hazard.
- The first message of a chat of exactly one page and one message cannot be
  scrolled to, nor one of a search whose last page ends just before it: 0 stands
  for "go on with index 0" and for "nothing left" (`EndReached` names the case).
- What is at the bottom of a chat is as good as its listeners: two of them may show
  their messages in another order than that of the log, or one message both, and a
  message whose relay failed is in the log and not on the screen.  What `Paging`
  shows is that the last page, the searches and the scrolls are right in spite of
  it, and that nothing that was in the log when the chat was opened gets lost.
- The flag and the channel of the chat page work for a user who gives goroutines
  the time to start (`PatientUser`).  Switching faster leaves a session running
  for good, or blocks the window for good, or sends a text to the chat opened in
  between: each is a counterexample when the premise is dropped.
- A listener looks at the context before each request and not after it, so what it
  already has is shown when the chat is closed, in the container of the next chat;
  `StaleWasReady` says that nothing else is.  The loader never looks at it.
- A message may be on the screen twice, but only when two listeners looked it up
  before either stored it (`TwiceOnlyIfRaced`), and be missing only when every
  push of its relay failed (`ScreenComplete`).
- A failed save leaves memory ahead of file and list.  `CopiesAgree` and
  `ToldIsSaved` name the connection or decision it leaves out: the next save of
  anything else carries it out, although the user saw an error (or, when deleting
  a connection, nothing), and taking a decision back a second time succeeds
  without a write, because memory has it no more.
- A connection that is deleted and added again before its listener wakes is listened
  to by the old listener with the old object and its token; added later it gets no
  listener until the next start (`OneGoroutineEach`, `Served` of
  `ListenersFollow`).  A registration goes on after the deletion until it succeeds.
- The list of channels is in order after every dialog, in spite of the mark that is
  written without the lock: whoever sorts last has all marks.  Above twelve
  channels the order by time is not kept, and an entry deleted in this run may
  come back with an old mark or be opened through a row drawn earlier; both are
  what `ListInOrder` leaves out.

No comment, test or document of the repository claims otherwise in any of these
cases, so they are stated as what the properties exclude rather than as findings.

### Fairness

- `MessageListener`, `MessageSync`: weak fairness of the work of a listener and
  of a push that was begun.  The goroutine scheduler runs every goroutine, and
  requests end, by an answer or a timeout; a request that fails is a fault, and
  faults are bounded.  Opening a chat, writing and closing are up to the user.
- `ChannelSync`: weak fairness of the start, of each listener, of a creation that
  was begun and of a deletion that was begun.  `ChannelsSpread` speaks of the
  time after the last fault.
- `Authorization`: weak fairness of each goroutine and of the start of the server
  (an operator starts it again).  Late requests, expiry, restarts and calls of
  `initRemoteChannel` are not fair.
- `Connections`: weak fairness of the two loops (they turn every minute as long as
  the application runs), of the listeners and of registrations: one that is tried
  every second for ever succeeds some time.  The user and restarts are not fair.
- `ChatSession`, `ChannelList`, `Paging` and `ChannelStore` state no fairness: all
  their properties are about safety.


## 4. What is proved

TLAPS checks these theorems, for any number of processes, channels,
participants, messages and faults, from the assumptions named in the modules
(types of the constants, `None` different from everything).

| theorem | says |
|---|---|
| `ChannelStore_proofs!TypeCorrect` | `TypeOK` |
| `ChannelStore_proofs!LogSoundness` | `LogSound`: logs have no holes, repetitions or dangling entries |
| `ChannelStore_proofs!ChannelIndexSoundness` | `ChannelIndexSound`: lists of channels name existing or deleted ones |
| `ChannelStore_proofs!ListenSoundness` | `ListenResolves`: a handler that saw a count finds slot and message |
| `ChannelStore_proofs!Refinement` | the code implements `MessageLog` |
| `ChannelStore_proofs!OneLossPerFaultAlways` | `OneLossPerFault`: a fault loses at most one record |
| `ChannelStore_proofs!DeletionCompleteAlways` | `DeletionComplete`: a deletion leaves what is late, and one message per fault |
| `Messages_proofs!TypeCorrect` | `TypeOK` |
| `Messages_proofs!SkipSoundness` | `SkipsOnlyOvertaken` |
| `Messages_proofs!NewPostsSoundness` | `NewPostsNotSkipped` |
| `Messages_proofs!SearchSoundness` | `SearchInBounds` |
| `MessageSync_proofs!TypeCorrect` | `TypeOK` |
| `MessageSync_proofs!ListenersConformAlways` | `ListenersConform`: each of many listeners is a `MessageListener` |
| `ChannelSync_proofs!TypeCorrect` | `TypeOK` |
| `ChannelSync_proofs!StoredIsPublishedAlways` | `StoredIsPublished`: also for a client without servers |
| `ChannelSync_proofs!DeletionSurvivesRestartAlways` | `DeletionSurvivesRestart` |
| `ChannelSync_proofs!StartGivesUpOnFaultAlways` | `StartGivesUpOnFault`: with refused names, unknown participants and repeated ones |
| `ChannelSync_proofs!IndexedOnceAlways` | `IndexedOnce`: once for every time the participants name the client |
| `ChannelSync_proofs!FaultHidesOneAlways` | `FaultHidesOne`: a fault hides at most one channel that is not refused |
| `Authorization_proofs!TypeCorrect` | `TypeOK` |
| `Authorization_proofs!InWithValidTokenAlways` | `InWithValidToken` |
| `Authorization_proofs!TokenWrittenOnceAlways` | `TokenWrittenOnce` |
| `Messages_proofs!PageTypeCorrect` | `PageTypeOK` |
| `Messages_proofs!ScreenOrderedAlways` | `ScreenOrdered`: a screen is in the order of the log, without repetitions, but for what listeners show |
| `Messages_proofs!NoGapsAlways` | `NoGaps`: what page, searches and scrolls leave out is older than all that they have shown, whatever listeners do |
| `Messages_proofs!EndReachedAlways` | `EndReached`: scrolling ends with all shown that was there at the beginning, but for the first message in the named case |
| `Messages_proofs!FullPagesAlways` | `FullPages`: a scroll adds a full page until the end is reached |
| `ChatSession_proofs!TypeCorrect` | `TypeOK` |
| `ChatSession_proofs!PatientUserServed` | `PatientUser`: for a user who waits, no window hangs, no session leaks, no text strays |
| `ChatSession_proofs!StaleWasReadyAlways` | `StaleWasReady` |
| `ChatSession_proofs!ScreenCompleteAlways` | `ScreenComplete` |
| `ChatSession_proofs!TwiceOnlyIfRacedAlways` | `TwiceOnlyIfRaced` |
| `Connections_proofs!TypeCorrect` | `TypeOK` |
| `Connections_proofs!CopiesAgreeAlways` | `CopiesAgree` |
| `Connections_proofs!OneGoroutineEachAlways` | `OneGoroutineEach` |
| `ChannelList_proofs!TypeCorrect` | `TypeOK` |
| `ChannelList_proofs!ToldIsSavedAlways` | `ToldIsSaved` |
| `ChannelList_proofs!ListInOrderAlways` | `ListInOrder` |

*The store.*  None of the properties is inductive: between two writes the file
says less than the process knows.  The invariant `Inv` adds what a process in the
middle of an operation knows (`Knows(p)`: the local variables of `SetChannel`
and `AddChannelMessage` equal the counts in the file, the record exists, the slot
was written), that a process which writes under the exclusive lock is alone
(`MutexInv`), and that every slot ever written, also above the count, names
something of the right kind (`SlotInv`).  Then each action needs only what its
own process knows; one lemma per action (`...Step`) proves that it preserves
`Inv`, and frame lemmas (`ControlStep`, `FileStep`, `LogFrame`, `IndexFrame`)
carry over the parts an action leaves alone.

*What a fault can lose.*  The two bounds count stages of one loss: a message that
a torn append left unlisted is in `LostMessages` until its channel is deleted and
in `Leftover` once the record of the channel is gone, without a fault when it
enters the latter, and neither counts it in between.  The proof counts larger
sets, `Orphans` and `Unlisted`: the records that are not listed, or listed where
a deletion has passed already, and that no operation in progress will list.  A
step adds to them only if it is a fault, and then one element (`NoLoss`,
`LosesMessage`, `LosesChannel`; `LossInv`).  That a deletion passes every slot once, with the
count and the message it has read, is `Progress(p)`, and that a message which
became late belongs to a deleted channel `LateInv`.  What either property counts
is part of these two sets (`LostAreOrphans`).

*The refinement* maps the log of a channel to `msgSlot` below `msgCount`, and to
the empty log when the channel is deleted.  Only `AddMessageCount` on a channel
that is not deleted maps to `Post`, and `MarkDeleted` to `Retire`; every other
action is a stutter.  `Inv` is needed to see that the appended message is new.

*The listener.*  `PrefixInv` is the heart: a known message that came through this
connection has everything before it settled (known, in hand, or overtaken).  It
makes bisection right with any history of closed sessions and restarts.
`SearchInv` says that what lies below `low` is settled, and where the result of
the search stands relative to the interval; `ListenInv` the same of the counter
once the session listens; `HeldInv` that the messages in the hands of closed
sessions are in the log, above settled ones, so that a late write keeps
`PrefixInv`.

*Message synchronisation.*  `Inv` adds to the types that a listener that is off
has forgotten everything (`Sound`), so that closing the chat is no step for it.
For each action one lemma (`...Effect`) gives the fields of the one listener that
moves, and one (`Own...`) that this is a step of `MessageListener`; for all the
others it is `Quiet`, or they see their log grow (`Posted`) or their database
learn something elsewhere (`Learnt`).  The last is why `elsewhere` of a listener
is what `via` ascribes to other servers.  So `SkipsOnlyOvertaken` and
`NewPostsNotSkipped`, proved of one `MessageListener` in any world, hold of each
listener here.  This last instantiation is by reading: tlapm does not cite a
theorem through an `INSTANCE` with parameters.

*Channel synchronisation.*  Nine facts carry each other (`Inv`): where each kind
of goroutine may be (`PlacesInv`); that the lists of a server name what it has
(`ServersInv`); that a channel not yet created is nowhere (`UnbornInv`); that the list of deleted channels grows in memory before the file
and what only memory has is still in the window (`DeletedInv`); that a goroutine
that goes on to store a channel has published it (`PublishedInv`); that none
works on what was deleted at the start (`SpareInv`); that the index names stored
or deleted channels, but for one that names the client twice and was deleted
between its two entries (`IndexInv`, `Gone`); and what the start knows of the part
of the index behind it and before it (`BootInv`), which also says that nothing of
it is missing.  An action is first described by what it does to tasks, servers, file
and window apart (`TaskMoves`, `ServersMove`, `FileMoves`, `WindowMoves`), and
each part of `Inv` is proved from these descriptions.  `FaultHidesOne` counts
like the store: `Lost` are the stored channels that were not refused and that
nothing is about to show, and only a fault adds one (`LostInv`).

*Authorization.*  `TypeOK` says who holds the mutex of a session; `TokenInv` that
a token is of the only key there is, and that no goroutine of its session is in
an exchange once it is there.  `Fresh` being a task that nobody remembers needs
`TasksAssumption` and that what is remembered is finite.

*The pages of a chat.*  `Down` and `Ascending` are choices, so the first lemmas
show that there is something to choose: the end of a page is the least of the
indices above which the page is not yet full (`LeastMember`, `DownProperties`),
and an ascending enumeration of a set of indices is that of the set without its
greatest member, and then this member (`AscendingExists`).  `StartInv` is the
heart of the invariant: the index to go on at separates the screen from what is
missing.  All that is due above it is shown; nothing that a page or a scroll has
shown lies below it unless a scroll has read it; and what lies below has not been
read at all, or to the end.  `BottomInv` keeps these behind the log and the loader.
`HandInv` says that a listener of the session looked up its message when the page
had been counted, and `LiveInv` that what it stored, or found stored since, so
follows the page; of a session that was left nothing is known.  `FirstInv` follows the one message that 0 can
hide: in a chat only if it was opened with one message more than a page, in a search
only behind full pages, which a count of the screen modulo the page shows.

*The chat session.*  `PatientUser` is proved from `Steady`, which holds as long as
the user was not hasty: at most one session is alive, the flag says whether its
waiter is at the channel, and it is the one on the screen.  A blocked window then
always has a waiter to meet.  `StaleInv` extends `StaleWasReady` to what waits in
the queue of the window.  For `TwiceOnlyIfRaced`, `ApartInv` says that a page and
the listeners that start after it have nothing in common, and `RacedInv` that two
listeners with the same message looked it up before either stored it.
`ScreenInv` follows `ScreenComplete` from the moment at which the page is counted:
what is stored and not on the screen is on its way there.

*The connections.*  `KeptInv` (what the list has and was not deleted, memory has)
keeps an object in the list while its identifier stays; `KnownInv` (a loop knows
the identifiers it has goroutines for) makes it start each of them once.

*The list of channels.*  `Kept` says that what was told, memory and file agree on
every decision whose last write did not fail.  `ListInv` adds to the order on the
page (`InOrder`, suspended between the mark of an entry and the sort) that every
channel is listed once (`Unique`), that a row opens something listed unless it was
deleted (`RowsListed`), and that the marks of the entries on the page, and of
those a goroutine is about to add, are those of `local.data` (`MarksAgree`,
`AddedAgree`): otherwise a sort could reveal an old mark later.

`TypeOK` is proved for every module that has proofs; a run checks it only where
the table of section 3 names it.

Only model-checked: all liveness (`Delivery`, `RelayRepairs`, `EveryoneReads`,
`ChannelsSpread`, `GetsIn`, `ListenersFollow`), for fairness and `ENABLED` are
outside the prover's reach.  Every other property of a run is a theorem.  No
module uses a recursive operator.


## 5. Order of the modules, and what is not modelled

The modules were written in the order of the list in section 2, most important
first: the store everything rests on, the listener, their composition, then
channels, authorization, paging, and then what surrounds them: the chat page and
its goroutines, the connections, the list of channels.

Left out for good: cryptography and encoding (pure functions of libraries;
messages and channels are model values, and honest clients write well-formed
ones), TLS and routing, the layout of windows, images, the log, the
text of nicknames (that they are saved is `SaveOther`), the ping and colour of a
connection, the key and certificate files of a first start, `CountChannels` and
`SetAuthToken` (never used), and the stand-alone downloader.
