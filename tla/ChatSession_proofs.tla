------------------------- MODULE ChatSession_proofs -------------------------
(***************************************************************************)
(* Proofs about ChatSession, for any chats, messages and servers and any   *)
(* number of sessions and failures.                                        *)
(***************************************************************************)
EXTENDS ChatSession, TLAPS

USE ChatSessionAssumption

ListenerPCs == {"off", "poll", "got", "relay"}
WaiterPCs == {"none", "new", "wait", "received", "off", "done"}

\* The message of a listener and its place agree.
HandOK == \A k \in Sessions, s \in Servers :
             (msg[k][s] = NoMessage) <=> pc[k][s] \in {"off", "poll"}

\* One place and one message of one listener change, as in Continue.
LEMMA ListenerUpdate ==
    ASSUME TypeOK, NEW k \in Sessions, NEW s \in Servers,
           NEW p \in ListenerPCs, NEW m \in Messages \cup {NoMessage},
           pc' = [pc EXCEPT ![k][s] = p], msg' = [msg EXCEPT ![k][s] = m],
           (m = NoMessage) <=> p \in {"off", "poll"}
    PROVE  /\ pc' \in [Sessions -> [Servers -> ListenerPCs]]
           /\ msg' \in [Sessions -> [Servers -> Messages \cup {NoMessage}]]
           /\ HandOK'
           /\ pc'[k][s] = p /\ msg'[k][s] = m
           /\ \A j \in Sessions, t \in Servers :
                 (j # k \/ t # s) => pc'[j][t] = pc[j][t] /\ msg'[j][t] = msg[j][t]
  BY DEF TypeOK, ListenerPCs, HandOK

-----------------------------------------------------------------------------
(* Types. *)

\* A session has no listeners before its page is loaded.
IdleInv == \A k \in Sessions, s \in Servers : loader[k] # "listen" => pc[k][s] = "off"

\* A message is relayed once it is stored.
RelayInv == \A k \in Sessions, s \in Servers : pc[k][s] = "relay" => msg[k][s] \in stored

LEMMA TypeInit == Init => TypeOK /\ IdleInv /\ RelayInv
  <1> SUFFICES ASSUME Init PROVE TypeOK /\ IdleInv /\ RelayInv
    OBVIOUS
  <1> USE DEF Init
  <1>1. /\ pc \in [Sessions -> [Servers -> ListenerPCs]]
        /\ msg \in [Sessions -> [Servers -> Messages \cup {NoMessage}]]
        /\ passed \in [Sessions -> [Servers -> SUBSET Messages]]
        /\ HandOK /\ IdleInv /\ RelayInv
    BY DEF ListenerPCs, HandOK, IdleInv, RelayInv
  <1>2. page \in [Sessions -> SUBSET Messages]
    OBVIOUS
  <1>3. stored \subseteq Messages /\ quiet \subseteq stored /\ raced \subseteq stored
    OBVIOUS
  <1>4. /\ chat \in [Sessions -> Chats \cup {NoChat}]
        /\ waiter \in [Sessions -> WaiterPCs]
        /\ loader \in [Sessions -> {"none", "count", "page", "listen", "failed"}]
    BY DEF WaiterPCs
  <1>5. /\ window \in {"idle", "blocked"} /\ next \in Chats \cup {NoChat}
        /\ view \in Sessions \cup {0} /\ current \in Chats \cup {NoChat}
    OBVIOUS
  <1>7. active \in BOOLEAN /\ hasty \in BOOLEAN
    OBVIOUS
  <1>8. queue \subseteq Items /\ shown \subseteq Items /\ carried \subseteq Items
    OBVIOUS
  <1>6. /\ text \in Chats \cup {NoChat}
        /\ astray \subseteq Chats \X (Chats \cup {NoChat})
        /\ faults \in 0..MaxFaults
    OBVIOUS
  <1> HIDE DEF Init
  <1> QED
    BY <1>1, <1>2, <1>3, <1>4, <1>5, <1>6, <1>7, <1>8 DEF TypeOK, ListenerPCs, WaiterPCs, HandOK

\* What a switch does to the window and the waiters.
LEMMA EnterType ==
    ASSUME TypeOK, NEW c \in Chats \cup {NoChat},
           NEW w \in [Sessions -> WaiterPCs], Enter(c, w)
    PROVE  /\ view' \in Sessions \cup {0} /\ current' \in Chats \cup {NoChat}
           /\ chat' \in [Sessions -> Chats \cup {NoChat}]
           /\ waiter' \in [Sessions -> WaiterPCs]
           /\ loader' \in [Sessions -> {"none", "count", "page", "listen", "failed"}]
  <1>1. CASE c = NoChat
    BY <1>1 DEF Enter, TypeOK
  <1>2. CASE \E n \in Sessions :
                /\ c \in Chats /\ IsNext(n)
                /\ view' = n /\ current' = c
                /\ chat' = [chat EXCEPT ![n] = c]
                /\ waiter' = [w EXCEPT ![n] = "new"]
                /\ loader' = [loader EXCEPT ![n] = "count"]
    BY <1>2 DEF TypeOK, WaiterPCs
  <1> QED
    BY <1>1, <1>2 DEF Enter, TypeOK

\* The steps of the window and of the waiters keep the types.
LEMMA TypeWindow ==
    ASSUME TypeOK,
           \/ \E c \in Chats \cup {NoChat} : SwitchTo(c)
           \/ \E k \in Sessions : Rendezvous(k) \/ Waiter(k)
           \/ ShowNext \/ EnterText \/ SendText
    PROVE  TypeOK'
  <1>1. ASSUME NEW c \in Chats \cup {NoChat}, SwitchTo(c) PROVE TypeOK'
    <2>1. waiter \in [Sessions -> WaiterPCs]
      BY DEF TypeOK, WaiterPCs
    <2>2. CASE ~active /\ Enter(c, waiter) /\ UNCHANGED <<window, next>>
      BY <1>1, <2>1, <2>2, EnterType DEF SwitchTo, TypeOK, WaiterPCs, listeners, textVars
    <2>3. CASE active /\ window' = "blocked" /\ next' = c /\ view' = 0
               /\ UNCHANGED <<current, chat, waiter, loader>>
      BY <1>1, <2>3 DEF SwitchTo, TypeOK, listeners, textVars
    <2> QED
      BY <1>1, <2>2, <2>3 DEF SwitchTo
  <1>2. ASSUME NEW k \in Sessions, Rendezvous(k) PROVE TypeOK'
    <2>1. [waiter EXCEPT ![k] = "received"] \in [Sessions -> WaiterPCs]
      BY DEF TypeOK, WaiterPCs
    <2>2. next \in Chats \cup {NoChat}
      BY DEF TypeOK
    <2> QED
      BY <1>2, <2>1, <2>2, EnterType DEF Rendezvous, TypeOK, WaiterPCs, listeners, textVars
  <1>3. ASSUME NEW k \in Sessions, Waiter(k) PROVE TypeOK'
    <2>1. waiter' \in [Sessions -> WaiterPCs] /\ active' \in BOOLEAN
      BY <1>3 DEF Waiter, WaiterStart, WaiterOff, WaiterCancel, TypeOK, WaiterPCs
    <2>2. carried' \subseteq Items
      BY <1>3 DEF Waiter, WaiterStart, WaiterOff, WaiterCancel, TypeOK
    <2> QED
      BY <1>3, <2>1, <2>2 DEF Waiter, WaiterStart, WaiterOff, WaiterCancel, TypeOK,
         WaiterPCs, windowVars, listeners, textVars
  <1>4. CASE ShowNext
    BY <1>4 DEF ShowNext, TypeOK, windowVars, waiterVars, listeners, textVars
  <1>5. CASE EnterText
    BY <1>5 DEF EnterText, TypeOK, windowVars, waiterVars, listeners
  <1>6. CASE SendText
    <2>1. astray' \subseteq Chats \X (Chats \cup {NoChat})
      BY <1>6 DEF SendText, TypeOK
    <2> QED
      BY <1>6, <2>1 DEF SendText, TypeOK, windowVars, waiterVars, listeners
  <1> QED
    BY <1>1, <1>2, <1>3, <1>4, <1>5, <1>6

\* The steps of a loader keep the types.
LEMMA TypeLoader ==
    ASSUME TypeOK, IdleInv, NEW k \in Sessions, Loader(k)
    PROVE  TypeOK'
  <1>1. CASE LoadCount(k)
    BY <1>1 DEF LoadCount, MessagesOf, TypeOK, windowVars, waiterVars, listeners, textVars
  <1>2. CASE LoadMessage(k)
    <2>1. PICK m \in page[k] : /\ page' = [page EXCEPT ![k] = @ \ {m}]
                               /\ queue' = queue \cup {<<k, Page, m>>}
      BY <1>2 DEF LoadMessage
    <2>2. m \in Messages /\ page' \in [Sessions -> SUBSET Messages]
      BY <2>1 DEF TypeOK
    <2>3. <<k, Page, m>> \in Items
      BY <2>2 DEF Items
    <2>4. queue' \subseteq Items
      BY <2>1, <2>3 DEF TypeOK
    <2> QED
      BY <1>2, <2>2, <2>4 DEF LoadMessage, TypeOK, windowVars, waiterVars, listeners,
                              textVars
  <1>3. CASE LoadFails(k)
    BY <1>3 DEF LoadFails, TypeOK, windowVars, waiterVars, listeners, textVars
  <1>4. CASE LoadDone(k)
    <2>1. \A s \in Servers : pc'[k][s] = "poll" /\ pc[k][s] = "off"
      BY <1>4 DEF LoadDone, StartListeners, TypeOK, IdleInv
    <2>2. /\ pc' \in [Sessions -> [Servers -> ListenerPCs]]
          /\ loader' \in [Sessions -> {"none", "count", "page", "listen", "failed"}]
      BY <1>4 DEF LoadDone, StartListeners, TypeOK, ListenerPCs
    <2>3. HandOK'
      BY <1>4, <2>1 DEF LoadDone, StartListeners, TypeOK, HandOK
    <2> QED
      BY <1>4, <2>2, <2>3 DEF LoadDone, StartListeners, TypeOK, ListenerPCs, HandOK,
         windowVars, waiterVars, textVars
  <1> QED
    BY <1>1, <1>2, <1>3, <1>4 DEF Loader

\* The message of a listener that has one.
LEMMA HasMessage ==
    ASSUME TypeOK, NEW k \in Sessions, NEW s \in Servers,
           pc[k][s] \in {"got", "relay"}
    PROVE  msg[k][s] \in Messages
  <1>1. msg[k][s] \in Messages \cup {NoMessage}
    BY DEF TypeOK
  <1>2. HandOK
    BY DEF TypeOK, HandOK
  <1> QED
    BY <1>1, <1>2 DEF HandOK

\* Continue is an update of the listener.
LEMMA ContinueType ==
    ASSUME TypeOK, NEW k \in Sessions, NEW s \in Servers, Continue(k, s)
    PROVE  /\ pc' \in [Sessions -> [Servers -> ListenerPCs]]
           /\ msg' \in [Sessions -> [Servers -> Messages \cup {NoMessage}]]
           /\ HandOK'
           /\ pc'[k][s] = "poll" /\ msg'[k][s] = NoMessage
           /\ \A j \in Sessions, t \in Servers :
                 (j # k \/ t # s) => pc'[j][t] = pc[j][t] /\ msg'[j][t] = msg[j][t]
  BY ListenerUpdate DEF Continue, ListenerPCs

\* The place of a listener changes and its message stays.
LEMMA PlaceUpdate ==
    ASSUME TypeOK, NEW k \in Sessions, NEW s \in Servers, NEW p \in ListenerPCs,
           pc' = [pc EXCEPT ![k][s] = p], UNCHANGED msg,
           (msg[k][s] = NoMessage) <=> p \in {"off", "poll"}
    PROVE  /\ pc' \in [Sessions -> [Servers -> ListenerPCs]]
           /\ msg' \in [Sessions -> [Servers -> Messages \cup {NoMessage}]]
           /\ HandOK'
           /\ pc'[k][s] = p
           /\ \A j \in Sessions, t \in Servers :
                 (j # k \/ t # s) => pc'[j][t] = pc[j][t]
  BY DEF TypeOK, ListenerPCs, HandOK

\* The steps of a listener keep the types.
LEMMA TypeListener ==
    ASSUME TypeOK, RelayInv, NEW k \in Sessions, NEW s \in Servers, Listener(k, s)
    PROVE  TypeOK'
  <1> DEFINE
        LType == /\ pc \in [Sessions -> [Servers -> ListenerPCs]]
                 /\ msg \in [Sessions -> [Servers -> Messages \cup {NoMessage}]]
                 /\ HandOK
        Rest == UNCHANGED <<windowVars, waiterVars, chat, loader, page, shown,
                            textVars, hasty, carried>>
        DType == /\ passed \in [Sessions -> [Servers -> SUBSET Messages]]
                 /\ stored \subseteq Messages /\ quiet \subseteq stored
                 /\ raced \subseteq stored /\ queue \subseteq Items
                 /\ faults \in 0..MaxFaults
  <1>1. ASSUME LType', DType', Rest PROVE TypeOK'
    BY <1>1 DEF TypeOK, ListenerPCs, HandOK, windowVars, waiterVars, textVars
  <1>2. CASE Receive(k, s)
    <2>1. PICK m \in Messages : msg' = [msg EXCEPT ![k][s] = m]
      BY <1>2 DEF Receive, MessagesOf
    <2>2. LType'
      BY <1>2, <2>1, ListenerUpdate DEF Receive, ListenerPCs
    <2> QED
      BY <1>2, <2>2, <1>1 DEF Receive, TypeOK
  <1>3. CASE Store(k, s)
    <2>1. LType'
      BY <1>3, PlaceUpdate, HasMessage DEF Store, ListenerPCs
    <2>2. DType'
      BY <1>3, HasMessage DEF Store, TypeOK
    <2> QED
      BY <1>3, <2>1, <2>2, <1>1 DEF Store
  <1>4. CASE StoreFails(k, s)
    <2>1. DType'
      BY <1>4, HasMessage DEF StoreFails, TypeOK
    <2> QED
      BY <1>4, <2>1, ContinueType, <1>1 DEF StoreFails
  <1>5. CASE Relay(k, s)
    <2>1. <<k, s, msg[k][s]>> \in Items
      BY <1>5, HasMessage DEF Relay, Items
    <2>5. queue \subseteq Items
      BY DEF TypeOK
    <2>6. queue' = queue \cup {<<k, s, msg[k][s]>>}
      BY <1>5 DEF Relay
    <2>2. queue' \subseteq Items
      BY <2>1, <2>5, <2>6
    <2>3. UNCHANGED <<passed, stored, quiet, raced, faults>> /\ Rest
      BY <1>5 DEF Relay
    <2>4. DType'
      BY <2>2, <2>3 DEF TypeOK
    <2> QED
      BY <1>5, <2>3, <2>4, ContinueType, <1>1 DEF Relay
  <1>6. CASE RelayFails(k, s)
    <2>1. quiet' = quiet \cup {msg[k][s]} /\ UNCHANGED <<passed, stored, raced, queue>>
      BY <1>6 DEF RelayFails
    <2>2. faults' \in 0..MaxFaults
      BY <1>6 DEF RelayFails, TypeOK
    <2>3. msg[k][s] \in stored
      BY <1>6 DEF RelayFails, RelayInv
    <2>4. DType'
      BY <2>1, <2>2, <2>3 DEF TypeOK
    <2> QED
      BY <1>6, <2>4, ContinueType, <1>1 DEF RelayFails
  <1>7. CASE ListenerEnds(k, s)
    <2>1. LType'
      BY <1>7, PlaceUpdate DEF ListenerEnds, ListenerPCs, TypeOK
    <2>2. DType'
      BY <1>7 DEF ListenerEnds, TypeOK
    <2> QED
      BY <1>7, <2>1, <2>2, <1>1 DEF ListenerEnds
  <1> QED
    BY <1>2, <1>3, <1>4, <1>5, <1>6, <1>7 DEF Listener

-----------------------------------------------------------------------------
(* What every other invariant builds on. *)

\* A session that was not started has no loader.
FreshInv == \A k \in Sessions : waiter[k] = "none" => loader[k] = "none"

Base == TypeOK /\ IdleInv /\ RelayInv /\ FreshInv

\* A switch adds at most a new session to those of w.
LEMMA EnterEffect ==
    ASSUME TypeOK, NEW c \in Chats \cup {NoChat},
           NEW w \in [Sessions -> WaiterPCs], Enter(c, w)
    PROVE  \/ /\ c = NoChat /\ view' = 0 /\ waiter' = w
              /\ UNCHANGED <<current, chat, loader>>
           \/ \E n \in Sessions :
                 /\ c \in Chats /\ waiter[n] = "none"
                 /\ view' = n /\ current' = c
                 /\ chat'[n] = c /\ waiter'[n] = "new" /\ loader'[n] = "count"
                 /\ \A k \in Sessions \ {n} :
                       chat'[k] = chat[k] /\ waiter'[k] = w[k] /\ loader'[k] = loader[k]
  <1>1. CASE \E n \in Sessions :
                /\ c \in Chats /\ IsNext(n)
                /\ view' = n /\ current' = c
                /\ chat' = [chat EXCEPT ![n] = c]
                /\ waiter' = [w EXCEPT ![n] = "new"]
                /\ loader' = [loader EXCEPT ![n] = "count"]
    BY <1>1 DEF TypeOK, IsNext
  <1> QED
    BY <1>1 DEF Enter

\* The steps of the window and the waiters keep what is known of listeners.
LEMMA BaseWindow ==
    ASSUME Base,
           \/ \E c \in Chats \cup {NoChat} : SwitchTo(c)
           \/ \E k \in Sessions : Rendezvous(k) \/ Waiter(k)
           \/ ShowNext \/ EnterText \/ SendText
    PROVE  Base'
  <1>1. TypeOK'
    BY TypeWindow DEF Base
  <1>2. waiter \in [Sessions -> WaiterPCs]
    BY DEF Base, TypeOK, WaiterPCs
  <1>3. UNCHANGED <<pc, msg, stored>>
    BY DEF SwitchTo, Rendezvous, Waiter, WaiterStart, WaiterOff, WaiterCancel, ShowNext,
       EnterText, SendText, listeners
  <1>4. RelayInv'
    BY <1>3 DEF Base, RelayInv
  <1>5. ASSUME UNCHANGED <<waiter, loader>> PROVE IdleInv' /\ FreshInv'
    BY <1>3, <1>5 DEF Base, IdleInv, FreshInv
  <1>6. ASSUME NEW c \in Chats \cup {NoChat}, NEW w \in [Sessions -> WaiterPCs],
               Enter(c, w), \A k \in Sessions : w[k] = "none" <=> waiter[k] = "none"
        PROVE  IdleInv' /\ FreshInv'
    BY <1>3, <1>6, EnterEffect DEF Base, IdleInv, FreshInv
  <1>7. ASSUME NEW c \in Chats \cup {NoChat}, SwitchTo(c) PROVE Base'
    BY <1>1, <1>2, <1>4, <1>5, <1>6, <1>7 DEF SwitchTo, Base
  <1>8. ASSUME NEW k \in Sessions, Rendezvous(k) PROVE Base'
    <2> DEFINE w == [waiter EXCEPT ![k] = "received"]
    <2>1. w \in [Sessions -> WaiterPCs] /\ next \in Chats \cup {NoChat}
      BY <1>2 DEF Base, TypeOK, WaiterPCs
    <2>2. \A j \in Sessions : w[j] = "none" <=> waiter[j] = "none"
      BY <1>2, <1>8 DEF Rendezvous
    <2> QED
      BY <1>1, <1>4, <1>6, <1>8, <2>1, <2>2 DEF Rendezvous, Base
  <1>9. ASSUME NEW k \in Sessions, Waiter(k) PROVE Base'
    <2>1. \A j \in Sessions : waiter'[j] = "none" <=> waiter[j] = "none"
      BY <1>2, <1>9 DEF Waiter, WaiterStart, WaiterOff, WaiterCancel
    <2>2. UNCHANGED loader
      BY <1>9 DEF Waiter, WaiterStart, WaiterOff, WaiterCancel
    <2> QED
      BY <1>1, <1>3, <1>4, <2>1, <2>2 DEF Base, IdleInv, FreshInv
  <1>10. CASE ShowNext \/ EnterText \/ SendText
    BY <1>1, <1>4, <1>5, <1>10 DEF ShowNext, EnterText, SendText, waiterVars, Base
  <1> QED
    BY <1>7, <1>8, <1>9, <1>10

\* The steps of loaders and listeners do.
LEMMA BaseLoader ==
    ASSUME Base, NEW k \in Sessions, Loader(k)
    PROVE  Base'
  <1>1. TypeOK'
    BY TypeLoader DEF Base
  <1>2. FreshInv'
    BY DEF Loader, LoadCount, LoadMessage, LoadFails, LoadDone, StartListeners, Base,
       TypeOK, FreshInv, waiterVars
  <1>3. CASE LoadCount(k) \/ LoadMessage(k) \/ LoadFails(k)
    <2>1. UNCHANGED <<pc, msg, stored>> /\ loader[k] # "listen"
      BY <1>3 DEF LoadCount, LoadMessage, LoadFails, listeners
    <2>2. \A j \in Sessions : j # k => loader'[j] = loader[j]
      BY <1>3 DEF LoadCount, LoadMessage, LoadFails, Base, TypeOK
    <2> QED
      BY <1>1, <1>2, <2>1, <2>2 DEF Base, IdleInv, RelayInv
  <1>4. CASE LoadDone(k)
    <2>1. /\ \A s \in Servers : pc'[k][s] = "poll"
          /\ \A j \in Sessions \ {k} : pc'[j] = pc[j] /\ loader'[j] = loader[j]
          /\ loader'[k] = "listen" /\ UNCHANGED <<msg, stored>>
      BY <1>4 DEF LoadDone, StartListeners, Base, TypeOK
    <2> QED
      BY <1>1, <1>2, <2>1 DEF Base, IdleInv, RelayInv
  <1> QED
    BY <1>3, <1>4 DEF Loader

LEMMA BaseListener ==
    ASSUME Base, NEW k \in Sessions, NEW s \in Servers, Listener(k, s)
    PROVE  Base'
  <1>1. TypeOK'
    BY TypeListener DEF Base
  <1>2. UNCHANGED <<waiter, loader>>
    BY DEF Listener, Receive, Store, StoreFails, Relay, RelayFails, ListenerEnds, waiterVars
  <1>3. stored \subseteq stored' /\ pc[k][s] # "off"
    BY DEF Listener, Receive, Store, StoreFails, Relay, RelayFails, ListenerEnds
  <1>4. \A j \in Sessions, t \in Servers : (j # k \/ t # s) =>
           pc'[j][t] = pc[j][t] /\ msg'[j][t] = msg[j][t]
    BY DEF Listener, Receive, Store, StoreFails, Relay, RelayFails, ListenerEnds, Continue,
       Base, TypeOK
  <1>5. pc'[k][s] = "relay" => msg'[k][s] \in stored'
    BY DEF Listener, Receive, Store, StoreFails, Relay, RelayFails, ListenerEnds, Continue,
       Base, TypeOK
  <1>6. IdleInv'
    BY <1>2, <1>3, <1>4 DEF Base, IdleInv
  <1>7. RelayInv'
    BY <1>3, <1>4, <1>5 DEF Base, RelayInv
  <1> QED
    BY <1>1, <1>2, <1>6, <1>7 DEF Base, FreshInv

LEMMA BaseStep == Base /\ [Next]_vars => Base'
  <1>1. ASSUME Base, UNCHANGED vars PROVE Base'
    BY <1>1 DEF Base, TypeOK, IdleInv, RelayInv, FreshInv, vars, windowVars, waiterVars,
       listeners, textVars
  <1> QED
    BY <1>1, BaseWindow, BaseLoader, BaseListener DEF Next

LEMMA BaseInit == Init => Base
  BY TypeInit DEF Base, Init, FreshInv

\* Every variable of the window, of its waiters, loaders and listeners has its
\* type in every behaviour.
THEOREM TypeCorrect == Spec => []TypeOK
  <1>1. Base => TypeOK
    BY DEF Base
  <1> QED
    BY <1>1, BaseInit, BaseStep, PTL DEF Spec

-----------------------------------------------------------------------------
(* What a session that was stopped shows. *)

\* StaleWasReady, for what waits in the queue as well.
StaleInv ==
    \A i \in queue \cup shown : (Cancelled(i[1]) /\ i[2] # Page) => i \in carried

LEMMA StaleStep == Base /\ StaleInv /\ [Next]_vars => StaleInv'
  <1> SUFFICES ASSUME Base, StaleInv, [Next]_vars PROVE StaleInv'
    OBVIOUS
  <1>0. /\ waiter \in [Sessions -> WaiterPCs]
        /\ \A i \in queue \cup shown : i[1] \in Sessions
    BY DEF Base, TypeOK, WaiterPCs, Items
  <1>1. ASSUME queue' \cup shown' \subseteq queue \cup shown, carried \subseteq carried',
               \A k \in Sessions : waiter'[k] = "done" => waiter[k] = "done"
        PROVE  StaleInv'
    BY <1>0, <1>1 DEF StaleInv, Cancelled
  <1>2. ASSUME NEW c \in Chats \cup {NoChat}, NEW w \in [Sessions -> WaiterPCs],
               Enter(c, w), \A k \in Sessions : w[k] = "done" => waiter[k] = "done"
        PROVE  \A k \in Sessions : waiter'[k] = "done" => waiter[k] = "done"
    BY <1>2, EnterEffect DEF Base
  <1>3. ASSUME NEW c \in Chats \cup {NoChat}, SwitchTo(c) PROVE StaleInv'
    BY <1>0, <1>1, <1>2, <1>3 DEF SwitchTo
  <1>4. ASSUME NEW k \in Sessions, Rendezvous(k) PROVE StaleInv'
    <2> DEFINE w == [waiter EXCEPT ![k] = "received"]
    <2>1. w \in [Sessions -> WaiterPCs] /\ next \in Chats \cup {NoChat}
      BY <1>0 DEF Base, TypeOK, WaiterPCs
    <2>2. \A j \in Sessions : w[j] = "done" => waiter[j] = "done"
      BY <1>0
    <2>3. \A j \in Sessions : waiter'[j] = "done" => waiter[j] = "done"
      BY <1>2, <1>4, <2>1, <2>2 DEF Rendezvous
    <2> QED
      BY <1>1, <1>4, <2>3 DEF Rendezvous
  <1>5. ASSUME NEW k \in Sessions, WaiterStart(k) \/ WaiterOff(k) PROVE StaleInv'
    BY <1>0, <1>1, <1>5 DEF WaiterStart, WaiterOff
  <1>6. ASSUME NEW k \in Sessions, WaiterCancel(k) PROVE StaleInv'
    BY <1>0, <1>6 DEF WaiterCancel, StaleInv, Cancelled
  <1>7. ASSUME NEW k \in Sessions, Loader(k) PROVE StaleInv'
    <2>1. UNCHANGED <<waiter, shown, carried>>
      BY <1>7 DEF Loader, LoadCount, LoadMessage, LoadFails, LoadDone, StartListeners,
         waiterVars
    <2>2. \A i \in queue' \ queue : i[2] = Page
      BY <1>7 DEF Loader, LoadCount, LoadMessage, LoadFails, LoadDone, StartListeners
    <2> QED
      BY <2>1, <2>2 DEF StaleInv, Cancelled
  <1>8. ASSUME NEW k \in Sessions, NEW s \in Servers, Listener(k, s) PROVE StaleInv'
    <2>1. UNCHANGED <<waiter, shown, carried>>
      BY <1>8 DEF Listener, Receive, Store, StoreFails, Relay, RelayFails, ListenerEnds,
         waiterVars
    <2>2. \A i \in queue' \ queue : ~Cancelled(i[1])
      BY <1>8 DEF Listener, Receive, Store, StoreFails, Relay, RelayFails, ListenerEnds
    <2> QED
      BY <2>1, <2>2 DEF StaleInv, Cancelled
  <1>9. CASE ShowNext \/ EnterText \/ SendText
    BY <1>1, <1>9 DEF ShowNext, EnterText, SendText, waiterVars
  <1>10. CASE UNCHANGED vars
    BY <1>1, <1>10 DEF vars, waiterVars
  <1> QED
    BY <1>3, <1>4, <1>5, <1>6, <1>7, <1>8, <1>9, <1>10 DEF Next, Waiter

\* Nothing that a listener received, stored or pushed after its session was
\* stopped is ever on the screen.
THEOREM StaleWasReadyAlways == Spec => []StaleWasReady
  <1>1. Init => Base /\ StaleInv
    BY BaseInit DEF Init, StaleInv
  <1>2. StaleInv => StaleWasReady
    BY DEF StaleInv, StaleWasReady
  <1> QED
    BY <1>1, <1>2, BaseStep, StaleStep, PTL DEF Spec

-----------------------------------------------------------------------------
(* A user who waits. *)

Live(k) == waiter[k] \in {"new", "wait", "received"}

\* At most one session has not been told to end, the flag says whether its
\* waiter is at the channel, and it is the one on the screen unless the
\* window is about to stop it or just has.
Steady ==
    /\ \A j, k \in Sessions : Live(j) /\ Live(k) => j = k
    /\ active <=> \E k \in Sessions : waiter[k] \in {"wait", "received"}
    /\ window = "idle" => \A k \in Sessions : waiter[k] \in {"new", "wait"} <=> k = view
    /\ window = "blocked" =>
          view = 0 /\ next = NoChat /\ \E k \in Sessions : waiter[k] = "wait"
    /\ view # 0 => current = chat[view]
    /\ text # NoChat => window = "idle" /\ view # 0 /\ text = chat[view]
    /\ astray = {}

PatientInv == ~hasty => Steady

\* A switch while nothing is unsettled: the window enters another page, or
\* waits for the waiter of the chat it leaves.
LEMMA PatientSwitch ==
    ASSUME Base, PatientInv, NEW c \in Chats \cup {NoChat}, SwitchTo(c), ~hasty'
    PROVE  Steady'
  <1>1. ~hasty /\ ~Unsettled /\ Steady
    BY DEF SwitchTo, PatientInv
  <1>2. /\ text = NoChat /\ astray = {} /\ window = "idle"
        /\ \A k \in Sessions : waiter[k] \notin {"new", "received"}
        /\ \A k \in Sessions : waiter[k] = "wait" <=> k = view
        /\ active <=> \E k \in Sessions : waiter[k] = "wait"
    BY <1>1 DEF Steady, Unsettled, SwitchTo
  <1>3. waiter \in [Sessions -> WaiterPCs] /\ view \in Sessions \cup {0}
    BY DEF Base, TypeOK, WaiterPCs
  <1>4. UNCHANGED <<active, text, astray>>
    BY DEF SwitchTo, textVars
  <1>5. CASE ~active /\ Enter(c, waiter) /\ UNCHANGED <<window, next>>
    <2>1. \A k \in Sessions : waiter[k] \notin {"new", "wait", "received"}
      BY <1>2, <1>5
    <2>2. CASE view' = 0 /\ waiter' = waiter
      BY <1>2, <1>3, <1>4, <1>5, <2>1, <2>2 DEF Steady, Live, Sessions
    <2>3. ASSUME NEW n \in Sessions, view' = n, current' = c, chat'[n] = c,
                 waiter'[n] = "new", \A k \in Sessions \ {n} : waiter'[k] = waiter[k]
          PROVE  Steady'
      <3>1. \A k \in Sessions \ {n} : waiter'[k] \notin {"new", "wait", "received"}
        BY <2>1, <2>3
      <3> QED
        BY <1>2, <1>4, <1>5, <2>3, <3>1 DEF Steady, Live
    <2> QED
      BY <1>3, <1>5, <2>2, <2>3, EnterEffect DEF Base
  <1>6. CASE active /\ window' = "blocked" /\ next' = c /\ view' = 0
             /\ UNCHANGED <<current, chat, waiter, loader>>
    <2>1. PICK k \in Sessions : waiter[k] = "wait" /\ k = view
      BY <1>2, <1>6
    <2>2. c = NoChat
      BY <2>1 DEF SwitchTo, Sessions
    <2> QED
      BY <1>2, <1>4, <1>6, <2>1, <2>2 DEF Steady, Live
  <1> QED
    BY <1>5, <1>6 DEF SwitchTo

\* The send is received while the window is on its way to another page.
LEMMA PatientRendezvous ==
    ASSUME Base, Steady, NEW k \in Sessions, Rendezvous(k)
    PROVE  Steady'
  <1> DEFINE w == [waiter EXCEPT ![k] = "received"]
  <1>1. waiter \in [Sessions -> WaiterPCs] /\ w \in [Sessions -> WaiterPCs]
    BY DEF Base, TypeOK, WaiterPCs
  <1>2. next = NoChat /\ waiter[k] = "wait"
    BY DEF Rendezvous, Steady
  <1>3. view' = 0 /\ waiter' = w
    BY <1>2, ChatSessionAssumption DEF Rendezvous, Enter
  <1>4. /\ waiter'[k] = "received"
        /\ \A j \in Sessions \ {k} : waiter'[j] = waiter[j]
    BY <1>1, <1>3
  <1>5. \A j \in Sessions \ {k} : waiter[j] \notin {"new", "wait", "received"}
    BY <1>2 DEF Steady, Live
  <1>6. active /\ text = NoChat /\ astray = {}
    BY <1>2 DEF Steady, Rendezvous
  <1>7. UNCHANGED <<active, text, astray>> /\ window' = "idle" /\ 0 \notin Sessions
    BY DEF Rendezvous, textVars, Sessions
  <1> QED
    BY <1>3, <1>4, <1>5, <1>6, <1>7 DEF Steady, Live

\* The flag follows the one waiter that is there.
LEMMA PatientWaiter ==
    ASSUME Base, Steady, NEW k \in Sessions, Waiter(k)
    PROVE  Steady'
  <1>1. waiter \in [Sessions -> WaiterPCs]
    BY DEF Base, TypeOK, WaiterPCs
  <1>2. UNCHANGED <<window, next, view, current, chat, text, astray>>
    BY DEF Waiter, WaiterStart, WaiterOff, WaiterCancel, windowVars, textVars
  <1>3. CASE WaiterStart(k)
    <2>1. /\ waiter[k] = "new" /\ waiter'[k] = "wait" /\ active'
          /\ \A j \in Sessions \ {k} : waiter'[j] = waiter[j]
      BY <1>1, <1>3 DEF WaiterStart
    <2> QED
      BY <1>2, <2>1 DEF Steady, Live
  <1>4. CASE WaiterOff(k)
    <2>1. /\ waiter[k] = "received" /\ waiter'[k] = "off" /\ ~active'
          /\ \A j \in Sessions \ {k} : waiter'[j] = waiter[j]
      BY <1>1, <1>4 DEF WaiterOff
    <2>2. \A j \in Sessions \ {k} : waiter[j] \notin {"new", "wait", "received"}
      BY <2>1 DEF Steady, Live
    <2> QED
      BY <1>2, <2>1, <2>2 DEF Steady, Live
  <1>5. CASE WaiterCancel(k)
    <2>1. /\ waiter[k] = "off" /\ waiter'[k] = "done" /\ UNCHANGED active
          /\ \A j \in Sessions \ {k} : waiter'[j] = waiter[j]
      BY <1>1, <1>5 DEF WaiterCancel
    <2> QED
      BY <1>2, <2>1 DEF Steady, Live
  <1> QED
    BY <1>3, <1>4, <1>5 DEF Waiter

LEMMA PatientStep == Base /\ PatientInv /\ [Next]_vars => PatientInv'
  <1> SUFFICES ASSUME Base, PatientInv, [Next]_vars, ~hasty' PROVE Steady'
    BY DEF PatientInv
  <1>1. ASSUME Steady, UNCHANGED <<windowVars, waiterVars, chat, textVars>>
        PROVE  Steady'
    BY <1>1 DEF Steady, Live, windowVars, waiterVars, textVars
  <1>2. ASSUME NEW c \in Chats \cup {NoChat}, SwitchTo(c) PROVE Steady'
    BY <1>2, PatientSwitch
  <1>3. ASSUME NEW k \in Sessions, Rendezvous(k) PROVE Steady'
    BY <1>3, PatientRendezvous DEF Rendezvous, PatientInv
  <1>4. ASSUME NEW k \in Sessions, Waiter(k) PROVE Steady'
    BY <1>4, PatientWaiter DEF Waiter, WaiterStart, WaiterOff, WaiterCancel, PatientInv
  <1>5. ASSUME NEW k \in Sessions, Loader(k) PROVE Steady'
    BY <1>1, <1>5 DEF Loader, LoadCount, LoadMessage, LoadFails, LoadDone,
       StartListeners, PatientInv
  <1>6. ASSUME NEW k \in Sessions, NEW s \in Servers, Listener(k, s) PROVE Steady'
    BY <1>1, <1>6 DEF Listener, Receive, Store, StoreFails, Relay, RelayFails,
       ListenerEnds, PatientInv
  <1>7. CASE EnterText
    BY <1>7 DEF EnterText, PatientInv, Steady, Live, windowVars, waiterVars
  <1>8. CASE SendText
    <2>1. Steady /\ text # NoChat
      BY <1>8 DEF SendText, PatientInv
    <2>2. text = current
      BY <2>1 DEF Steady
    <2>3. text' = NoChat /\ astray' = {}
      BY <1>8, <2>1, <2>2 DEF SendText, Steady
    <2> QED
      BY <1>8, <2>1, <2>3 DEF SendText, Steady, Live, windowVars, waiterVars
  <1>9. CASE ShowNext \/ UNCHANGED vars
    BY <1>1, <1>9 DEF ShowNext, vars, PatientInv
  <1> QED
    BY <1>2, <1>3, <1>4, <1>5, <1>6, <1>7, <1>8, <1>9 DEF Next

\* While the user waits for the goroutines, the window does not hang, every
\* session that was left has been told to end, and every text arrives.
THEOREM PatientUserServed == Spec => []PatientUser
  <1>1. Init => Base /\ PatientInv
    <2>1. ASSUME Init PROVE PatientInv
      BY <2>1 DEF Init, PatientInv, Steady, Live, Sessions
    <2> QED
      BY <2>1, BaseInit
  <1>2. Base /\ PatientInv => PatientUser
    BY DEF Base, TypeOK, PatientInv, PatientUser, Steady, Live, WindowAnswers, SessionsEnd, TextsArrive
  <1> QED
    BY <1>1, <1>2, BaseStep, PatientStep, PTL DEF Spec

-----------------------------------------------------------------------------
(* What a session shows twice. *)

\* Message m has been stored by the listener of session k on server s.
Done(k, s, m) ==
    <<k, s, m>> \in queue \cup shown \/ (pc[k][s] = "relay" /\ msg[k][s] = m)

\* A message in the hand of the listener of session k on server s.
InHand(k, s, m) == pc[k][s] \in {"got", "relay"} /\ msg[k][s] = m

\* What a session shows is stored; the listeners start after the page, and
\* what they have, the page has not.
ApartInv ==
    /\ \A k \in Sessions : page[k] \subseteq stored
    /\ \A i \in queue \cup shown : i[3] \in stored
    /\ \A i \in queue \cup shown : i[2] # Page => loader[i[1]] = "listen"
    /\ \A k \in Sessions, s \in Servers, m \in Messages :
          <<k, Page, m>> \in queue \cup shown =>
              ~InHand(k, s, m) /\ <<k, s, m>> \notin queue \cup shown

RacedInv ==
    \A k \in Sessions, s, t \in Servers, m \in Messages :
        Done(k, s, m) /\ Done(k, t, m) /\ s # t => m \in raced

TwiceInv == ApartInv /\ RacedInv

\* Steps that give the window nothing and leave loaders and listeners alone.
LEMMA TwiceQuiet ==
    ASSUME TwiceInv, queue' \cup shown' \subseteq queue \cup shown,
           UNCHANGED <<page, pc, msg, stored, raced>>,
           \A k \in Sessions : loader[k] = "listen" => loader'[k] = "listen",
           \A i \in queue \cup shown : i[1] \in Sessions
    PROVE  TwiceInv'
  <1>1. ApartInv'
    BY DEF TwiceInv, ApartInv, InHand
  <1>2. RacedInv'
    BY DEF TwiceInv, RacedInv, Done
  <1> QED
    BY <1>1, <1>2 DEF TwiceInv

\* The loader of a session shows what is stored, before there are listeners.
LEMMA TwiceLoader ==
    ASSUME Base, TwiceInv, NEW k \in Sessions, Loader(k)
    PROVE  TwiceInv'
  <1>1. /\ page \in [Sessions -> SUBSET Messages]
        /\ loader \in [Sessions -> {"none", "count", "page", "listen", "failed"}]
        /\ \A i \in queue \cup shown : i[1] \in Sessions /\ i[2] \in Servers \cup {Page}
    BY DEF Base, TypeOK, Items
  <1>2. \A i \in queue \cup shown : i[2] # Page => loader[i[1]] = "listen"
    BY DEF TwiceInv, ApartInv
  <1>3. CASE LoadCount(k) \/ LoadFails(k)
    <2>1. /\ UNCHANGED <<pc, msg, stored, raced, queue, shown>>
          /\ page'[k] \subseteq stored
          /\ loader[k] # "listen"
          /\ \A j \in Sessions \ {k} : page'[j] = page[j] /\ loader'[j] = loader[j]
      BY <1>1, <1>3 DEF LoadCount, LoadFails, listeners
    <2>2. ApartInv'
      BY <1>1, <2>1 DEF TwiceInv, ApartInv, InHand
    <2>3. RacedInv'
      BY <2>1 DEF TwiceInv, RacedInv, Done
    <2> QED
      BY <2>2, <2>3 DEF TwiceInv
  <1>4. CASE LoadMessage(k)
    <2>1. PICK m \in page[k] : /\ page' = [page EXCEPT ![k] = @ \ {m}]
                               /\ queue' = queue \cup {<<k, Page, m>>}
      BY <1>4 DEF LoadMessage
    <2>2. loader[k] = "page" /\ UNCHANGED <<pc, msg, stored, raced, shown, loader>>
      BY <1>4 DEF LoadMessage, listeners
    <2>3. m \in stored /\ \A s \in Servers : pc[k][s] = "off"
      BY <2>1, <2>2 DEF TwiceInv, ApartInv, Base, IdleInv
    <2>4. \A s \in Servers : s # Page
      OBVIOUS
    <2>5. \A s \in Servers, n \in Messages :
             ~InHand(k, s, n)' /\ <<k, s, n>> \notin queue' \cup shown'
      <3> TAKE s \in Servers, n \in Messages
      <3>1. <<k, s, n>> \notin queue \cup shown
        BY <1>2, <2>2, <2>4
      <3> QED
        BY <2>1, <2>2, <2>3, <2>4, <3>1 DEF InHand
    <2>6. /\ \A j \in Sessions : page'[j] \subseteq stored'
          /\ \A i \in queue' \cup shown' : i[3] \in stored'
          /\ \A i \in queue' \cup shown' : i[2] # Page => loader'[i[1]] = "listen"
      BY <1>1, <2>1, <2>2, <2>3 DEF TwiceInv, ApartInv
    <2>7. ApartInv'
      BY <2>1, <2>2, <2>5, <2>6, <2>4 DEF TwiceInv, ApartInv, InHand
    <2>8. RacedInv'
      BY <2>1, <2>2, <2>4 DEF TwiceInv, RacedInv, Done
    <2> QED
      BY <2>7, <2>8 DEF TwiceInv
  <1>5. CASE LoadDone(k)
    <2>1. /\ UNCHANGED <<page, msg, stored, raced, queue, shown>>
          /\ \A s \in Servers : pc'[k][s] = "poll"
          /\ \A j \in Sessions \ {k} : pc'[j] = pc[j] /\ loader'[j] = loader[j]
          /\ loader'[k] = "listen"
      BY <1>1, <1>5 DEF LoadDone, StartListeners, Base, TypeOK
    <2>2. ApartInv'
      BY <1>1, <2>1 DEF TwiceInv, ApartInv, InHand
    <2>3. RacedInv'
      BY <2>1 DEF TwiceInv, RacedInv, Done
    <2> QED
      BY <2>2, <2>3 DEF TwiceInv
  <1> QED
    BY <1>3, <1>4, <1>5 DEF Loader

\* A listener receives what is not stored, and shows what it has stored.
LEMMA TwiceListener ==
    ASSUME Base, Base', TwiceInv, NEW k \in Sessions, NEW s \in Servers, Listener(k, s)
    PROVE  TwiceInv'
  <1>1. UNCHANGED <<loader, page, shown>> /\ stored \subseteq stored' /\ raced \subseteq raced'
    BY DEF Listener, Receive, Store, StoreFails, Relay, RelayFails, ListenerEnds
  <1>2. \A j \in Sessions, t \in Servers : (j # k \/ t # s) =>
           pc'[j][t] = pc[j][t] /\ msg'[j][t] = msg[j][t]
    BY DEF Listener, Receive, Store, StoreFails, Relay, RelayFails, ListenerEnds, Continue,
       Base, TypeOK
  <1>3. /\ pc' \in [Sessions -> [Servers -> ListenerPCs]]
        /\ msg' \in [Sessions -> [Servers -> Messages \cup {NoMessage}]]
        /\ Page \notin Servers
    BY DEF Base, TypeOK, ListenerPCs
  <1>4. loader[k] = "listen"
    BY DEF Listener, Receive, Store, StoreFails, Relay, RelayFails, ListenerEnds, Base,
       IdleInv
  <1>5. ASSUME UNCHANGED queue,
               \A m \in Messages : InHand(k, s, m)' => m \notin stored \/ InHand(k, s, m)
        PROVE  ApartInv'
    <2>1. \A j \in Sessions, t \in Servers, m \in Messages :
             InHand(j, t, m)' => m \notin stored \/ InHand(j, t, m)
      BY <1>2, <1>5 DEF InHand
    <2> QED
      BY <1>1, <1>5, <2>1 DEF TwiceInv, ApartInv
  <1>6. ASSUME UNCHANGED queue, \A m \in Messages : Done(k, s, m)' => Done(k, s, m)
        PROVE  RacedInv'
    <2>1. \A j \in Sessions, t \in Servers, m \in Messages :
             Done(j, t, m)' => Done(j, t, m)
      BY <1>1, <1>2, <1>6 DEF Done
    <2> QED
      BY <1>1, <2>1 DEF TwiceInv, RacedInv
  <1>7. CASE Receive(k, s)
    <2>1. UNCHANGED queue /\ pc'[k][s] = "got" /\ msg'[k][s] \notin stored
      BY <1>7 DEF Receive, Base, TypeOK
    <2> QED
      BY <1>1, <1>5, <1>6, <2>1 DEF InHand, Done, TwiceInv
  <1>8. CASE Store(k, s)
    <2> DEFINE m == msg[k][s]
    <2>1. /\ UNCHANGED <<queue, msg>> /\ pc[k][s] = "got" /\ pc'[k][s] = "relay"
          /\ m \in stored => m \in raced'
          /\ m \in Messages
      BY <1>8, HasMessage DEF Store, Base, TypeOK
    <2>2. ApartInv'
      BY <1>5, <2>1 DEF InHand
    <2>3. \A j \in Sessions, t \in Servers, n \in Messages :
             Done(j, t, n)' => Done(j, t, n) \/ (j = k /\ t = s /\ n = m)
      BY <1>1, <1>2, <2>1 DEF Done
    <2>4. \A j \in Sessions, t \in Servers, n \in Messages : Done(j, t, n) => n \in stored
      BY DEF Done, TwiceInv, ApartInv, Base, RelayInv
    <2>5. RacedInv'
      BY <1>1, <2>1, <2>3, <2>4 DEF TwiceInv, RacedInv
    <2> QED
      BY <2>2, <2>5 DEF TwiceInv
  <1>9. CASE Relay(k, s)
    <2> DEFINE m == msg[k][s]
    <2>1. /\ pc[k][s] = "relay" /\ pc'[k][s] = "poll" /\ m \in Messages /\ m \in stored
          /\ queue' = queue \cup {<<k, s, m>>} /\ UNCHANGED <<stored, raced>>
      BY <1>9, HasMessage DEF Relay, Continue, Base, TypeOK, RelayInv
    <2>2. \A j \in Sessions, t \in Servers, n \in Messages :
             InHand(j, t, n)' => InHand(j, t, n)
      BY <1>2, <2>1 DEF InHand
    <2>3. \A n \in Messages : <<k, Page, n>> \in queue \cup shown => n # m
      BY <2>1 DEF TwiceInv, ApartInv, InHand
    <2>4. /\ \A j \in Sessions : page'[j] \subseteq stored'
          /\ \A i \in queue' \cup shown' : i[3] \in stored'
          /\ \A i \in queue' \cup shown' : i[2] # Page => loader'[i[1]] = "listen"
      BY <1>1, <1>4, <2>1 DEF TwiceInv, ApartInv
    <2>5. \A j \in Sessions, n \in Messages :
             <<j, Page, n>> \in queue' \cup shown' => <<j, Page, n>> \in queue \cup shown
      BY <1>1, <1>3, <2>1
    <2>6. ApartInv'
      BY <1>1, <2>1, <2>2, <2>3, <2>4, <2>5 DEF TwiceInv, ApartInv
    <2>7. \A j \in Sessions, t \in Servers, n \in Messages :
             Done(j, t, n)' => Done(j, t, n)
      BY <1>1, <1>2, <2>1 DEF Done
    <2>8. RacedInv'
      BY <2>1, <2>7 DEF TwiceInv, RacedInv
    <2> QED
      BY <2>6, <2>8 DEF TwiceInv
  <1>10. CASE StoreFails(k, s) \/ RelayFails(k, s) \/ ListenerEnds(k, s)
    <2>1. UNCHANGED queue /\ pc'[k][s] \in {"off", "poll"}
      BY <1>10 DEF StoreFails, RelayFails, ListenerEnds, Continue, Base, TypeOK
    <2> QED
      BY <1>1, <1>5, <1>6, <2>1 DEF InHand, Done, TwiceInv
  <1> QED
    BY <1>7, <1>8, <1>9, <1>10 DEF Listener

LEMMA TwiceStep == Base /\ Base' /\ TwiceInv /\ [Next]_vars => TwiceInv'
  <1> SUFFICES ASSUME Base, Base', TwiceInv, [Next]_vars PROVE TwiceInv'
    OBVIOUS
  <1>0. /\ waiter \in [Sessions -> WaiterPCs]
        /\ \A i \in queue \cup shown : i[1] \in Sessions
    BY DEF Base, TypeOK, WaiterPCs, Items
  <1>1. ASSUME NEW c \in Chats \cup {NoChat}, NEW w \in [Sessions -> WaiterPCs],
               Enter(c, w)
        PROVE  \A k \in Sessions : loader[k] = "listen" => loader'[k] = "listen"
    BY <1>1, EnterEffect DEF Base, FreshInv
  <1>2. ASSUME NEW c \in Chats \cup {NoChat}, SwitchTo(c) PROVE TwiceInv'
    BY <1>0, <1>1, <1>2, TwiceQuiet DEF SwitchTo, listeners
  <1>3. ASSUME NEW k \in Sessions, Rendezvous(k) PROVE TwiceInv'
    <2>1. [waiter EXCEPT ![k] = "received"] \in [Sessions -> WaiterPCs]
          /\ next \in Chats \cup {NoChat}
      BY <1>0 DEF Base, TypeOK, WaiterPCs
    <2> QED
      BY <1>0, <1>1, <1>3, <2>1, TwiceQuiet DEF Rendezvous, listeners
  <1>4. CASE (\E k \in Sessions : Waiter(k)) \/ ShowNext \/ EnterText \/ SendText
             \/ UNCHANGED vars
    BY <1>0, <1>4, TwiceQuiet DEF Waiter, WaiterStart, WaiterOff, WaiterCancel, ShowNext,
       EnterText, SendText, vars, listeners
  <1> QED
    BY <1>2, <1>3, <1>4, TwiceLoader, TwiceListener DEF Next

\* What is on the screen twice in one session was stored by two listeners,
\* both of which had asked the database before either stored it.
THEOREM TwiceOnlyIfRacedAlways == Spec => []TwiceOnlyIfRaced
  <1>1. Init => Base /\ TwiceInv
    BY BaseInit DEF Init, TwiceInv, ApartInv, RacedInv, Done, InHand
  <1>2. Base /\ TwiceInv => TwiceOnlyIfRaced
    <2> SUFFICES ASSUME Base, TwiceInv, NEW i \in shown, NEW j \in shown,
                        i[1] = j[1], i[3] = j[3], i # j
                 PROVE  i[2] \in Servers /\ j[2] \in Servers /\ i[3] \in raced
      BY DEF TwiceOnlyIfRaced
    <2>1. PICK k \in Sessions, s \in Servers \cup {Page}, m \in Messages : i = <<k, s, m>>
      BY DEF Base, TypeOK, Items
    <2>2. PICK l \in Sessions, t \in Servers \cup {Page}, n \in Messages : j = <<l, t, n>>
      BY DEF Base, TypeOK, Items
    <2>3. l = k /\ n = m /\ s # t
      BY <2>1, <2>2
    <2>4. s \in Servers /\ t \in Servers
      BY <2>1, <2>2, <2>3 DEF TwiceInv, ApartInv
    <2>5. m \in raced
      BY <2>1, <2>2, <2>3, <2>4 DEF TwiceInv, RacedInv, Done
    <2> QED
      BY <2>1, <2>2, <2>4, <2>5
  <1> QED
    BY <1>1, <1>2, BaseStep, TwiceStep, PTL DEF Spec

-----------------------------------------------------------------------------
(* What the open chat shows. *)

\* Message m is on the screen, or on its way there.
Underway(m) ==
    \/ \E i \in queue \cup shown : i[3] = m
    \/ \E k \in Sessions, s \in Servers : msg[k][s] = m /\ pc[k][s] = "relay"

\* Messages that session k has to show.
Due(k) == (stored \cap MessagesOf(chat[k])) \ quiet

\* ScreenComplete, from the moment on at which the page is counted.
ScreenInv ==
    /\ \A k \in Sessions : loader[k] = "listen" => page[k] = {}
    /\ (view # 0 /\ loader[view] \in {"page", "listen"}) =>
          \A m \in Due(view) : m \in page[view] \/ Underway(m)

\* A switch shows no page, or that of a session whose loader has not begun.
LEMMA ScreenEnter ==
    ASSUME Base, ScreenInv, NEW c \in Chats \cup {NoChat},
           NEW w \in [Sessions -> WaiterPCs], Enter(c, w), UNCHANGED page
    PROVE  ScreenInv'
  <1>1. CASE view' = 0 /\ UNCHANGED loader
    BY <1>1 DEF ScreenInv
  <1>2. ASSUME NEW n \in Sessions, view' = n, loader'[n] = "count",
               \A k \in Sessions \ {n} : loader'[k] = loader[k]
        PROVE  ScreenInv'
    BY <1>2 DEF ScreenInv
  <1> QED
    BY <1>1, <1>2, EnterEffect DEF Base

LEMMA ScreenLoader ==
    ASSUME Base, ScreenInv, NEW k \in Sessions, Loader(k)
    PROVE  ScreenInv'
  <1>1. /\ page \in [Sessions -> SUBSET Messages] /\ view \in Sessions \cup {0}
        /\ loader \in [Sessions -> {"none", "count", "page", "listen", "failed"}]
    BY DEF Base, TypeOK
  <1>2. UNCHANGED <<view, chat, stored, shown, msg>> /\ loader[k] # "listen"
    BY DEF Loader, LoadCount, LoadMessage, LoadFails, LoadDone, StartListeners,
       windowVars, listeners
  <1>3. \A j \in Sessions \ {k} : page'[j] = page[j] /\ loader'[j] = loader[j]
    BY <1>1 DEF Loader, LoadCount, LoadMessage, LoadFails, LoadDone, StartListeners
  <1>4. queue \subseteq queue'
    BY DEF Loader, LoadCount, LoadMessage, LoadFails, LoadDone, StartListeners
  <1>5. \A j \in Sessions, s \in Servers : pc[j][s] = "relay" => pc'[j][s] = "relay"
    <2>1. \A s \in Servers : pc[k][s] # "relay"
      BY <1>2 DEF Base, IdleInv
    <2>2. \A j \in Sessions \ {k} : pc'[j] = pc[j]
      BY DEF Loader, LoadCount, LoadMessage, LoadFails, LoadDone, StartListeners,
         listeners, Base, TypeOK
    <2> QED
      BY <2>1, <2>2
  <1>6. \A m : Underway(m) => Underway(m)'
    BY <1>2, <1>4, <1>5 DEF Underway
  <1>7. loader'[k] = "listen" => page'[k] = {}
    BY <1>1, <1>2 DEF Loader, LoadCount, LoadMessage, LoadFails, LoadDone, StartListeners
  <1>8. \A j \in Sessions : loader'[j] = "listen" => page'[j] = {}
    BY <1>3, <1>7 DEF ScreenInv
  <1>9. CASE view # k
    <2>1. quiet' = quiet
      BY <1>9 DEF Loader, LoadCount, LoadMessage, LoadFails, LoadDone, StartListeners
    <2> QED
      BY <1>1, <1>2, <1>3, <1>6, <1>8, <1>9, <2>1 DEF ScreenInv, Due, MessagesOf
  <1>10. CASE view = k
    <2>1. CASE LoadCount(k)
      BY <1>1, <1>2, <1>8, <1>10, <2>1 DEF LoadCount, ScreenInv, Due, MessagesOf
    <2>2. CASE LoadMessage(k)
      <3>1. PICK n \in page[k] : /\ page' = [page EXCEPT ![k] = @ \ {n}]
                                 /\ queue' = queue \cup {<<k, Page, n>>}
        BY <2>2 DEF LoadMessage
      <3>2. page'[k] = page[k] \ {n} /\ UNCHANGED <<loader, quiet>> /\ loader[k] = "page"
        BY <1>1, <2>2, <3>1 DEF LoadMessage
      <3>3. Underway(n)'
        <4>1. <<k, Page, n>> \in queue' \cup shown' /\ <<k, Page, n>>[3] = n
          BY <3>1
        <4> QED
          BY <4>1 DEF Underway
      <3> QED
        BY <1>2, <1>6, <1>8, <1>10, <3>2, <3>3 DEF ScreenInv, Due, MessagesOf
    <2>3. CASE LoadFails(k)
      BY <1>1, <1>2, <1>8, <1>10, <2>3 DEF LoadFails, ScreenInv
    <2>4. CASE LoadDone(k)
      <3>1. UNCHANGED <<page, quiet>> /\ loader[k] = "page"
        BY <2>4 DEF LoadDone, StartListeners
      <3> QED
        BY <1>2, <1>6, <1>8, <1>10, <3>1 DEF ScreenInv, Due, MessagesOf
    <2> QED
      BY <2>1, <2>2, <2>3, <2>4 DEF Loader
  <1> QED
    BY <1>9, <1>10

LEMMA ScreenListener ==
    ASSUME Base, ScreenInv, NEW k \in Sessions, NEW s \in Servers, Listener(k, s)
    PROVE  ScreenInv'
  <1>1. UNCHANGED <<view, chat, loader, page, shown>> /\ queue \subseteq queue'
        /\ quiet \subseteq quiet'
    BY DEF Listener, Receive, Store, StoreFails, Relay, RelayFails, ListenerEnds, windowVars
  <1>2. \A j \in Sessions, t \in Servers : (j # k \/ t # s) =>
           pc'[j][t] = pc[j][t] /\ msg'[j][t] = msg[j][t]
    BY DEF Listener, Receive, Store, StoreFails, Relay, RelayFails, ListenerEnds, Continue,
       Base, TypeOK
  <1> DEFINE Held(m) == pc[k][s] = "relay" /\ msg[k][s] = m
  <1>3. ASSUME \A m : Held(m) => Underway(m)' \/ m \in quiet'
        PROVE  \A m : Underway(m) => Underway(m)' \/ m \in quiet'
    <2> SUFFICES ASSUME NEW m, Underway(m) PROVE Underway(m)' \/ m \in quiet'
      OBVIOUS
    <2>1. CASE \E i \in queue \cup shown : i[3] = m
      BY <1>1, <2>1 DEF Underway
    <2>2. ASSUME NEW j \in Sessions, NEW t \in Servers, msg[j][t] = m, pc[j][t] = "relay",
                 ~Held(m)
          PROVE  Underway(m)'
      BY <1>2, <2>2 DEF Underway
    <2> QED
      BY <1>3, <2>1, <2>2 DEF Underway
  <1>4. ASSUME \A m : Held(m) => Underway(m)' \/ m \in quiet',
               \A m \in stored' \ stored : Underway(m)'
        PROVE  ScreenInv'
    BY <1>1, <1>3, <1>4 DEF ScreenInv, Due, MessagesOf
  <1>5. CASE Receive(k, s) \/ StoreFails(k, s) \/ ListenerEnds(k, s)
    BY <1>4, <1>5 DEF Receive, StoreFails, ListenerEnds
  <1>6. CASE Store(k, s)
    <2>1. /\ stored' = stored \cup {msg[k][s]} /\ pc[k][s] # "relay"
          /\ pc'[k][s] = "relay" /\ msg'[k][s] = msg[k][s]
      BY <1>6 DEF Store, Base, TypeOK
    <2>2. \A m \in {msg[k][s]} : Underway(m)'
      BY <2>1 DEF Underway
    <2> QED
      BY <1>4, <2>1, <2>2
  <1>7. CASE Relay(k, s)
    <2>1. <<k, s, msg[k][s]>> \in queue' /\ UNCHANGED stored
      BY <1>7 DEF Relay
    <2>2. \A m \in {msg[k][s]} : Underway(m)'
      BY <2>1 DEF Underway
    <2> QED
      BY <1>4, <2>1, <2>2
  <1>8. CASE RelayFails(k, s)
    BY <1>4, <1>8 DEF RelayFails
  <1> QED
    BY <1>5, <1>6, <1>7, <1>8 DEF Listener

LEMMA ScreenStep == Base /\ ScreenInv /\ [Next]_vars => ScreenInv'
  <1> SUFFICES ASSUME Base, ScreenInv, [Next]_vars PROVE ScreenInv'
    OBVIOUS
  <1>1. waiter \in [Sessions -> WaiterPCs] /\ next \in Chats \cup {NoChat}
    BY DEF Base, TypeOK, WaiterPCs
  <1>2. ASSUME UNCHANGED <<chat, loader, page, pc, msg, stored, quiet>>,
               queue \cup shown \subseteq queue' \cup shown', view' \in {view, 0}
        PROVE  ScreenInv'
    <2>1. \A m : Underway(m) => Underway(m)'
      BY <1>2 DEF Underway
    <2> QED
      BY <1>2, <2>1 DEF ScreenInv, Due, MessagesOf
  <1>3. ASSUME NEW c \in Chats \cup {NoChat}, SwitchTo(c) PROVE ScreenInv'
    <2>1. CASE ~active /\ Enter(c, waiter) /\ UNCHANGED <<window, next>>
      BY <1>1, <1>3, <2>1, ScreenEnter DEF SwitchTo
    <2>2. CASE view' = 0 /\ UNCHANGED loader
      BY <1>3, <2>2 DEF SwitchTo, ScreenInv
    <2> QED
      BY <1>3, <2>1, <2>2 DEF SwitchTo
  <1>4. ASSUME NEW k \in Sessions, Rendezvous(k) PROVE ScreenInv'
    <2>1. [waiter EXCEPT ![k] = "received"] \in [Sessions -> WaiterPCs]
      BY <1>1 DEF WaiterPCs
    <2> QED
      BY <1>1, <1>4, <2>1, ScreenEnter DEF Rendezvous
  <1>5. CASE (\E k \in Sessions : Waiter(k)) \/ ShowNext \/ EnterText \/ SendText
             \/ UNCHANGED vars
    BY <1>2, <1>5 DEF Waiter, WaiterStart, WaiterOff, WaiterCancel, ShowNext,
       EnterText, SendText, vars, windowVars, listeners
  <1> QED
    BY <1>3, <1>4, <1>5, ScreenLoader, ScreenListener DEF Next

\* Once the page of the open chat is loaded, what is stored of the chat is on
\* the screen or on its way there, but for failed pushes.
THEOREM ScreenCompleteAlways == Spec => []ScreenComplete
  <1>1. Init => Base /\ ScreenInv
    BY BaseInit DEF Init, ScreenInv
  <1>2. Base /\ ScreenInv => ScreenComplete
    BY DEF Base, TypeOK, ScreenInv, ScreenComplete, Due, Underway
  <1> QED
    BY <1>1, <1>2, BaseStep, ScreenStep, PTL DEF Spec
=============================================================================
