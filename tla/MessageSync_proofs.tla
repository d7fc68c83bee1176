------------------------- MODULE MessageSync_proofs -------------------------
(***************************************************************************)
(* Proofs about MessageSync: every variable keeps its type, and every      *)
(* listener of every client, among all the others, is a MessageListener.   *)
(* The second makes what Messages_proofs shows of one listener hold of     *)
(* each of them, whatever the number of clients and servers.               *)
(***************************************************************************)
EXTENDS MessageSync, TLAPS

Places == {"off", "search", "listen", "got", "relay"}

Listener == [pc : Places, low : Nat, high : Int,
             counter : Nat, size : Nat, msg : Messages \cup {NoMessage}, next : Nat]

\* A listener holds a message between its receipt and the end of its relay, and
\* one that is off has forgotten everything.
Sound(l) ==
    /\ l \in Listener
    /\ IF l.pc \in {"got", "relay"} THEN l.msg \in Messages ELSE l.msg = NoMessage
    /\ l.pc = "relay" => l.next \in Servers
    /\ l.pc = "off" => l = Idle

Inv ==
    /\ srvLog \in [Servers -> Seq(Messages)]
    /\ via \in [Users -> [Messages -> 0..NServers]]
    /\ chatOpen \in [Users -> BOOLEAN]
    /\ lst \in [Users -> [Servers -> Listener]]
    /\ \A u \in Users, s \in Servers : Sound(lst[u][s])
    /\ held \in [Users -> [Servers -> SUBSET Messages]]
    /\ failed \in [Users -> [Servers -> SUBSET Messages]]
    /\ sending \in [Messages -> 0..(NServers + 1)]
    /\ faults \in 0..MaxFaults

USE NServersAssumption, AuthorAssumption, NoMessageAssumption, MaxFaultsAssumption

LEMMA IdleSound == Sound(Idle)
  BY DEF Sound, Idle, Listener, Places

LEMMA InitInv == Init => Inv
  BY IdleSound, 0 \in 0..NServers, 0 \in 0..(NServers + 1), 0 \in 0..MaxFaults
  DEF Init, Inv, Servers, Sound

\* The record of one listener changes.
LEMMA BecomeAt ==
    ASSUME Inv, NEW u \in Users, NEW s \in Servers, NEW l, Sound(l), Become(u, s, l)
    PROVE  /\ lst' \in [Users -> [Servers -> Listener]] /\ lst'[u][s] = l
           /\ \A v \in Users, t \in Servers : v # u \/ t # s => lst'[v][t] = lst[v][t]
           /\ \A v \in Users, t \in Servers : Sound(lst'[v][t])
  BY DEF Inv, Become, Sound

\* The middle of an interval that is not empty lies in it.
LEMMA MidBetween ==
    ASSUME NEW l \in Listener, l.low <= l.high
    PROVE  Mid(l) \in Nat
  <1>1. l.low \in Nat /\ l.high \in Int
    BY DEF Listener
  <1>2. (l.high - l.low) \div 2 \in Nat
    BY <1>1
  <1> QED
    BY <1>1, <1>2 DEF Mid

-----------------------------------------------------------------------------
(* What an action does to the listener that takes it. *)

LEMMA StartSessionEffect ==
    ASSUME Inv, NEW u \in Users, NEW s \in Servers, StartSession(u, s), NEW l, l = lst'[u][s]
    PROVE  /\ lst[u][s] = Idle /\ Become(u, s, l) /\ Sound(l)
           /\ l.pc = "search" /\ l.low = 0 /\ l.high = Len(srvLog[s]) - 1 /\ l.counter = 0
           /\ l.size = Len(srvLog[s]) /\ l.msg = NoMessage
  <1> DEFINE n == Len(srvLog[s])
             h == n - 1
             k == [Idle EXCEPT !.pc = "search", !.size = n, !.high = h]
  <1>1. Sound(lst[u][s]) /\ lst[u][s].pc = "off" /\ n \in Nat /\ h \in Int
    BY DEF StartSession, Inv
  <1> HIDE DEF n, h
  <1>2. /\ k.pc = "search" /\ k.low = 0 /\ k.high = h /\ k.counter = 0
        /\ k.size = n /\ k.msg = NoMessage
    BY DEF Idle
  <1>3. Sound(k)
    <2>1. Idle \in Listener /\ "search" \in Places
      BY IdleSound DEF Sound, Places
    <2>2. k \in Listener
      BY <1>1, <2>1, Zenon DEF Listener
    <2> QED
      BY <1>2, <2>2 DEF Sound
  <1>4. Become(u, s, k)
    BY DEF StartSession, n, h
  <1> HIDE DEF k
  <1>5. l = k
    BY <1>3, <1>4, BecomeAt
  <1> QED
    BY <1>1, <1>2, <1>3, <1>4, <1>5 DEF Sound, n, h

LEMMA ProbeEffect ==
    ASSUME Inv, NEW u \in Users, NEW s \in Servers, Probe(u, s),
           NEW k, k = lst[u][s], NEW l, l = lst'[u][s]
    PROVE  /\ k.pc = "search" /\ k.low <= k.high /\ Become(u, s, l) /\ Sound(l)
           /\ l.pc = "search" /\ l.counter = Mid(k) /\ l.size = k.size /\ l.msg = k.msg
           /\ \/ At(s, Mid(k)) \in Known(u)    /\ l.low = Mid(k) + 1 /\ l.high = k.high
              \/ At(s, Mid(k)) \notin Known(u) /\ l.high = Mid(k) - 1 /\ l.low = k.low
  <1> DEFINE n == Mid(k)
             up == n + 1
             down == n - 1
  <1>1. Sound(k) /\ k \in Listener /\ k.pc = "search" /\ k.low <= k.high
    BY DEF Probe, Inv, Sound
  <1>2. n \in Nat /\ up \in Nat /\ down \in Int
    BY <1>1, MidBetween
  <1> HIDE DEF n, up, down
  <1>3. \/ At(s, n) \in Known(u) /\ Become(u, s, [k EXCEPT !.counter = n, !.low = up])
        \/ At(s, n) \notin Known(u) /\ Become(u, s, [k EXCEPT !.counter = n, !.high = down])
    BY DEF Probe, n, up, down
  <1>4. CASE At(s, n) \in Known(u) /\ Become(u, s, [k EXCEPT !.counter = n, !.low = up])
    <2> DEFINE j == [k EXCEPT !.counter = n, !.low = up]
    <2>1. j \in Listener
      BY <1>1, <1>2, Zenon DEF Listener
    <2>2. /\ j.pc = "search" /\ j.counter = n /\ j.size = k.size /\ j.msg = k.msg
          /\ j.low = up /\ j.high = k.high
      BY <1>1 DEF Listener
    <2>3. Sound(j)
      BY <1>1, <2>1, <2>2 DEF Sound
    <2>4. Become(u, s, j)
      BY <1>4
    <2> HIDE DEF j
    <2>5. l = j
      BY <2>3, <2>4, BecomeAt
    <2> QED
      BY <1>1, <1>4, <2>2, <2>3, <2>4, <2>5 DEF n, up, down
  <1>5. CASE At(s, n) \notin Known(u) /\ Become(u, s, [k EXCEPT !.counter = n, !.high = down])
    <2> DEFINE j == [k EXCEPT !.counter = n, !.high = down]
    <2>1. j \in Listener
      BY <1>1, <1>2, Zenon DEF Listener
    <2>2. /\ j.pc = "search" /\ j.counter = n /\ j.size = k.size /\ j.msg = k.msg
          /\ j.low = k.low /\ j.high = down
      BY <1>1 DEF Listener
    <2>3. Sound(j)
      BY <1>1, <2>1, <2>2 DEF Sound
    <2>4. Become(u, s, j)
      BY <1>5
    <2> HIDE DEF j
    <2>5. l = j
      BY <2>3, <2>4, BecomeAt
    <2> QED
      BY <1>1, <1>5, <2>2, <2>3, <2>4, <2>5 DEF n, up, down
  <1> QED
    BY <1>3, <1>4, <1>5

LEMMA SearchDoneEffect ==
    ASSUME Inv, NEW u \in Users, NEW s \in Servers, SearchDone(u, s),
           NEW k, k = lst[u][s], NEW l, l = lst'[u][s]
    PROVE  /\ k.pc = "search" /\ k.low > k.high /\ Become(u, s, l) /\ Sound(l)
           /\ l.pc = "listen" /\ l.low = 0 /\ l.high = -1 /\ l.counter = k.counter
           /\ l.size = k.size /\ l.msg = k.msg
  <1> DEFINE h == -1
             z == 0
             j == [k EXCEPT !.pc = "listen", !.low = z, !.high = h]
  <1>1. Sound(k) /\ k \in Listener /\ k.pc = "search" /\ k.low > k.high
    BY DEF SearchDone, Inv, Sound
  <1>2. Become(u, s, j)
    BY DEF SearchDone
  <1>3. h \in Int /\ z \in Nat /\ "listen" \in Places
    BY DEF Places
  <1> HIDE DEF h, z
  <1>4. j \in Listener
    BY <1>1, <1>3, Zenon DEF Listener
  <1>5. /\ j.pc = "listen" /\ j.low = z /\ j.high = h /\ j.counter = k.counter
        /\ j.size = k.size /\ j.msg = k.msg
    BY <1>1 DEF Listener
  <1>6. Sound(j)
    BY <1>1, <1>4, <1>5 DEF Sound
  <1> HIDE DEF j
  <1>7. l = j
    BY <1>2, <1>6, BecomeAt
  <1> QED
    BY <1>1, <1>2, <1>5, <1>6, <1>7 DEF h, z

LEMMA SearchErrorEffect ==
    ASSUME Inv, NEW u \in Users, NEW s \in Servers, SearchError(u, s)
    PROVE  lst[u][s].pc = "search" /\ Become(u, s, Idle) /\ lst'[u][s] = Idle
  BY IdleSound, BecomeAt DEF SearchError

LEMMA ListenEffect ==
    ASSUME Inv, NEW u \in Users, NEW s \in Servers, Listen(u, s),
           NEW k, k = lst[u][s], NEW l, l = lst'[u][s]
    PROVE  /\ k.pc = "listen" /\ k.counter < Len(srvLog[s]) /\ Become(u, s, l) /\ Sound(l)
           /\ l.counter = k.counter + 1 /\ l.low = k.low /\ l.high = k.high
           /\ l.size = k.size
           /\ \/ At(s, k.counter) \in Known(u)    /\ l.pc = "listen" /\ l.msg = k.msg
              \/ At(s, k.counter) \notin Known(u) /\ l.pc = "got" /\ l.msg = At(s, k.counter)
  <1> DEFINE n == k.counter + 1
             m == At(s, k.counter)
  <1>1. Sound(k) /\ k \in Listener /\ k.pc = "listen" /\ k.counter < Len(srvLog[s])
    BY DEF Listen, Inv, Sound
  <1>2. k.counter \in Nat /\ n \in Nat
    BY <1>1 DEF Listener
  <1>3. m \in Messages
    <2>1. srvLog[s] \in Seq(Messages)
      BY DEF Inv
    <2> QED
      BY <1>1, <1>2, <2>1 DEF At
  <1>4. \/ m \in Known(u) /\ Become(u, s, [k EXCEPT !.counter = n])
        \/ m \notin Known(u)
           /\ Become(u, s, [k EXCEPT !.counter = n, !.pc = "got", !.msg = m])
    BY DEF Listen
  <1> HIDE DEF n, m
  <1>5. CASE m \in Known(u) /\ Become(u, s, [k EXCEPT !.counter = n])
    <2> DEFINE j == [k EXCEPT !.counter = n]
    <2>1. j \in Listener
      BY <1>1, <1>2, Zenon DEF Listener
    <2>2. /\ j.pc = "listen" /\ j.counter = n /\ j.size = k.size /\ j.msg = k.msg
          /\ j.low = k.low /\ j.high = k.high
      BY <1>1 DEF Listener
    <2>3. Sound(j)
      BY <1>1, <2>1, <2>2 DEF Sound
    <2>4. Become(u, s, j)
      BY <1>5
    <2> HIDE DEF j
    <2>5. l = j
      BY <2>3, <2>4, BecomeAt
    <2> QED
      BY <1>1, <1>5, <2>2, <2>3, <2>4, <2>5 DEF n, m
  <1>6. CASE m \notin Known(u)
             /\ Become(u, s, [k EXCEPT !.counter = n, !.pc = "got", !.msg = m])
    <2> DEFINE j == [k EXCEPT !.counter = n, !.pc = "got", !.msg = m]
    <2>1. j \in Listener
      <3>1. "got" \in Places /\ m \in Messages \cup {NoMessage}
        BY <1>3 DEF Places
      <3> QED
        BY <1>1, <1>2, <3>1, Zenon DEF Listener
    <2>2. /\ j.pc = "got" /\ j.counter = n /\ j.size = k.size /\ j.msg = m
          /\ j.low = k.low /\ j.high = k.high
      BY <1>1 DEF Listener
    <2>3. Sound(j)
      BY <1>3, <2>1, <2>2 DEF Sound
    <2>4. Become(u, s, j)
      BY <1>6
    <2> HIDE DEF j
    <2>5. l = j
      BY <2>3, <2>4, BecomeAt
    <2> QED
      BY <1>1, <1>6, <2>2, <2>3, <2>4, <2>5 DEF n, m
  <1> QED
    BY <1>4, <1>5, <1>6

LEMMA StoreEffect ==
    ASSUME Inv, NEW u \in Users, NEW s \in Servers, Store(u, s),
           NEW k, k = lst[u][s], NEW l, l = lst'[u][s]
    PROVE  /\ k.pc = "got" /\ k.msg \in Messages /\ Become(u, s, l) /\ Sound(l)
           /\ l.pc = "relay" /\ l.low = k.low /\ l.high = k.high
           /\ l.counter = k.counter /\ l.size = k.size /\ l.msg = k.msg
  <1> DEFINE n == 1
             j == [k EXCEPT !.pc = "relay", !.next = n]
  <1>1. Sound(k) /\ k \in Listener /\ k.pc = "got" /\ k.msg \in Messages
    BY DEF Store, Inv, Sound
  <1>2. Become(u, s, j)
    BY DEF Store
  <1>3. n \in Nat /\ n \in Servers /\ "relay" \in Places
    BY DEF Places, Servers
  <1> HIDE DEF n
  <1>4. j \in Listener
    BY <1>1, <1>3, Zenon DEF Listener
  <1>5. /\ j.pc = "relay" /\ j.low = k.low /\ j.high = k.high /\ j.counter = k.counter
        /\ j.size = k.size /\ j.msg = k.msg /\ j.next = n
    BY <1>1 DEF Listener
  <1>6. Sound(j)
    BY <1>1, <1>3, <1>4, <1>5 DEF Sound
  <1> HIDE DEF j
  <1>7. l = j
    BY <1>2, <1>6, BecomeAt
  <1> QED
    BY <1>1, <1>2, <1>5, <1>6, <1>7

LEMMA StoreFailsEffect ==
    ASSUME Inv, NEW u \in Users, NEW s \in Servers, StoreFails(u, s),
           NEW k, k = lst[u][s], NEW l, l = lst'[u][s]
    PROVE  /\ k.pc = "got" /\ k.msg \in Messages /\ Become(u, s, l) /\ Sound(l)
           /\ l.pc = "listen" /\ l.low = k.low /\ l.high = k.high
           /\ l.counter = k.counter /\ l.size = k.size /\ l.msg = NoMessage
  <1> DEFINE j == [k EXCEPT !.pc = "listen", !.msg = NoMessage]
  <1>1. Sound(k) /\ k \in Listener /\ k.pc = "got" /\ k.msg \in Messages
    BY DEF StoreFails, Inv, Sound
  <1>2. Become(u, s, j)
    BY DEF StoreFails
  <1>3. "listen" \in Places /\ NoMessage \in Messages \cup {NoMessage}
    BY DEF Places
  <1>4. j \in Listener
    BY <1>1, <1>3, Zenon DEF Listener
  <1>5. /\ j.pc = "listen" /\ j.low = k.low /\ j.high = k.high /\ j.counter = k.counter
        /\ j.size = k.size /\ j.msg = NoMessage
    BY <1>1 DEF Listener
  <1>6. Sound(j)
    BY <1>1, <1>4, <1>5 DEF Sound
  <1> HIDE DEF j
  <1>7. l = j
    BY <1>2, <1>6, BecomeAt
  <1> QED
    BY <1>1, <1>2, <1>5, <1>6, <1>7

\* A listener that relays is, for the one who looks at its log alone, listening
\* before and after.
LEMMA RelayEffect ==
    ASSUME Inv, NEW u \in Users, NEW s \in Servers, Relay(u, s),
           NEW k, k = lst[u][s], NEW l, l = lst'[u][s]
    PROVE  /\ k.pc = "relay" /\ k.msg \in Messages /\ k.next \in Servers
           /\ Become(u, s, l) /\ Sound(l)
           /\ l.pc \in {"listen", "relay"} /\ l.low = k.low /\ l.high = k.high
           /\ l.counter = k.counter /\ l.size = k.size
  <1> DEFINE z == 0
             n == k.next + 1
             i == [k EXCEPT !.pc = "listen", !.msg = NoMessage, !.next = z]
             j == [k EXCEPT !.next = n]
  <1>1. /\ Sound(k) /\ k \in Listener /\ k.pc = "relay" /\ k.msg \in Messages
        /\ k.next \in Servers
    BY DEF Relay, Inv, Sound
  <1>2. Become(u, s, IF k.next = NServers THEN i ELSE j)
    BY DEF Relay
  <1>3. /\ z \in Nat /\ n \in Nat /\ (k.next # NServers => n \in Servers)
    BY <1>1 DEF Servers
  <1> HIDE DEF z, n
  <1>4. CASE k.next = NServers
    <2>1. i \in Listener
      <3>1. "listen" \in Places /\ NoMessage \in Messages \cup {NoMessage}
        BY DEF Places
      <3> QED
        BY <1>1, <1>3, <3>1, Zenon DEF Listener
    <2>2. /\ i.pc = "listen" /\ i.low = k.low /\ i.high = k.high
          /\ i.counter = k.counter /\ i.size = k.size /\ i.msg = NoMessage
      BY <1>1 DEF Listener
    <2>3. Sound(i)
      BY <2>1, <2>2 DEF Sound
    <2>4. Become(u, s, i)
      BY <1>2, <1>4
    <2> HIDE DEF i
    <2>5. l = i
      BY <2>3, <2>4, BecomeAt
    <2> QED
      BY <1>1, <2>2, <2>3, <2>4, <2>5
  <1>5. CASE k.next # NServers
    <2>1. j \in Listener
      BY <1>1, <1>3, Zenon DEF Listener
    <2>2. /\ j.pc = "relay" /\ j.low = k.low /\ j.high = k.high
          /\ j.counter = k.counter /\ j.size = k.size /\ j.msg = k.msg /\ j.next = n
      BY <1>1 DEF Listener
    <2>3. Sound(j)
      BY <1>1, <1>3, <1>5, <2>1, <2>2 DEF Sound
    <2>4. Become(u, s, j)
      BY <1>2, <1>5
    <2> HIDE DEF j
    <2>5. l = j
      BY <2>3, <2>4, BecomeAt
    <2> QED
      BY <1>1, <2>2, <2>3, <2>4, <2>5
  <1> QED
    BY <1>4, <1>5

-----------------------------------------------------------------------------
(* The invariant. *)

LEMMA PushType ==
    ASSUME Inv, NEW s \in Servers, NEW m \in Messages, Push(s, m)
    PROVE  srvLog' \in [Servers -> Seq(Messages)]
  BY DEF Inv, Push

LEMMA FaultType == Inv /\ Fault => faults' \in 0..MaxFaults
  BY DEF Inv, Fault

LEMMA TryPushType ==
    ASSUME Inv, NEW s \in Servers, NEW m \in Messages, TryPush(s, m)
    PROVE  /\ srvLog' \in [Servers -> Seq(Messages)] /\ faults' \in 0..MaxFaults
  BY PushType, FaultType DEF TryPush, Inv

LEMMA StoreFromType ==
    ASSUME Inv, NEW u \in Users, NEW s \in Servers, NEW m \in Messages, StoreFrom(u, s, m)
    PROVE  via' \in [Users -> [Messages -> 0..NServers]]
  <1>1. s \in 0..NServers
    BY DEF Servers
  <1> QED
    BY <1>1 DEF Inv, StoreFrom

\* A client whose listeners have all stopped.
LEMMA AllStop ==
    ASSUME Inv, NEW u \in Users, lst' = [lst EXCEPT ![u] = [s \in Servers |-> Idle]]
    PROVE  /\ lst' \in [Users -> [Servers -> Listener]]
           /\ \A v \in Users, t \in Servers :
                 lst'[v][t] = IF v = u THEN Idle ELSE lst[v][t]
           /\ \A v \in Users, t \in Servers : Sound(lst'[v][t])
  <1>1. Idle \in Listener
    BY IdleSound DEF Sound
  <1>2. /\ lst' \in [Users -> [Servers -> Listener]]
        /\ \A v \in Users, t \in Servers :
              lst'[v][t] = IF v = u THEN Idle ELSE lst[v][t]
    BY <1>1 DEF Inv
  <1> QED
    BY <1>2, IdleSound DEF Inv

\* What CloseChat leaves to be stored late.
LEMMA HeldAtClose ==
    ASSUME Inv, NEW u \in Users, CloseChat(u)
    PROVE  /\ held' \in [Users -> [Servers -> SUBSET Messages]]
           /\ \A v \in Users, t \in Servers :
                 held'[v][t] = IF v = u /\ lst[u][t].pc = "got"
                               THEN held[u][t] \cup {lst[u][t].msg} ELSE held[v][t]
  <1> DEFINE h == [s \in Servers |->
                  held[u][s] \cup (IF lst[u][s].pc = "got" THEN {lst[u][s].msg} ELSE {})]
  <1>1. held' = [held EXCEPT ![u] = h]
    BY DEF CloseChat
  <1>2. ASSUME NEW s \in Servers
        PROVE  /\ h[s] \in SUBSET Messages
               /\ h[s] = IF lst[u][s].pc = "got" THEN held[u][s] \cup {lst[u][s].msg}
                         ELSE held[u][s]
    <2>1. Sound(lst[u][s]) /\ held[u][s] \in SUBSET Messages
      BY DEF Inv
    <2> QED
      BY <2>1 DEF Sound
  <1>3. h \in [Servers -> SUBSET Messages]
    BY <1>2
  <1> HIDE DEF h
  <1> QED
    BY <1>1, <1>2, <1>3 DEF Inv

LEMMA StepInv == Inv /\ [Next]_vars => Inv'
  <1> SUFFICES ASSUME Inv, [Next]_vars
               PROVE  Inv'
    OBVIOUS
  <1> USE DEF world
  <1>1. ASSUME NEW m \in Messages, Send(m)
        PROVE  Inv'
    <2>1. 1 \in 0..(NServers + 1)
      OBVIOUS
    <2> QED
      BY <1>1, <2>1 DEF Send, Inv
  <1>2. ASSUME NEW m \in Messages, SendNext(m)
        PROVE  Inv'
    <2>1. sending[m] \in Servers /\ sending' \in [Messages -> 0..(NServers + 1)]
      BY <1>2 DEF SendNext, Inv, Servers
    <2> QED
      BY <1>2, <2>1, TryPushType DEF SendNext, Inv
  <1>3. ASSUME NEW u \in Users, OpenChat(u)
        PROVE  Inv'
    BY <1>3 DEF OpenChat, Inv
  <1>4. ASSUME NEW u \in Users, CloseChat(u)
        PROVE  Inv'
    BY <1>4, AllStop, HeldAtClose, FaultType DEF CloseChat, Inv
  <1>5. ASSUME NEW u \in Users, Crash(u)
        PROVE  Inv'
    <2>1. sending' \in [Messages -> 0..(NServers + 1)]
      <3>1. NServers + 1 \in 0..(NServers + 1)
        OBVIOUS
      <3> QED
        BY <1>5, <3>1 DEF Crash, Inv
    <2>2. held' \in [Users -> [Servers -> SUBSET Messages]]
      BY <1>5 DEF Crash, Inv
    <2> QED
      BY <1>5, <2>1, <2>2, AllStop, FaultType DEF Crash, Inv
  <1>6. ASSUME NEW u \in Users, NEW s \in Servers, StartSession(u, s)
        PROVE  Inv'
    <2>1. Become(u, s, lst'[u][s]) /\ Sound(lst'[u][s])
      BY <1>6, StartSessionEffect
    <2> QED
      BY <1>6, <2>1, BecomeAt DEF StartSession, Inv
  <1>7. ASSUME NEW u \in Users, NEW s \in Servers, Probe(u, s)
        PROVE  Inv'
    <2>1. Become(u, s, lst'[u][s]) /\ Sound(lst'[u][s])
      BY <1>7, ProbeEffect
    <2> QED
      BY <1>7, <2>1, BecomeAt DEF Probe, Inv
  <1>8. ASSUME NEW u \in Users, NEW s \in Servers, SearchDone(u, s)
        PROVE  Inv'
    <2>1. Become(u, s, lst'[u][s]) /\ Sound(lst'[u][s])
      BY <1>8, SearchDoneEffect
    <2> QED
      BY <1>8, <2>1, BecomeAt DEF SearchDone, Inv
  <1>9. ASSUME NEW u \in Users, NEW s \in Servers, Listen(u, s)
        PROVE  Inv'
    <2>1. Become(u, s, lst'[u][s]) /\ Sound(lst'[u][s])
      BY <1>9, ListenEffect
    <2> QED
      BY <1>9, <2>1, BecomeAt DEF Listen, Inv
  <1>10. ASSUME NEW u \in Users, NEW s \in Servers, Store(u, s)
         PROVE  Inv'
    <2>1. /\ Become(u, s, lst'[u][s]) /\ Sound(lst'[u][s])
          /\ lst[u][s].msg \in Messages
      BY <1>10, StoreEffect
    <2>2. via' \in [Users -> [Messages -> 0..NServers]]
      BY <1>10, <2>1, StoreFromType DEF Store
    <2> QED
      BY <1>10, <2>1, <2>2, BecomeAt DEF Store, Inv
  <1>11. ASSUME NEW u \in Users, NEW s \in Servers, Relay(u, s)
         PROVE  Inv'
    <2>1. /\ Become(u, s, lst'[u][s]) /\ Sound(lst'[u][s])
          /\ lst[u][s].msg \in Messages /\ lst[u][s].next \in Servers
      BY <1>11, RelayEffect
    <2>2. srvLog' \in [Servers -> Seq(Messages)] /\ faults' \in 0..MaxFaults
      BY <1>11, <2>1, TryPushType DEF Relay
    <2> QED
      BY <1>11, <2>1, <2>2, BecomeAt DEF Relay, Inv
  <1>12. ASSUME NEW u \in Users, NEW s \in Servers, SearchError(u, s)
         PROVE  Inv'
    BY <1>12, SearchErrorEffect, IdleSound, FaultType, BecomeAt DEF SearchError, Inv
  <1>13. ASSUME NEW u \in Users, NEW s \in Servers, StoreFails(u, s)
         PROVE  Inv'
    <2>1. /\ Become(u, s, lst'[u][s]) /\ Sound(lst'[u][s])
          /\ lst[u][s].msg \in Messages
      BY <1>13, StoreFailsEffect
    <2>2. failed' \in [Users -> [Servers -> SUBSET Messages]]
      BY <1>13, <2>1 DEF StoreFails, Inv
    <2>3. via' \in [Users -> [Messages -> 0..NServers]]
      BY <1>13, <2>1, StoreFromType DEF StoreFails, Inv
    <2> QED
      BY <1>13, <2>1, <2>2, <2>3, FaultType, BecomeAt DEF StoreFails, Inv
  <1>14. ASSUME NEW u \in Users, NEW s \in Servers, NEW m \in Messages, LateStore(u, s, m)
         PROVE  Inv'
    BY <1>14, StoreFromType DEF LateStore, Inv
  <1>15. CASE UNCHANGED vars
    BY <1>15 DEF vars, Inv
  <1> QED
    BY <1>1, <1>2, <1>3, <1>4, <1>5, <1>6, <1>7, <1>8, <1>9, <1>10, <1>11, <1>12,
       <1>13, <1>14, <1>15 DEF Next, Work

LEMMA InvAlways == Spec => []Inv
  BY InitInv, StepInv, PTL DEF Spec

\* Every variable has its type, in every reachable state: in particular no
\* listener relays to a server the client does not have, or without a message.
THEOREM TypeCorrect == Spec => []TypeOK
  <1>1. Inv => TypeOK
    <2> SUFFICES ASSUME Inv
                 PROVE  TypeOK
      OBVIOUS
    <2>1. ASSUME NEW u \in Users, NEW s \in Servers, NEW l, l = lst[u][s]
          PROVE  /\ l.pc \in {"off", "search", "listen", "got", "relay"}
                 /\ l.low \in Nat /\ l.high \in Int /\ l.counter \in Nat
                 /\ l.size \in Nat
                 /\ IF l.pc \in {"got", "relay"} THEN l.msg \in Messages ELSE l.msg = NoMessage
                 /\ IF l.pc = "relay" THEN l.next \in Servers ELSE l.next \in Nat
      <3>1. Sound(l) /\ l \in Listener
        BY <2>1 DEF Inv, Sound
      <3> QED
        BY <3>1 DEF Sound, Listener, Places
    <2>2. DOMAIN lst = Users /\ \A u \in Users : DOMAIN lst[u] = Servers
      BY DEF Inv
    <2> QED
      BY <2>1, <2>2 DEF Inv, TypeOK
  <1> QED
    BY <1>1, InvAlways, PTL

-----------------------------------------------------------------------------
(* The view of one listener. *)

\* What MessageListener knows of a listener.
View(l) == <<IF l.pc = "relay" THEN "listen" ELSE l.pc, l.low, l.high, l.counter,
             l.size, IF l.pc = "got" THEN l.msg ELSE NoMessage>>

Elsewhere(u, s) == { m \in Messages : via[u][m] \notin {0, s} }

Conforms(u, s) == [ML(u, s)!Next]_(ML(u, s)!vars)

\* Nothing of the listener of u on s changes but what the rest of the world may.
Rests(u, s) ==
    /\ View(lst'[u][s]) = View(lst[u][s])
    /\ held'[u][s] = held[u][s] /\ failed'[u][s] = failed[u][s]

LEMMA PushView ==
    ASSUME Inv, NEW s \in Servers, NEW m \in Messages, Push(s, m), NEW t \in Servers
    PROVE  \/ srvLog'[t] = srvLog[t]
           \/ t = s /\ m \notin OnServer(t) /\ srvLog'[t] = Append(srvLog[t], m)
  BY DEF Inv, Push

LEMMA StoreFromView ==
    ASSUME Inv, NEW u \in Users, NEW s \in Servers, NEW m \in Messages, StoreFrom(u, s, m)
    PROVE  /\ Known(u)' = Known(u) \cup {m}
           /\ Elsewhere(u, s)' = Elsewhere(u, s)
           /\ \A t \in Servers : t # s /\ m \notin Known(u) =>
                 Elsewhere(u, t)' = Elsewhere(u, t) \cup {m}
           /\ m \in Known(u) => via'[u] = via[u]
           /\ \A v \in Users : v # u => via'[v] = via[v]
  <1>1. s \in 0..NServers /\ s # 0 /\ \A t \in Servers : t # 0
    BY DEF Servers
  <1>2. /\ via'[u][m] = IF via[u][m] = 0 THEN s ELSE via[u][m]
        /\ \A n \in Messages : n # m => via'[u][n] = via[u][n]
        /\ \A v \in Users : v # u => via'[v] = via[v]
        /\ via[u] \in [Messages -> 0..NServers]
        /\ via'[u] \in [Messages -> 0..NServers]
    BY <1>1 DEF Inv, StoreFrom
  <1>3. Known(u)' = Known(u) \cup {m}
    BY <1>1, <1>2 DEF Known
  <1>4. Elsewhere(u, s)' = Elsewhere(u, s)
    BY <1>1, <1>2 DEF Elsewhere
  <1>5. ASSUME NEW t \in Servers, t # s, m \notin Known(u)
        PROVE  Elsewhere(u, t)' = Elsewhere(u, t) \cup {m}
    BY <1>1, <1>2, <1>5 DEF Elsewhere, Known
  <1>6. ASSUME m \in Known(u)
        PROVE  via'[u] = via[u]
    <2>1. \A n \in Messages : via'[u][n] = via[u][n]
      BY <1>2, <1>6 DEF Known
    <2> QED
      BY <1>2, <2>1
  <1> QED
    BY <1>2, <1>3, <1>4, <1>5, <1>6

LEMMA SameVia ==
    ASSUME NEW u \in Users, NEW s \in Servers, via'[u] = via[u]
    PROVE  Known(u)' = Known(u) /\ Elsewhere(u, s)' = Elsewhere(u, s)
  BY DEF Known, Elsewhere

LEMMA ViewFields ==
    ASSUME NEW k, NEW l, View(l) = View(k)
    PROVE  /\ (IF l.pc = "relay" THEN "listen" ELSE l.pc)
               = (IF k.pc = "relay" THEN "listen" ELSE k.pc)
           /\ l.low = k.low /\ l.high = k.high /\ l.counter = k.counter /\ l.size = k.size
           /\ (IF l.pc = "got" THEN l.msg ELSE NoMessage)
               = (IF k.pc = "got" THEN k.msg ELSE NoMessage)
  BY DEF View

-----------------------------------------------------------------------------
(* Steps of others. *)

LEMMA Quiet ==
    ASSUME NEW u \in Users, NEW s \in Servers, Rests(u, s),
           srvLog'[s] = srvLog[s], via'[u] = via[u]
    PROVE  Conforms(u, s)
  <1>1. Known(u)' = Known(u) /\ Elsewhere(u, s)' = Elsewhere(u, s)
    BY SameVia
  <1>2. UNCHANGED ML(u, s)!listener
    BY ViewFields DEF Rests, ML!listener
  <1>3. UNCHANGED ML(u, s)!vars
    BY <1>1, <1>2 DEF Rests, Elsewhere, ML!vars, ML!listener
  <1> QED
    BY <1>3 DEF Conforms

\* The messages of a log, by its two enumerations.
LEMMA SameLog ==
    ASSUME Inv, NEW u \in Users, NEW s \in Servers
    PROVE  ML(u, s)!OnServer = OnServer(s)
  <1>1. srvLog[s] \in Seq(Messages) /\ DOMAIN srvLog[s] = 1..Len(srvLog[s])
    BY DEF Inv
  <1>2. Len(srvLog[s]) \in Nat
    BY <1>1
  <1>3. \A i \in 1..Len(srvLog[s]) :
           i - 1 \in 0..(Len(srvLog[s]) - 1) /\ srvLog[s][i] = srvLog[s][(i - 1) + 1]
    BY <1>2
  <1>4. \A i \in 0..(Len(srvLog[s]) - 1) : i + 1 \in 1..Len(srvLog[s])
    BY <1>2
  <1> QED
    BY <1>1, <1>3, <1>4 DEF OnServer, ML!OnServer, ML!Indices, ML!At

LEMMA Posted ==
    ASSUME Inv, NEW u \in Users, NEW s \in Servers, Rests(u, s), via'[u] = via[u],
           NEW r \in Servers, NEW m \in Messages, Push(r, m)
    PROVE  Conforms(u, s)
  <1>1. CASE srvLog'[s] = srvLog[s]
    BY <1>1, Quiet
  <1>2. CASE m \notin OnServer(s) /\ srvLog'[s] = Append(srvLog[s], m)
    <2>1. Known(u)' = Known(u) /\ Elsewhere(u, s)' = Elsewhere(u, s)
      BY SameVia
    <2>2. UNCHANGED ML(u, s)!listener
      BY ViewFields DEF Rests, ML!listener
    <2>3. ML(u, s)!Post(m)
      BY <1>2, <2>1, <2>2, SameLog DEF Rests, Elsewhere, ML!Post, ML!listener
    <2> QED
      BY <2>3 DEF Conforms, ML!Next
  <1> QED
    BY <1>1, <1>2, PushView

LEMMA Learnt ==
    ASSUME Inv, NEW u \in Users, NEW s \in Servers, Rests(u, s), srvLog'[s] = srvLog[s],
           NEW t \in Servers, t # s, NEW m \in Messages, StoreFrom(u, t, m)
    PROVE  Conforms(u, s)
  <1>1. CASE m \in Known(u)
    BY <1>1, Quiet, StoreFromView
  <1>2. CASE m \notin Known(u)
    <2>1. /\ Known(u)' = Known(u) \cup {m}
          /\ Elsewhere(u, s)' = Elsewhere(u, s) \cup {m}
      BY <1>2, StoreFromView
    <2>2. UNCHANGED ML(u, s)!listener
      BY ViewFields DEF Rests, ML!listener
    <2>3. ML(u, s)!LearnElsewhere(m)
      BY <1>2, <2>1, <2>2 DEF Rests, Elsewhere, ML!LearnElsewhere, ML!listener
    <2> QED
      BY <2>3 DEF Conforms, ML!Next
  <1> QED
    BY <1>1, <1>2

LEMMA PushTried ==
    ASSUME Inv, NEW u \in Users, NEW s \in Servers, Rests(u, s), via'[u] = via[u],
           NEW r \in Servers, NEW m \in Messages, TryPush(r, m)
    PROVE  Conforms(u, s)
  <1>1. CASE Push(r, m)
    BY <1>1, Posted
  <1>2. CASE UNCHANGED srvLog
    BY <1>2, Quiet
  <1> QED
    BY <1>1, <1>2 DEF TryPush

\* While one listener changes the others rest.
LEMMA OthersRest ==
    ASSUME Inv, NEW u \in Users, NEW s \in Servers, NEW l, Sound(l), Become(u, s, l),
           NEW v \in Users, NEW t \in Servers, v # u \/ t # s,
           held'[v][t] = held[v][t], failed'[v][t] = failed[v][t]
    PROVE  Rests(v, t)
  BY BecomeAt DEF Rests

-----------------------------------------------------------------------------
(* The steps of the listener itself. *)

LEMMA OwnStartSession ==
    ASSUME Inv, NEW u \in Users, NEW s \in Servers, StartSession(u, s)
    PROVE  Conforms(u, s)
  <1> DEFINE k == lst[u][s]
             l == lst'[u][s]
  <1>1. /\ k = Idle /\ l.pc = "search" /\ l.low = 0 /\ l.high = Len(srvLog[s]) - 1
        /\ l.counter = 0 /\ l.size = Len(srvLog[s]) /\ l.msg = NoMessage
    BY StartSessionEffect
  <1>2. UNCHANGED <<srvLog, via, held, failed>>
    BY DEF StartSession, world
  <1>3. ML(u, s)!Open
    BY <1>1, <1>2 DEF ML!Open, Idle, Known
  <1> QED
    BY <1>3 DEF Conforms, ML!Next

LEMMA OwnProbe ==
    ASSUME Inv, NEW u \in Users, NEW s \in Servers, Probe(u, s)
    PROVE  Conforms(u, s)
  <1> DEFINE k == lst[u][s]
             l == lst'[u][s]
  <1>1. /\ k.pc = "search" /\ k.low <= k.high
        /\ l.pc = "search" /\ l.counter = Mid(k) /\ l.size = k.size /\ l.msg = k.msg
        /\ \/ At(s, Mid(k)) \in Known(u)    /\ l.low = Mid(k) + 1 /\ l.high = k.high
           \/ At(s, Mid(k)) \notin Known(u) /\ l.high = Mid(k) - 1 /\ l.low = k.low
    BY ProbeEffect
  <1>2. UNCHANGED <<srvLog, via, held, failed>>
    BY DEF Probe, world
  <1>3. Known(u)' = Known(u)
    BY <1>2 DEF Known
  <1>4. ML(u, s)!Mid = Mid(k) /\ ML(u, s)!At(Mid(k)) = At(s, Mid(k))
    BY DEF ML!Mid, Mid, ML!At, At
  <1>5. ML(u, s)!Probe
    BY <1>1, <1>2, <1>3, <1>4 DEF ML!Probe
  <1> QED
    BY <1>5 DEF Conforms, ML!Next, ML!Step

LEMMA OwnSearchDone ==
    ASSUME Inv, NEW u \in Users, NEW s \in Servers, SearchDone(u, s)
    PROVE  Conforms(u, s)
  <1> DEFINE k == lst[u][s]
             l == lst'[u][s]
  <1>1. /\ k.pc = "search" /\ k.low > k.high
        /\ l.pc = "listen" /\ l.low = 0 /\ l.high = -1 /\ l.counter = k.counter
        /\ l.size = k.size
    BY SearchDoneEffect
  <1>2. UNCHANGED <<srvLog, via, held, failed>>
    BY DEF SearchDone, world
  <1>3. ML(u, s)!SearchDone
    BY <1>1, <1>2 DEF ML!SearchDone, Known
  <1> QED
    BY <1>3 DEF Conforms, ML!Next, ML!Step

LEMMA IdleView ==
    ASSUME NEW l, l = Idle
    PROVE  /\ l.pc = "off" /\ l.low = 0 /\ l.high = -1 /\ l.counter = 0 /\ l.size = 0
           /\ l.msg = NoMessage
  BY DEF Idle

LEMMA OwnSearchError ==
    ASSUME Inv, NEW u \in Users, NEW s \in Servers, SearchError(u, s)
    PROVE  Conforms(u, s)
  <1>1. lst[u][s].pc = "search" /\ lst'[u][s] = Idle
    BY SearchErrorEffect
  <1>2. UNCHANGED <<srvLog, via, held, failed>>
    BY DEF SearchError, world
  <1>3. ML(u, s)!SearchError
    BY <1>1, <1>2, IdleView DEF ML!SearchError, ML!Reset, Known
  <1> QED
    BY <1>3 DEF Conforms, ML!Next

LEMMA OwnListen ==
    ASSUME Inv, NEW u \in Users, NEW s \in Servers, Listen(u, s)
    PROVE  Conforms(u, s)
  <1> DEFINE k == lst[u][s]
             l == lst'[u][s]
  <1>1. /\ k.pc = "listen" /\ k.counter < Len(srvLog[s])
        /\ l.counter = k.counter + 1 /\ l.low = k.low /\ l.high = k.high /\ l.size = k.size
        /\ \/ At(s, k.counter) \in Known(u)    /\ l.pc = "listen" /\ l.msg = k.msg
           \/ At(s, k.counter) \notin Known(u) /\ l.pc = "got" /\ l.msg = At(s, k.counter)
    BY ListenEffect
  <1>2. UNCHANGED <<srvLog, via, held, failed>>
    BY DEF Listen, world
  <1>3. Known(u)' = Known(u) /\ Elsewhere(u, s)' = Elsewhere(u, s)
    BY <1>2 DEF Known, Elsewhere
  <1>4. ML(u, s)!At(k.counter) = At(s, k.counter)
    BY DEF ML!At, At
  <1>5. CASE At(s, k.counter) \in Known(u) /\ l.pc = "listen" /\ l.msg = k.msg
    <2>1. ML(u, s)!ListenKnown
      BY <1>1, <1>2, <1>3, <1>4, <1>5 DEF ML!ListenKnown, Elsewhere
    <2> QED
      BY <2>1 DEF Conforms, ML!Next, ML!Step
  <1>6. CASE At(s, k.counter) \notin Known(u) /\ l.pc = "got" /\ l.msg = At(s, k.counter)
    <2>1. ML(u, s)!ListenNew
      BY <1>1, <1>2, <1>3, <1>4, <1>6 DEF ML!ListenNew, Elsewhere
    <2> QED
      BY <2>1 DEF Conforms, ML!Next, ML!Step
  <1> QED
    BY <1>1, <1>5, <1>6

LEMMA OwnStore ==
    ASSUME Inv, NEW u \in Users, NEW s \in Servers, Store(u, s)
    PROVE  Conforms(u, s)
  <1> DEFINE k == lst[u][s]
             l == lst'[u][s]
  <1>1. /\ k.pc = "got" /\ k.msg \in Messages /\ l.pc = "relay" /\ l.low = k.low
        /\ l.high = k.high /\ l.counter = k.counter /\ l.size = k.size
    BY StoreEffect
  <1>2. UNCHANGED <<srvLog, held, failed>> /\ StoreFrom(u, s, k.msg)
    BY DEF Store, world
  <1>3. Known(u)' = Known(u) \cup {k.msg} /\ Elsewhere(u, s)' = Elsewhere(u, s)
    BY <1>1, <1>2, StoreFromView
  <1>4. ML(u, s)!Store
    BY <1>1, <1>2, <1>3 DEF ML!Store, Elsewhere
  <1> QED
    BY <1>4 DEF Conforms, ML!Next, ML!Step

LEMMA OwnStoreFails ==
    ASSUME Inv, NEW u \in Users, NEW s \in Servers, StoreFails(u, s)
    PROVE  Conforms(u, s)
  <1> DEFINE k == lst[u][s]
             l == lst'[u][s]
  <1>1. /\ k.pc = "got" /\ k.msg \in Messages /\ l.pc = "listen" /\ l.low = k.low
        /\ l.high = k.high /\ l.counter = k.counter /\ l.size = k.size
        /\ l.msg = NoMessage
    BY StoreFailsEffect
  <1>2. UNCHANGED <<srvLog, held>> /\ (StoreFrom(u, s, k.msg) \/ UNCHANGED via)
    BY DEF StoreFails, world
  <1>3. failed'[u][s] = failed[u][s] \cup {k.msg}
    BY DEF StoreFails, Inv
  <1>4. /\ Known(u)' \in {Known(u), Known(u) \cup {k.msg}}
        /\ Elsewhere(u, s)' = Elsewhere(u, s)
    <2>1. CASE StoreFrom(u, s, k.msg)
      BY <1>1, <2>1, StoreFromView
    <2>2. CASE UNCHANGED via
      BY <2>2 DEF Known, Elsewhere
    <2> QED
      BY <1>2, <2>1, <2>2
  <1>5. ML(u, s)!StoreFails
    BY <1>1, <1>2, <1>3, <1>4 DEF ML!StoreFails, Elsewhere
  <1> QED
    BY <1>5 DEF Conforms, ML!Next

LEMMA OwnRelay ==
    ASSUME Inv, NEW u \in Users, NEW s \in Servers, Relay(u, s)
    PROVE  Conforms(u, s)
  <1> DEFINE k == lst[u][s]
             l == lst'[u][s]
  <1>1. /\ k.pc = "relay" /\ k.msg \in Messages /\ k.next \in Servers
        /\ l.pc \in {"listen", "relay"} /\ l.low = k.low /\ l.high = k.high
        /\ l.counter = k.counter /\ l.size = k.size
    BY RelayEffect
  <1>2. UNCHANGED <<via, held, failed>> /\ TryPush(k.next, k.msg)
    BY DEF Relay
  <1>3. Rests(u, s)
    BY <1>1, <1>2 DEF Rests, View
  <1> QED
    BY <1>1, <1>2, <1>3, PushTried

LEMMA OwnLateStore ==
    ASSUME Inv, NEW u \in Users, NEW s \in Servers, NEW m \in Messages, LateStore(u, s, m)
    PROVE  Conforms(u, s)
  <1>1. /\ m \in held[u][s] /\ held'[u][s] = held[u][s] \ {m}
        /\ UNCHANGED <<srvLog, lst, failed>>
    BY DEF LateStore, Inv
  <1>2. Known(u)' = Known(u) \cup {m} /\ Elsewhere(u, s)' = Elsewhere(u, s)
    BY StoreFromView DEF LateStore
  <1>3. ML(u, s)!LateStore(m)
    BY <1>1, <1>2 DEF ML!LateStore, ML!listener, Elsewhere
  <1> QED
    BY <1>3 DEF Conforms, ML!Next

\* When the chat is closed a listener that was off stays as it is.
LEMMA OwnCloseChat ==
    ASSUME Inv, NEW u \in Users, NEW s \in Servers, CloseChat(u)
    PROVE  Conforms(u, s)
  <1> DEFINE k == lst[u][s]
  <1>1. /\ lst'[u][s] = Idle
        /\ held'[u][s] = IF k.pc = "got" THEN held[u][s] \cup {k.msg} ELSE held[u][s]
    <2>1. lst'[u][s] = Idle
      BY AllStop DEF CloseChat
    <2>2. held'[u][s] = IF k.pc = "got" THEN held[u][s] \cup {k.msg} ELSE held[u][s]
      BY HeldAtClose
    <2> QED
      BY <2>1, <2>2
  <1>2. UNCHANGED <<srvLog, via, failed>>
    BY DEF CloseChat
  <1>3. CASE k.pc = "off"
    <2>1. k = Idle
      BY <1>3 DEF Inv, Sound
    <2>2. Rests(u, s)
      BY <1>1, <1>2, <1>3, <2>1 DEF Rests
    <2> QED
      BY <1>2, <2>2, Quiet
  <1>4. CASE k.pc # "off"
    <2>1. ML(u, s)!Close
      BY <1>1, <1>2, <1>4, IdleView DEF ML!Close, ML!Reset, Known
    <2> QED
      BY <2>1 DEF Conforms, ML!Next
  <1> QED
    BY <1>3, <1>4

LEMMA OwnCrash ==
    ASSUME Inv, NEW u \in Users, NEW s \in Servers, Crash(u)
    PROVE  Conforms(u, s)
  <1>1. lst'[u][s] = Idle /\ held'[u][s] = {}
    BY AllStop DEF Crash, Inv
  <1>2. UNCHANGED <<srvLog, via, failed>>
    BY DEF Crash
  <1>3. ML(u, s)!Crash
    BY <1>1, <1>2, IdleView DEF ML!Crash, ML!Reset, Known
  <1> QED
    BY <1>3 DEF Conforms, ML!Next

-----------------------------------------------------------------------------
(* Every step, seen by every listener. *)

LEMMA RestsThen ==
    ASSUME Inv, NEW u \in Users, NEW s \in Servers, NEW l, Sound(l), Become(u, s, l),
           NEW v \in Users, NEW t \in Servers, v # u \/ t # s,
           UNCHANGED <<srvLog, via, held>>, failed'[v][t] = failed[v][t]
    PROVE  Conforms(v, t)
  BY OthersRest, Quiet

LEMMA StepConforms ==
    ASSUME Inv, [Next]_vars, NEW v \in Users, NEW t \in Servers
    PROVE  Conforms(v, t)
  <1> USE DEF world
  <1>1. ASSUME NEW m \in Messages, Send(m)
        PROVE  Conforms(v, t)
    BY <1>1, Quiet DEF Send, Rests
  <1>2. ASSUME NEW m \in Messages, SendNext(m)
        PROVE  Conforms(v, t)
    <2>1. Rests(v, t) /\ via'[v] = via[v] /\ sending[m] \in Servers /\ TryPush(sending[m], m)
      BY <1>2 DEF SendNext, Rests
    <2> QED
      BY <2>1, PushTried
  <1>3. ASSUME NEW u \in Users, OpenChat(u)
        PROVE  Conforms(v, t)
    BY <1>3, Quiet DEF OpenChat, Rests
  <1>4. ASSUME NEW u \in Users, CloseChat(u)
        PROVE  Conforms(v, t)
    <2>1. CASE v = u
      BY <1>4, <2>1, OwnCloseChat
    <2>2. CASE v # u
      <3>1. Rests(v, t) /\ srvLog'[t] = srvLog[t] /\ via'[v] = via[v]
        BY <1>4, <2>2 DEF CloseChat, Rests, Inv
      <3> QED
        BY <3>1, Quiet
    <2> QED
      BY <2>1, <2>2
  <1>5. ASSUME NEW u \in Users, Crash(u)
        PROVE  Conforms(v, t)
    <2>1. CASE v = u
      BY <1>5, <2>1, OwnCrash
    <2>2. CASE v # u
      <3>1. Rests(v, t) /\ srvLog'[t] = srvLog[t] /\ via'[v] = via[v]
        BY <1>5, <2>2 DEF Crash, Rests, Inv
      <3> QED
        BY <3>1, Quiet
    <2> QED
      BY <2>1, <2>2
  <1>6. ASSUME NEW u \in Users, NEW s \in Servers, StartSession(u, s)
        PROVE  Conforms(v, t)
    <2>1. CASE v = u /\ t = s
      BY <1>6, <2>1, OwnStartSession
    <2>2. CASE v # u \/ t # s
      <3>1. Become(u, s, lst'[u][s]) /\ Sound(lst'[u][s])
        BY <1>6, StartSessionEffect
      <3> QED
        BY <1>6, <2>2, <3>1, RestsThen DEF StartSession
    <2> QED
      BY <2>1, <2>2
  <1>7. ASSUME NEW u \in Users, NEW s \in Servers, Probe(u, s)
        PROVE  Conforms(v, t)
    <2>1. CASE v = u /\ t = s
      BY <1>7, <2>1, OwnProbe
    <2>2. CASE v # u \/ t # s
      <3>1. Become(u, s, lst'[u][s]) /\ Sound(lst'[u][s])
        BY <1>7, ProbeEffect
      <3> QED
        BY <1>7, <2>2, <3>1, RestsThen DEF Probe
    <2> QED
      BY <2>1, <2>2
  <1>8. ASSUME NEW u \in Users, NEW s \in Servers, SearchDone(u, s)
        PROVE  Conforms(v, t)
    <2>1. CASE v = u /\ t = s
      BY <1>8, <2>1, OwnSearchDone
    <2>2. CASE v # u \/ t # s
      <3>1. Become(u, s, lst'[u][s]) /\ Sound(lst'[u][s])
        BY <1>8, SearchDoneEffect
      <3> QED
        BY <1>8, <2>2, <3>1, RestsThen DEF SearchDone
    <2> QED
      BY <2>1, <2>2
  <1>9. ASSUME NEW u \in Users, NEW s \in Servers, Listen(u, s)
        PROVE  Conforms(v, t)
    <2>1. CASE v = u /\ t = s
      BY <1>9, <2>1, OwnListen
    <2>2. CASE v # u \/ t # s
      <3>1. Become(u, s, lst'[u][s]) /\ Sound(lst'[u][s])
        BY <1>9, ListenEffect
      <3> QED
        BY <1>9, <2>2, <3>1, RestsThen DEF Listen
    <2> QED
      BY <2>1, <2>2
  <1>10. ASSUME NEW u \in Users, NEW s \in Servers, Store(u, s)
         PROVE  Conforms(v, t)
    <2>1. CASE v = u /\ t = s
      BY <1>10, <2>1, OwnStore
    <2>2. CASE v # u \/ t # s
      <3>1. /\ Become(u, s, lst'[u][s]) /\ Sound(lst'[u][s])
            /\ lst[u][s].msg \in Messages
        BY <1>10, StoreEffect
      <3>2. StoreFrom(u, s, lst[u][s].msg) /\ UNCHANGED <<srvLog, held, failed>>
        BY <1>10 DEF Store
      <3>3. Rests(v, t)
        BY <2>2, <3>1, <3>2, OthersRest
      <3>4. CASE v # u
        BY <3>1, <3>2, <3>3, <3>4, StoreFromView, Quiet
      <3>5. CASE v = u /\ t # s
        BY <3>1, <3>2, <3>3, <3>5, Learnt
      <3> QED
        BY <2>2, <3>4, <3>5
    <2> QED
      BY <2>1, <2>2
  <1>11. ASSUME NEW u \in Users, NEW s \in Servers, Relay(u, s)
         PROVE  Conforms(v, t)
    <2>1. CASE v = u /\ t = s
      BY <1>11, <2>1, OwnRelay
    <2>2. CASE v # u \/ t # s
      <3>1. /\ Become(u, s, lst'[u][s]) /\ Sound(lst'[u][s])
            /\ lst[u][s].msg \in Messages /\ lst[u][s].next \in Servers
        BY <1>11, RelayEffect
      <3>2. TryPush(lst[u][s].next, lst[u][s].msg) /\ UNCHANGED <<via, held, failed>>
        BY <1>11 DEF Relay
      <3>3. Rests(v, t)
        BY <2>2, <3>1, <3>2, OthersRest
      <3> QED
        BY <3>1, <3>2, <3>3, PushTried
    <2> QED
      BY <2>1, <2>2
  <1>12. ASSUME NEW u \in Users, NEW s \in Servers, SearchError(u, s)
         PROVE  Conforms(v, t)
    <2>1. CASE v = u /\ t = s
      BY <1>12, <2>1, OwnSearchError
    <2>2. CASE v # u \/ t # s
      <3>1. Become(u, s, Idle)
        BY <1>12, SearchErrorEffect
      <3> QED
        BY <1>12, <2>2, <3>1, IdleSound, RestsThen DEF SearchError
    <2> QED
      BY <2>1, <2>2
  <1>13. ASSUME NEW u \in Users, NEW s \in Servers, StoreFails(u, s)
         PROVE  Conforms(v, t)
    <2>1. CASE v = u /\ t = s
      BY <1>13, <2>1, OwnStoreFails
    <2>2. CASE v # u \/ t # s
      <3>1. /\ Become(u, s, lst'[u][s]) /\ Sound(lst'[u][s])
            /\ lst[u][s].msg \in Messages
        BY <1>13, StoreFailsEffect
      <3>2. failed'[v][t] = failed[v][t] /\ UNCHANGED <<srvLog, held>>
        BY <1>13, <2>2 DEF StoreFails, Inv
      <3>3. CASE UNCHANGED via
        BY <2>2, <3>1, <3>2, <3>3, RestsThen
      <3>4. CASE StoreFrom(u, s, lst[u][s].msg)
        <4>1. Rests(v, t)
          BY <2>2, <3>1, <3>2, OthersRest
        <4>2. CASE v # u
          BY <3>1, <3>2, <3>4, <4>1, <4>2, StoreFromView, Quiet
        <4>3. CASE v = u /\ t # s
          BY <3>1, <3>2, <3>4, <4>1, <4>3, Learnt
        <4> QED
          BY <2>2, <4>2, <4>3
      <3> QED
        BY <1>13, <3>3, <3>4 DEF StoreFails
    <2> QED
      BY <2>1, <2>2
  <1>14. ASSUME NEW u \in Users, NEW s \in Servers, NEW m \in Messages, LateStore(u, s, m)
         PROVE  Conforms(v, t)
    <2>1. CASE v = u /\ t = s
      BY <1>14, <2>1, OwnLateStore
    <2>2. CASE v # u \/ t # s
      <3>1. /\ StoreFrom(u, s, m) /\ UNCHANGED <<srvLog, lst, failed>>
            /\ held'[v][t] = held[v][t]
        BY <1>14, <2>2 DEF LateStore, Inv
      <3>2. Rests(v, t)
        BY <3>1 DEF Rests
      <3>3. CASE v # u
        BY <3>1, <3>2, <3>3, StoreFromView, Quiet
      <3>4. CASE v = u /\ t # s
        BY <3>1, <3>2, <3>4, Learnt
      <3> QED
        BY <2>2, <3>3, <3>4
    <2> QED
      BY <2>1, <2>2
  <1>15. CASE UNCHANGED vars
    BY <1>15, Quiet DEF vars, Rests
  <1> QED
    BY <1>1, <1>2, <1>3, <1>4, <1>5, <1>6, <1>7, <1>8, <1>9, <1>10, <1>11, <1>12,
       <1>13, <1>14, <1>15 DEF Next, Work

LEMMA InitConforms ==
    ASSUME Init, NEW u \in Users, NEW s \in Servers
    PROVE  ML(u, s)!Init
  <1>1. Known(u) = {} /\ Elsewhere(u, s) = {}
    BY DEF Init, Known, Elsewhere
  <1>2. lst[u][s] = Idle /\ srvLog[s] = <<>> /\ held[u][s] = {} /\ failed[u][s] = {}
    BY DEF Init
  <1> QED
    BY <1>1, <1>2, IdleView DEF ML!Init, Elsewhere

\* Every listener of every client, among any number of others that fill the same
\* database and push into the same logs, makes only the steps of a
\* MessageListener or rests: closing the chat, a crash, the relay and the late
\* store of a closed session included.  What Messages_proofs shows of one
\* listener therefore holds of each of them.
THEOREM ListenersConformAlways == Spec => ListenersConform
  <1>1. Init => \A u \in Users, s \in Servers : ML(u, s)!Init
    BY InitConforms
  <1>2. Inv /\ [Next]_vars =>
            [\A u \in Users, s \in Servers : [ML(u, s)!Next]_(ML(u, s)!vars)]_vars
    BY StepConforms DEF Conforms
  <1> QED
    BY <1>1, <1>2, InvAlways, PTL DEF Spec, ListenersConform
=============================================================================
