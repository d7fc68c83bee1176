-------------------------- MODULE Messages_proofs ---------------------------
(***************************************************************************)
(* Proofs about the messages of a chat in the client: what a listener may  *)
(* pass over (MessageListener), and what of them the user sees (Paging).   *)
(* The names of Paging begin with Page, so that both can be extended.      *)
(*                                                                         *)
(* MessageListener, for any set of messages and any behaviour of the other *)
(* connections.  The idea of the inductive invariant: a message of the log *)
(* that reached the database only through this connection has all its      *)
(* predecessors settled, so a bisection that meets a known message may     *)
(* discard what precedes it.                                               *)
(*                                                                         *)
(* Paging, for every size of a page and of a log, every set of matches and *)
(* any number of listeners.  The idea of the inductive invariant: the      *)
(* index to go on at separates the screen from what is missing.  All that  *)
(* is due above it is shown, nothing that is shown lies below it unless a  *)
(* scroll has read it, and below it either nothing or everything has been  *)
(* read.  A listener of the session looks up its message when the page has *)
(* been counted, so what it stores, or finds stored since, follows the     *)
(* page.                                                                   *)
(***************************************************************************)
EXTENDS MessageListener, Paging,
        FiniteSetTheorems, SequenceTheorems, WellFoundedInduction, TLAPS

\* The message at index i is in the database or was overtaken.
Settled(i) == At(i) \in known \/ Overtaken(i)

\* The log holds a message once, and what this connection stored is in it.
LogInv ==
    /\ \A i, j \in Indices : At(i) = At(j) => i = j
    /\ known \ elsewhere \subseteq OnServer

\* All that precedes a known message is settled.
PrefixInv == \A j \in Indices : At(j) \in known => \A i \in 0..j : Settled(i)

\* The bisection: all that precedes its interval is settled.
SearchInv ==
    pc = "search" =>
        /\ low <= high + 1 /\ high < size
        /\ counter = 0 \/ counter = low - 1 \/ counter = high + 1
        /\ \A i \in 0..(low - 1) : Settled(i)

\* All that precedes the counter is settled, but for the message in hand.
ListenInv ==
    /\ pc # "off" => counter <= Len(srvLog) /\ size <= Len(srvLog)
    /\ pc = "listen" => \A i \in 0..(counter - 1) : Settled(i)
    /\ pc = "got" => /\ counter > 0 /\ At(counter - 1) = msg
                     /\ \A i \in 0..(counter - 2) : Settled(i)

\* All that precedes a message in the hands of an old listener is settled.
HeldInv == \A m \in held : \E j \in Indices : At(j) = m /\ \A i \in 0..(j - 1) : Settled(i)

Inv == /\ TypeOK /\ LogInv /\ PrefixInv /\ SearchInv /\ ListenInv /\ HeldInv
       /\ NewPostsNotSkipped

-----------------------------------------------------------------------------
USE NoMessageAssumption

\* The middle of an interval lies in it.
LEMMA Middle == \A l, h \in Int : l <= h => l + (h - l) \div 2 \in l..h
  OBVIOUS

\* The invariant holds initially.
LEMMA InitInv == Init => Inv
  <1> SUFFICES ASSUME Init PROVE Inv
    OBVIOUS
  <1>1. TypeOK
    BY DEF Init, TypeOK
  <1>2. LogInv /\ PrefixInv /\ SearchInv /\ ListenInv /\ HeldInv /\ NewPostsNotSkipped
    BY DEF Init, LogInv, PrefixInv, SearchInv, ListenInv, HeldInv, NewPostsNotSkipped,
       Indices, OnServer
  <1> QED
    BY <1>1, <1>2 DEF Inv

\* The parts of the state that steps of the session share with the rest.
World == <<srvLog, known, elsewhere, failed>>

\* A step that leaves the log, the database and the history alone.
LEMMA WorldFrame ==
    ASSUME UNCHANGED World
    PROVE  /\ \A i : At(i)' = At(i) /\ Settled(i)' = Settled(i)
           /\ Indices' = Indices /\ OnServer' = OnServer
           /\ LogInv => LogInv'
           /\ PrefixInv => PrefixInv'
           /\ HeldInv /\ held' = held => HeldInv'
  <1>1. \A i : At(i)' = At(i)
    BY DEF World, At
  <1>2. Indices' = Indices
    BY DEF World, Indices
  <1>3. \A i : Settled(i)' = Settled(i)
    BY <1>1, <1>2 DEF World, Settled, Overtaken
  <1>4. OnServer' = OnServer
    BY <1>1, <1>2 DEF OnServer
  <1>5. LogInv => LogInv'
    BY <1>1, <1>2, <1>4 DEF World, LogInv
  <1>6. PrefixInv => PrefixInv'
    BY <1>1, <1>2, <1>3 DEF World, PrefixInv
  <1>7. HeldInv /\ held' = held => HeldInv'
    BY <1>1, <1>2, <1>3 DEF HeldInv
  <1> QED
    BY <1>1, <1>2, <1>3, <1>4, <1>5, <1>6, <1>7

\* What follows from the session being closed or reset.
LEMMA OffStep ==
    ASSUME pc' = "off"
    PROVE  SearchInv' /\ ListenInv' /\ NewPostsNotSkipped'
  BY DEF SearchInv, ListenInv, NewPostsNotSkipped

\* A session starts.
LEMMA OpenStep == ASSUME Inv, Open PROVE Inv'
  <1>1. /\ pc' = "search" /\ UNCHANGED World /\ held' = held /\ msg' = msg /\ pc = "off"
        /\ size' = Len(srvLog) /\ low' = 0 /\ high' = Len(srvLog) - 1 /\ counter' = 0
        /\ srvLog' = srvLog
    BY DEF Open, World
  <1>2. Len(srvLog) \in Nat
    BY DEF Inv, TypeOK
  <1>3. TypeOK'
    BY <1>1, <1>2 DEF Inv, TypeOK, World
  <1>4. LogInv' /\ PrefixInv' /\ HeldInv'
    BY <1>1, WorldFrame DEF Inv
  <1>5. SearchInv' /\ ListenInv' /\ NewPostsNotSkipped'
    BY <1>1, <1>2 DEF SearchInv, ListenInv, NewPostsNotSkipped
  <1> QED
    BY <1>3, <1>4, <1>5 DEF Inv

\* One question of the bisection.
LEMMA ProbeStep == ASSUME Inv, Probe PROVE Inv'
  <1>1. /\ pc = "search" /\ pc' = "search" /\ low <= high /\ counter' = Mid
        /\ UNCHANGED World /\ held' = held /\ msg' = msg /\ size' = size /\ srvLog' = srvLog
        /\ known' = known
    BY DEF Probe, World
  <1>2. /\ low \in Nat /\ high \in Int /\ size \in Nat /\ Len(srvLog) \in Nat
        /\ high < size /\ size <= Len(srvLog)
    BY <1>1 DEF Inv, TypeOK, SearchInv, ListenInv
  <1>3. Mid \in Nat /\ low <= Mid /\ Mid <= high /\ Mid \in Indices
    BY <1>1, <1>2, Middle DEF Mid, Indices
  <1> HIDE DEF Mid
  <1>4. LogInv' /\ PrefixInv' /\ HeldInv'
    BY <1>1, WorldFrame DEF Inv
  <1>5. TypeOK'
    BY <1>1, <1>2, <1>3 DEF Probe, Inv, TypeOK, World
  <1>6. SearchInv'
    <2>1. CASE At(Mid) \in known /\ low' = Mid + 1 /\ high' = high
      <3>1. \A i \in 0..Mid : Settled(i)
        BY <1>3, <2>1 DEF Inv, PrefixInv
      <3>2. \A i \in 0..(low' - 1) : Settled(i)'
        BY <1>1, <1>3, <2>1, <3>1, WorldFrame
      <3> QED
        BY <1>1, <1>2, <1>3, <2>1, <3>2 DEF SearchInv
    <2>2. CASE high' = Mid - 1 /\ low' = low
      <3>1. \A i \in 0..(low' - 1) : Settled(i)'
        BY <1>1, <2>2, WorldFrame DEF Inv, SearchInv
      <3> QED
        BY <1>1, <1>2, <1>3, <2>2, <3>1 DEF SearchInv
    <2> QED
      BY <2>1, <2>2 DEF Probe
  <1>7. ListenInv' /\ NewPostsNotSkipped'
    BY <1>1, <1>2, <1>3 DEF ListenInv, NewPostsNotSkipped
  <1> QED
    BY <1>4, <1>5, <1>6, <1>7 DEF Inv

\* The bisection ends: what precedes its result is settled.
LEMMA SearchDoneStep == ASSUME Inv, SearchDone PROVE Inv'
  <1>1. /\ pc = "search" /\ pc' = "listen" /\ low > high /\ low' = 0 /\ high' = -1
        /\ counter' = counter /\ size' = size /\ msg' = msg /\ srvLog' = srvLog
        /\ UNCHANGED World /\ held' = held
    BY DEF SearchDone, World
  <1>2. /\ low \in Nat /\ high \in Int /\ size \in Nat /\ counter \in Nat /\ Len(srvLog) \in Nat
        /\ low <= high + 1 /\ high < size /\ size <= Len(srvLog)
        /\ counter = 0 \/ counter = low - 1 \/ counter = high + 1
        /\ \A i \in 0..(low - 1) : Settled(i)
    BY <1>1 DEF Inv, TypeOK, SearchInv, ListenInv
  <1>3. counter <= low /\ counter <= size
    BY <1>1, <1>2
  <1>4. LogInv' /\ PrefixInv' /\ HeldInv'
    BY <1>1, WorldFrame DEF Inv
  <1>5. TypeOK'
    BY <1>1 DEF Inv, TypeOK, World
  <1>6. ListenInv'
    <2>1. \A i \in 0..(counter' - 1) : Settled(i)'
      BY <1>1, <1>2, <1>3, WorldFrame
    <2> QED
      BY <1>1, <1>2, <1>3, <2>1 DEF ListenInv
  <1>7. SearchInv' /\ NewPostsNotSkipped'
    BY <1>1, <1>2, <1>3 DEF SearchInv, NewPostsNotSkipped
  <1> QED
    BY <1>4, <1>5, <1>6, <1>7 DEF Inv

\* A session that ends, by an error, by closing the chat or with the program.
LEMMA EndSteps == ASSUME Inv, SearchError \/ Close \/ Crash PROVE Inv'
  <1>1. Reset /\ UNCHANGED World
    BY DEF SearchError, Close, Crash, World
  <1>2. held' = held \/ held' = {} \/ (pc = "got" /\ held' = held \cup {msg})
    BY DEF SearchError, Close, Crash
  <1>3. TypeOK'
    BY <1>1, <1>2 DEF Reset, Inv, TypeOK, World
  <1>4. LogInv' /\ PrefixInv'
    BY <1>1, WorldFrame DEF Inv
  <1>5. HeldInv'
    <2>1. CASE held' = held \/ held' = {}
      BY <1>1, <2>1, WorldFrame DEF Inv, HeldInv
    <2>2. CASE pc = "got" /\ held' = held \cup {msg}
      <3>1. counter - 1 \in Indices /\ At(counter - 1) = msg
            /\ \A i \in 0..((counter - 1) - 1) : Settled(i)
        <4>1. counter \in Nat /\ Len(srvLog) \in Nat
          BY DEF Inv, TypeOK
        <4> QED
          BY <2>2, <4>1 DEF Inv, ListenInv, Indices
      <3> QED
        BY <1>1, <2>2, <3>1, WorldFrame DEF Inv, HeldInv
    <2> QED
      BY <1>2, <2>1, <2>2
  <1> QED
    BY <1>1, <1>3, <1>4, <1>5, OffStep DEF Reset, Inv

\* A message the database already has is passed over.
LEMMA ListenKnownStep == ASSUME Inv, ListenKnown PROVE Inv'
  <1>1. /\ pc = "listen" /\ pc' = "listen" /\ counter < Len(srvLog) /\ At(counter) \in known
        /\ counter' = counter + 1 /\ size' = size /\ msg' = msg /\ low' = low /\ high' = high
        /\ UNCHANGED World /\ held' = held /\ srvLog' = srvLog /\ known' = known
        /\ failed' = failed
    BY DEF ListenKnown, World
  <1>2. /\ counter \in Nat /\ size \in Nat /\ Len(srvLog) \in Nat /\ size <= Len(srvLog)
        /\ \A i \in 0..(counter - 1) : Settled(i)
    BY <1>1 DEF Inv, TypeOK, ListenInv
  <1>3. LogInv' /\ PrefixInv' /\ HeldInv'
    BY <1>1, WorldFrame DEF Inv
  <1>4. TypeOK'
    BY <1>1, <1>2 DEF Inv, TypeOK, World
  <1>5. ListenInv'
    <2>1. \A i \in 0..(counter' - 1) : Settled(i)
      BY <1>1, <1>2 DEF Settled
    <2> QED
      BY <1>1, <1>2, <2>1, WorldFrame DEF ListenInv
  <1>6. NewPostsNotSkipped'
    <2>1. \A i \in size..counter : At(i) \in known \cup failed \cup {msg}
      BY <1>1, <1>2 DEF Inv, NewPostsNotSkipped
    <2> QED
      BY <1>1, <1>2, <2>1, WorldFrame DEF NewPostsNotSkipped
  <1>7. SearchInv'
    BY <1>1 DEF SearchInv
  <1> QED
    BY <1>3, <1>4, <1>5, <1>6, <1>7 DEF Inv

\* A new message is taken in hand.
LEMMA ListenNewStep == ASSUME Inv, ListenNew PROVE Inv'
  <1>1. /\ pc = "listen" /\ pc' = "got" /\ counter < Len(srvLog)
        /\ counter' = counter + 1 /\ size' = size /\ msg' = At(counter)
        /\ low' = low /\ high' = high
        /\ UNCHANGED World /\ held' = held /\ srvLog' = srvLog /\ known' = known
        /\ failed' = failed
    BY DEF ListenNew, World
  <1>2. /\ counter \in Nat /\ size \in Nat /\ Len(srvLog) \in Nat /\ size <= Len(srvLog)
        /\ msg = NoMessage /\ srvLog \in Seq(Messages)
        /\ \A i \in 0..(counter - 1) : Settled(i)
    BY <1>1 DEF Inv, TypeOK, ListenInv
  <1>3. LogInv' /\ PrefixInv' /\ HeldInv'
    BY <1>1, WorldFrame DEF Inv
  <1>4. \A i \in 0..(Len(srvLog) - 1) : At(i) \in Messages
    BY <1>2 DEF At
  <1>5. TypeOK'
    BY <1>1, <1>2, <1>4 DEF Inv, TypeOK, World
  <1>6. ListenInv'
    BY <1>1, <1>2, WorldFrame DEF ListenInv
  <1>7. NewPostsNotSkipped'
    <2>1. \A i \in size..(counter - 1) : At(i) \in known \cup failed
      <3>1. ASSUME NEW i \in size..(counter - 1) PROVE At(i) \in known \cup failed
        <4>1. At(i) \in known \cup failed \cup {msg}
          BY <1>1 DEF Inv, NewPostsNotSkipped
        <4>2. i \in 0..(Len(srvLog) - 1)
          BY <1>1, <1>2
        <4> QED
          BY <1>2, <1>4, <4>1, <4>2
      <3> QED
        BY <3>1
    <2> QED
      BY <1>1, <1>2, <2>1, WorldFrame DEF NewPostsNotSkipped
  <1>8. SearchInv'
    BY <1>1 DEF SearchInv
  <1> QED
    BY <1>3, <1>5, <1>6, <1>7, <1>8 DEF Inv

\* The log and the sets of messages only grow: what was settled stays settled.
Grows ==
    /\ srvLog' \in Seq(Messages) /\ Len(srvLog) <= Len(srvLog')
    /\ \A i \in Indices : At(i)' = At(i)
    /\ known \subseteq known' /\ elsewhere \subseteq elsewhere' /\ failed \subseteq failed'

\* What was settled stays settled while the log and the database grow.
LEMMA GrowFrame ==
    ASSUME Inv, Grows
    PROVE  /\ Indices \subseteq Indices'
           /\ \A i \in Indices : Settled(i) => Settled(i)'
  <1>1. Len(srvLog) \in Nat /\ Len(srvLog') \in Nat
    BY DEF Inv, TypeOK, Grows
  <1>2. Indices \subseteq Indices'
    BY <1>1 DEF Grows, Indices
  <1>3. ASSUME NEW i \in Indices, Settled(i) PROVE Settled(i)'
    <2>1. CASE At(i) \in known
      BY <2>1 DEF Grows, Settled
    <2>2. CASE Overtaken(i)
      <3>1. PICK k \in Indices : k >= i /\ At(k) \in elsewhere \cup failed
        BY <2>2 DEF Overtaken
      <3>2. k \in Indices' /\ At(k)' \in elsewhere' \cup failed'
        BY <1>2, <3>1 DEF Grows
      <3> QED
        BY <3>1, <3>2 DEF Settled, Overtaken
    <2> QED
      BY <1>3, <2>1, <2>2 DEF Settled
  <1> QED
    BY <1>2, <1>3

\* The invariants of the listener under a step of somebody else.
LEMMA GrowStep ==
    ASSUME Inv, Grows, UNCHANGED listener
    PROVE  SearchInv' /\ ListenInv' /\ NewPostsNotSkipped'
  <1>1. /\ pc' = pc /\ low' = low /\ high' = high /\ counter' = counter /\ size' = size
        /\ msg' = msg
    BY DEF listener
  <1>2. /\ low \in Nat /\ high \in Int /\ counter \in Nat /\ size \in Nat
        /\ Len(srvLog) \in Nat /\ Len(srvLog') \in Nat /\ Len(srvLog) <= Len(srvLog')
    BY DEF Inv, TypeOK, Grows
  <1>3. ASSUME NEW n \in Int, n <= Len(srvLog), \A i \in 0..(n - 1) : Settled(i)
        PROVE  \A i \in 0..(n - 1) : Settled(i)'
    <2>1. \A i \in 0..(n - 1) : i \in Indices
      BY <1>2, <1>3 DEF Indices
    <2> QED
      BY <1>3, <2>1, GrowFrame
  <1>4. SearchInv'
    <2> SUFFICES ASSUME pc = "search" PROVE SearchInv'
      BY <1>1 DEF SearchInv
    <2>1. /\ low <= high + 1 /\ high < size /\ size <= Len(srvLog)
          /\ counter = 0 \/ counter = low - 1 \/ counter = high + 1
          /\ \A i \in 0..(low - 1) : Settled(i)
      BY DEF Inv, SearchInv, ListenInv
    <2>2. low \in Int /\ low <= Len(srvLog)
      BY <1>2, <2>1
    <2>3. \A i \in 0..(low - 1) : Settled(i)'
      BY <1>3, <2>1, <2>2
    <2> QED
      BY <1>1, <2>1, <2>3 DEF SearchInv
  <1>5. ListenInv'
    <2>1. CASE pc = "off"
      BY <1>1, <2>1 DEF ListenInv
    <2>2. CASE pc = "search"
      BY <1>1, <1>2, <2>2 DEF Inv, ListenInv
    <2>3. CASE pc = "listen"
      <3>1. counter <= Len(srvLog) /\ size <= Len(srvLog) /\ \A i \in 0..(counter - 1) : Settled(i)
        BY <2>3 DEF Inv, ListenInv
      <3>2. \A i \in 0..(counter - 1) : Settled(i)'
        BY <1>2, <1>3, <3>1
      <3> QED
        BY <1>1, <1>2, <2>3, <3>1, <3>2 DEF ListenInv
    <2>4. CASE pc = "got"
      <3>1. /\ counter <= Len(srvLog) /\ size <= Len(srvLog) /\ counter > 0
            /\ At(counter - 1) = msg /\ \A i \in 0..(counter - 2) : Settled(i)
        BY <2>4 DEF Inv, ListenInv
      <3>2. counter - 1 \in Int /\ counter - 1 <= Len(srvLog) /\ (counter - 1) - 1 = counter - 2
        BY <1>2, <3>1
      <3>3. \A i \in 0..(counter - 2) : Settled(i)'
        BY <1>3, <3>1, <3>2
      <3>4. At(counter - 1)' = msg
        <4>1. counter - 1 \in Indices
          BY <1>2, <3>1 DEF Indices
        <4>2. At(counter - 1)' = srvLog'[(counter - 1) + 1] /\ At(counter - 1) = srvLog[(counter - 1) + 1]
          BY <1>1 DEF At
        <4> QED
          BY <3>1, <4>1, <4>2 DEF Grows, At
      <3> QED
        BY <1>1, <1>2, <2>4, <3>1, <3>3, <3>4 DEF ListenInv
    <2> QED
      BY <2>1, <2>2, <2>3, <2>4 DEF Inv, TypeOK
  <1>6. NewPostsNotSkipped'
    <2> SUFFICES ASSUME pc \in {"listen", "got"}, NEW i \in size..(counter - 1)
                 PROVE  At(i)' \in known' \cup failed' \cup {msg}
      BY <1>1 DEF NewPostsNotSkipped, At
    <2>1. At(i) \in known \cup failed \cup {msg}
      BY DEF Inv, NewPostsNotSkipped
    <2>2. i \in Indices
      BY <1>2 DEF Inv, ListenInv, Indices
    <2> QED
      BY <2>1, <2>2 DEF Grows
  <1> QED
    BY <1>4, <1>5, <1>6

\* A message of the log whose predecessors are settled enters the database.
LEMMA KnowStep ==
    ASSUME Inv, NEW j \in Indices, \A i \in 0..(j - 1) : Settled(i),
           known' = known \cup {At(j)}, UNCHANGED <<srvLog, elsewhere>>,
           failed \subseteq failed', held' \subseteq held
    PROVE  Grows /\ LogInv' /\ PrefixInv' /\ HeldInv' /\ Settled(j)'
  <1>1. /\ srvLog' = srvLog /\ elsewhere' = elsewhere /\ failed \subseteq failed'
        /\ \A i : At(i)' = At(i)
        /\ Indices' = Indices /\ OnServer' = OnServer
    BY DEF At, Indices, OnServer
  <1>2. Grows
    BY <1>1 DEF Inv, TypeOK, Grows
  <1>3. Settled(j)'
    BY <1>1 DEF Settled
  <1>4. LogInv'
    <2>1. At(j) \in OnServer
      BY DEF OnServer
    <2> QED
      BY <1>1, <2>1 DEF Inv, LogInv
  <1>5. PrefixInv'
    <2> SUFFICES ASSUME NEW k \in Indices, At(k) \in known', NEW i \in 0..k
                 PROVE  Settled(i)'
      BY <1>1 DEF PrefixInv
    <2>1. i \in Indices
      BY DEF Indices
    <2>2. CASE At(k) \in known
      BY <1>2, <2>1, <2>2, GrowFrame DEF Inv, PrefixInv
    <2>3. CASE At(k) = At(j)
      <3>1. k = j
        BY <2>3 DEF Inv, LogInv
      <3>2. i = j \/ i \in 0..(j - 1)
        BY <3>1 DEF Indices
      <3> QED
        BY <1>2, <1>3, <2>1, <3>2, GrowFrame
    <2> QED
      BY <2>2, <2>3
  <1>6. HeldInv'
    <2> SUFFICES ASSUME NEW m \in held
                 PROVE  \E k \in Indices : At(k) = m /\ \A i \in 0..(k - 1) : Settled(i)'
      BY <1>1 DEF HeldInv
    <2>1. PICK k \in Indices : At(k) = m /\ \A i \in 0..(k - 1) : Settled(i)
      BY DEF Inv, HeldInv
    <2>2. \A i \in 0..(k - 1) : i \in Indices
      BY DEF Indices
    <2> QED
      BY <1>2, <2>1, <2>2, GrowFrame
  <1> QED
    BY <1>2, <1>3, <1>4, <1>5, <1>6

\* The message in hand is stored.
LEMMA StoreStep == ASSUME Inv, Store PROVE Inv'
  <1>1. /\ pc = "got" /\ pc' = "listen" /\ known' = known \cup {msg} /\ msg' = NoMessage
        /\ low' = low /\ high' = high /\ counter' = counter /\ size' = size
        /\ UNCHANGED <<srvLog, elsewhere, failed>> /\ held' = held
        /\ srvLog' = srvLog /\ failed' = failed
    BY DEF Store
  <1>2. /\ counter \in Nat /\ Len(srvLog) \in Nat /\ size \in Nat /\ counter > 0
        /\ counter <= Len(srvLog) /\ size <= Len(srvLog) /\ At(counter - 1) = msg
        /\ \A i \in 0..(counter - 2) : Settled(i)
    BY <1>1 DEF Inv, TypeOK, ListenInv
  <1>3. PICK j \in Indices : /\ j = counter - 1 /\ At(j) = msg
                             /\ \A i \in 0..(j - 1) : Settled(i)
    <2>1. counter - 1 \in Indices
      BY <1>2 DEF Indices
    <2> QED
      BY <1>2, <2>1
  <1>4. Grows /\ LogInv' /\ PrefixInv' /\ HeldInv' /\ Settled(j)'
    BY <1>1, <1>3, KnowStep
  <1>5. TypeOK'
    BY <1>1 DEF Inv, TypeOK
  <1>6. ListenInv'
    <2>1. ASSUME NEW i \in 0..(counter - 1) PROVE Settled(i)'
      <3>1. CASE i = j
        BY <1>4, <3>1
      <3>2. CASE i # j
        <4>1. i \in Indices /\ i \in 0..(j - 1)
          BY <1>2, <1>3, <3>2 DEF Indices
        <4> QED
          BY <1>3, <1>4, <4>1, GrowFrame
      <3> QED
        BY <3>1, <3>2
    <2> QED
      BY <1>1, <1>2, <2>1 DEF ListenInv
  <1>7. NewPostsNotSkipped'
    <2>1. \A i \in size..(counter - 1) : At(i) \in known \cup failed \cup {msg}
      BY <1>1 DEF Inv, NewPostsNotSkipped
    <2>2. \A i : At(i)' = At(i)
      BY <1>1 DEF At
    <2> QED
      BY <1>1, <2>1, <2>2 DEF NewPostsNotSkipped
  <1>8. SearchInv'
    BY <1>1 DEF SearchInv
  <1> QED
    BY <1>4, <1>5, <1>6, <1>7, <1>8 DEF Inv

\* A write of the message in hand fails, with or without its record written.
LEMMA StoreFailsStep == ASSUME Inv, StoreFails PROVE Inv'
  <1>1. /\ pc = "got" /\ pc' = "listen" /\ failed' = failed \cup {msg} /\ msg' = NoMessage
        /\ low' = low /\ high' = high /\ counter' = counter /\ size' = size
        /\ srvLog' = srvLog /\ elsewhere' = elsewhere /\ held' = held
        /\ (known' = known \/ known' = known \cup {msg})
    BY DEF StoreFails
  <1>2. /\ counter \in Nat /\ Len(srvLog) \in Nat /\ size \in Nat /\ counter > 0
        /\ counter <= Len(srvLog) /\ size <= Len(srvLog) /\ At(counter - 1) = msg
        /\ \A i \in 0..(counter - 2) : Settled(i)
    BY <1>1 DEF Inv, TypeOK, ListenInv
  <1>3. (\A i : At(i)' = At(i)) /\ Indices' = Indices /\ OnServer' = OnServer
    BY <1>1 DEF At, Indices, OnServer
  <1>4. Grows /\ LogInv' /\ PrefixInv' /\ HeldInv'
    <2>1. CASE known' = known
      <3> USE <1>1, <2>1
      <3>1. Grows
        BY <1>3 DEF Inv, TypeOK, Grows
      <3>2. LogInv'
        BY <1>3 DEF Inv, LogInv
      <3>3. PrefixInv'
        <4> SUFFICES ASSUME NEW k \in Indices, At(k) \in known, NEW i \in 0..k
                     PROVE  Settled(i)'
          BY <1>1, <1>3 DEF PrefixInv
        <4>1. i \in Indices /\ Settled(i)
          BY DEF Inv, PrefixInv, Indices
        <4> QED
          BY <3>1, <4>1, GrowFrame
      <3>4. HeldInv'
        <4> SUFFICES ASSUME NEW m \in held
                     PROVE  \E k \in Indices : At(k) = m /\ \A i \in 0..(k - 1) : Settled(i)'
          BY <1>1, <1>3 DEF HeldInv
        <4>1. PICK k \in Indices : At(k) = m /\ \A i \in 0..(k - 1) : Settled(i)
          BY DEF Inv, HeldInv
        <4>2. \A i \in 0..(k - 1) : i \in Indices
          BY DEF Indices
        <4> QED
          BY <3>1, <4>1, <4>2, GrowFrame
      <3> QED
        BY <3>1, <3>2, <3>3, <3>4
    <2>2. CASE known' = known \cup {msg}
      <3>1. PICK j \in Indices : At(j) = msg /\ \A i \in 0..(j - 1) : Settled(i)
        <4>1. counter - 1 \in Indices /\ (counter - 1) - 1 = counter - 2
          BY <1>2 DEF Indices
        <4> QED
          BY <1>2, <4>1
      <3> QED
        BY <1>1, <2>2, <3>1, KnowStep
    <2> QED
      BY <1>1, <2>1, <2>2
  <1>5. TypeOK'
    BY <1>1 DEF Inv, TypeOK
  <1>6. ListenInv'
    <2>1. ASSUME NEW i \in 0..(counter - 1) PROVE Settled(i)'
      <3>1. i \in Indices /\ (i = counter - 1 \/ i \in 0..(counter - 2))
        BY <1>2 DEF Indices
      <3>2. CASE i = counter - 1
        BY <1>1, <1>2, <1>3, <3>1, <3>2 DEF Settled, Overtaken
      <3>3. CASE i \in 0..(counter - 2)
        BY <1>2, <1>4, <3>1, <3>3, GrowFrame
      <3> QED
        BY <3>1, <3>2, <3>3
    <2> QED
      BY <1>1, <1>2, <2>1 DEF ListenInv
  <1>7. NewPostsNotSkipped'
    <2>1. \A i \in size..(counter - 1) : At(i) \in known \cup failed \cup {msg}
      BY <1>1 DEF Inv, NewPostsNotSkipped
    <2> QED
      BY <1>1, <1>3, <2>1 DEF NewPostsNotSkipped
  <1>8. SearchInv'
    BY <1>1 DEF SearchInv
  <1> QED
    BY <1>4, <1>5, <1>6, <1>7, <1>8 DEF Inv

\* A listener of a closed session stores the message it held.
LEMMA LateStoreStep == ASSUME Inv, NEW m \in Messages, LateStore(m) PROVE Inv'
  <1>1. /\ m \in held /\ held' = held \ {m} /\ known' = known \cup {m}
        /\ UNCHANGED <<srvLog, elsewhere, failed>> /\ UNCHANGED listener
    BY DEF LateStore
  <1>2. PICK j \in Indices : At(j) = m /\ \A i \in 0..(j - 1) : Settled(i)
    BY <1>1 DEF Inv, HeldInv
  <1>3. Grows /\ LogInv' /\ PrefixInv' /\ HeldInv'
    BY <1>1, <1>2, KnowStep
  <1>4. TypeOK'
    BY <1>1 DEF Inv, TypeOK, listener
  <1> QED
    BY <1>1, <1>3, <1>4, GrowStep DEF Inv

\* The database gets a message from another connection.
LEMMA LearnElsewhereStep == ASSUME Inv, NEW m \in Messages, LearnElsewhere(m) PROVE Inv'
  <1>1. /\ known' = known \cup {m} /\ elsewhere' = elsewhere \cup {m}
        /\ srvLog' = srvLog /\ failed' = failed /\ held' = held /\ UNCHANGED listener
    BY DEF LearnElsewhere
  <1>2. (\A i : At(i)' = At(i)) /\ Indices' = Indices /\ OnServer' = OnServer
    BY <1>1 DEF At, Indices, OnServer
  <1>3. Grows
    BY <1>1, <1>2 DEF Inv, TypeOK, Grows
  <1>4. TypeOK'
    BY <1>1 DEF Inv, TypeOK, listener
  <1>5. LogInv'
    BY <1>1, <1>2 DEF Inv, LogInv
  <1>6. PrefixInv'
    <2> SUFFICES ASSUME NEW k \in Indices, At(k) \in known', NEW i \in 0..k
                 PROVE  Settled(i)'
      BY <1>1, <1>2 DEF PrefixInv
    <2>1. i \in Indices /\ k >= i
      BY DEF Indices
    <2>2. CASE At(k) \in known
      BY <1>3, <2>1, <2>2, GrowFrame DEF Inv, PrefixInv
    <2>3. CASE At(k) = m
      BY <1>1, <1>2, <2>1, <2>3 DEF Settled, Overtaken
    <2> QED
      BY <1>1, <2>2, <2>3
  <1>7. HeldInv'
    <2> SUFFICES ASSUME NEW h \in held
                 PROVE  \E k \in Indices : At(k) = h /\ \A i \in 0..(k - 1) : Settled(i)'
      BY <1>1, <1>2 DEF HeldInv
    <2>1. PICK k \in Indices : At(k) = h /\ \A i \in 0..(k - 1) : Settled(i)
      BY DEF Inv, HeldInv
    <2>2. \A i \in 0..(k - 1) : i \in Indices
      BY DEF Indices
    <2> QED
      BY <1>3, <2>1, <2>2, GrowFrame
  <1> QED
    BY <1>1, <1>3, <1>4, <1>5, <1>6, <1>7, GrowStep DEF Inv

\* The server gets a new message.
LEMMA PostStep == ASSUME Inv, NEW m \in Messages, Post(m) PROVE Inv'
  <1>0. PICK n \in Nat : n = Len(srvLog)
    BY DEF Inv, TypeOK
  <1>1. /\ m \notin OnServer /\ srvLog' = Append(srvLog, m)
        /\ known' = known /\ elsewhere' = elsewhere /\ failed' = failed /\ held' = held
        /\ UNCHANGED listener
    BY DEF Post
  <1>2. srvLog \in Seq(Messages) /\ n = Len(srvLog)
    BY <1>0 DEF Inv, TypeOK
  <1>3. /\ srvLog' \in Seq(Messages) /\ Len(srvLog') = n + 1
        /\ \A i \in 1..n : srvLog'[i] = srvLog[i]
        /\ srvLog'[n + 1] = m
    BY <1>1, <1>2
  <1>4. /\ \A i \in Indices : At(i)' = At(i)
        /\ At(n)' = m
        /\ Indices' = Indices \cup {n} /\ n \notin Indices
        /\ \A i \in Indices : i \in Nat /\ i < n
    <2>1. \A i \in Indices : i \in Nat /\ i < n /\ i + 1 \in 1..n
      BY <1>2 DEF Indices
    <2>2. At(n)' = m
      BY <1>3 DEF At
    <2>3. \A i \in Indices : At(i)' = At(i)
      BY <1>3, <2>1 DEF At
    <2>4. Indices' = Indices \cup {n}
      BY <1>2, <1>3 DEF Indices
    <2>5. n \notin Indices
      BY <1>2 DEF Indices
    <2> QED
      BY <2>1, <2>2, <2>3, <2>4, <2>5
  <1>5. Grows
    BY <1>1, <1>2, <1>3, <1>4 DEF Grows
  <1>6. TypeOK'
    BY <1>1, <1>3 DEF Inv, TypeOK, listener
  <1>7. OnServer' = OnServer \cup {m}
    BY <1>4 DEF OnServer
  <1>8. LogInv'
    <2>1. \A i \in Indices : At(i) # m
      BY <1>1 DEF OnServer
    <2>2. \A i, j \in Indices' : At(i)' = At(j)' => i = j
      BY <1>4, <2>1 DEF Inv, LogInv
    <2> QED
      BY <1>1, <1>7, <2>2 DEF Inv, LogInv
  <1>9. PrefixInv'
    <2> SUFFICES ASSUME NEW k \in Indices', At(k)' \in known, NEW i \in 0..k
                 PROVE  Settled(i)'
      BY <1>1 DEF PrefixInv
    <2>1. CASE k \in Indices
      <3>1. i \in Indices
        BY <2>1 DEF Indices
      <3>2. Settled(i)
        BY <1>4, <2>1 DEF Inv, PrefixInv
      <3> QED
        BY <1>5, <3>1, <3>2, GrowFrame
    <2>2. CASE k = n
      <3>1. m \in elsewhere
        BY <1>1, <1>4, <2>2 DEF Inv, LogInv
      <3>2. k >= i
        BY <2>2
      <3> QED
        BY <1>1, <1>4, <2>2, <3>1, <3>2 DEF Settled, Overtaken
    <2> QED
      BY <1>4, <2>1, <2>2
  <1>10. HeldInv'
    <2> SUFFICES ASSUME NEW h \in held
                 PROVE  \E k \in Indices' : At(k)' = h /\ \A i \in 0..(k - 1) : Settled(i)'
      BY <1>1 DEF HeldInv
    <2>1. PICK k \in Indices : At(k) = h /\ \A i \in 0..(k - 1) : Settled(i)
      BY DEF Inv, HeldInv
    <2>2. \A i \in 0..(k - 1) : i \in Indices
      BY DEF Indices
    <2>3. k \in Indices' /\ At(k)' = h /\ \A i \in 0..(k - 1) : Settled(i)'
      BY <1>4, <1>5, <2>1, <2>2, GrowFrame
    <2> QED
      BY <2>3
  <1> QED
    BY <1>1, <1>5, <1>6, <1>8, <1>9, <1>10, GrowStep DEF Inv

\* Every step preserves the invariant.
LEMMA StepInv == Inv /\ [Next]_vars => Inv'
  <1> SUFFICES ASSUME Inv, [Next]_vars PROVE Inv'
    OBVIOUS
  <1>1. CASE UNCHANGED vars
    <2>1. UNCHANGED World /\ UNCHANGED listener /\ held' = held
      BY <1>1 DEF vars, World
    <2>2. Grows
      BY <2>1 DEF Inv, TypeOK, Grows, World, At
    <2>3. TypeOK'
      BY <2>1 DEF Inv, TypeOK, World, listener
    <2> QED
      BY <2>1, <2>2, <2>3, WorldFrame, GrowStep DEF Inv
  <1>2. CASE Open \/ Step \/ SearchError \/ StoreFails \/ Close \/ Crash
    BY <1>2, OpenStep, ProbeStep, SearchDoneStep, ListenKnownStep, ListenNewStep, StoreStep,
       StoreFailsStep, EndSteps DEF Step
  <1>3. ASSUME NEW m \in Messages, LateStore(m) \/ Post(m) \/ LearnElsewhere(m) PROVE Inv'
    BY <1>3, LateStoreStep, PostStep, LearnElsewhereStep
  <1> QED
    BY <1>1, <1>2, <1>3 DEF Next

\* The inductive invariant holds in every reachable state.
THEOREM Invariance == Spec => []Inv
  BY InitInv, StepInv, PTL DEF Spec

\* The variables keep their types.
THEOREM TypeCorrect == Spec => []TypeOK
  <1>1. Inv => TypeOK
    BY DEF Inv
  <1> QED
    BY <1>1, Invariance, PTL

\* A session passes over a message the database does not hold only if one at or
\* after its index came from another connection or was lost by a failed write.
THEOREM SkipSoundness == Spec => []SkipsOnlyOvertaken
  <1>1. ASSUME Inv PROVE SkipsOnlyOvertaken
    <2> SUFFICES ASSUME pc \in {"listen", "got"}, NEW i \in 0..(counter - 1)
                 PROVE  At(i) \in known \/ At(i) = msg \/ Overtaken(i)
      BY DEF SkipsOnlyOvertaken
    <2>1. counter \in Nat
      BY <1>1 DEF Inv, TypeOK
    <2>2. CASE pc = "listen"
      BY <1>1, <2>2 DEF Inv, ListenInv, Settled
    <2>3. CASE pc = "got"
      <3>1. /\ At(counter - 1) = msg
            /\ \A k \in 0..(counter - 2) : Settled(k)
        BY <1>1, <2>3 DEF Inv, ListenInv
      <3>2. i = counter - 1 \/ i \in 0..(counter - 2)
        BY <2>1
      <3> QED
        BY <3>1, <3>2 DEF Settled
    <2> QED
      BY <2>2, <2>3
  <1> QED
    BY <1>1, Invariance, PTL

\* Nothing posted after the session began is skipped.
THEOREM NewPostsSoundness == Spec => []NewPostsNotSkipped
  <1>1. Inv => NewPostsNotSkipped
    BY DEF Inv
  <1> QED
    BY <1>1, Invariance, PTL

\* The bisection asks only for messages the server has.
THEOREM SearchSoundness == Spec => []SearchInBounds
  <1>1. ASSUME Inv PROVE SearchInBounds
    <2>1. low \in Nat /\ high \in Int /\ size \in Nat /\ Len(srvLog) \in Nat
      BY <1>1 DEF Inv, TypeOK
    <2>2. pc = "search" => low <= high + 1 /\ high < size
      BY <1>1 DEF Inv, SearchInv
    <2>3. pc # "off" => counter <= Len(srvLog) /\ size <= Len(srvLog)
      BY <1>1 DEF Inv, ListenInv
    <2>4. pc = "search" /\ low <= high => Mid \in Indices
      BY <2>1, <2>2, <2>3, Middle DEF Mid, Indices
    <2> QED
      BY <2>1, <2>2, <2>3, <2>4 DEF SearchInBounds
  <1> QED
    BY <1>1, Invariance, PTL

-----------------------------------------------------------------------------
(* Least members, and the enumeration of a set. *)

\* A set of naturals that is not empty has a least member.
LEMMA LeastMember ==
    ASSUME NEW S \in SUBSET Nat, S # {}
    PROVE  \E n \in S : \A m \in S : n <= m
  <1> DEFINE R == OpToRel(<, Nat)
  <1>1. \A k, m \in Nat : m < k => <<m, k>> \in R
    BY DEF OpToRel
  <1>2. IsWellFoundedOn(R, Nat)
    BY NatLessThanWellFounded, Zenon
  <1> HIDE DEF R
  <1>3. PICK n \in S : \A m \in S : ~ (<<m, n>> \in R)
    BY <1>2, WFMin
  <1>4. ASSUME NEW m \in S PROVE n <= m
    <2>1. m \in Nat /\ n \in Nat
      OBVIOUS
    <2>2. ~ (m < n)
      BY <1>1, <1>3, <2>1
    <2> QED
      BY <2>1, <2>2
  <1> QED
    BY <1>4

\* One of 0..n has a greatest member.
LEMMA GreatestMember ==
    ASSUME NEW n \in Nat, NEW S \in SUBSET (0..n), S # {}
    PROVE  \E g \in S : \A m \in S : m <= g
  <1> DEFINE D == { n - m : m \in S }
  <1>1. D \in SUBSET Nat /\ D # {}
    <2>1. \A m \in S : n - m \in Nat
      OBVIOUS
    <2> QED
      BY <2>1
  <1>2. PICK d \in D : \A e \in D : d <= e
    <2> HIDE DEF D
    <2> QED
      BY <1>1, LeastMember
  <1>3. PICK g \in S : d = n - g
    BY <1>2
  <1>4. \A m \in S : n - m \in D
    OBVIOUS
  <1>5. ASSUME NEW m \in S PROVE m <= g
    BY <1>2, <1>3, <1>4
  <1> QED
    BY <1>5

Members(s) == { s[i] : i \in DOMAIN s }
Increasing(s) == \A i, j \in DOMAIN s : i < j => s[i] < s[j]

\* What a finite set of indices has: a cardinality.
LEMMA IndicesFinite ==
    ASSUME NEW n \in Nat, NEW W \in SUBSET (0..n)
    PROVE  IsFiniteSet(W) /\ Cardinality(W) \in Nat
  <1>1. IsFiniteSet(0..n)
    BY FS_Interval
  <1> QED
    BY <1>1, FS_Subset, FS_CardinalityType

\* A finite set of indices can be put in order.
LEMMA AscendingExists ==
    ASSUME NEW n \in Nat, NEW W \in SUBSET (0..n)
    PROVE  \E s \in [1..Cardinality(W) -> W] : Increasing(s)
  <1> DEFINE Ordered(V) == \E s \in [1..Cardinality(V) -> V] : Increasing(s)
             Bad == { V \in SUBSET (0..n) : ~ Ordered(V) }
             Sizes == { Cardinality(V) : V \in Bad }
  <1> SUFFICES ASSUME ~ Ordered(W) PROVE FALSE
    OBVIOUS
  <1>1. Sizes \in SUBSET Nat /\ Sizes # {}
    <2>1. W \in Bad
      OBVIOUS
    <2> HIDE DEF Ordered
    <2> QED
      BY <2>1, IndicesFinite
  <1>2. PICK k \in Sizes : \A m \in Sizes : k <= m
    <2> HIDE DEF Sizes
    <2> QED
      BY <1>1, LeastMember
  <1>3. PICK V \in Bad : Cardinality(V) = k
    <2> HIDE DEF Bad
    <2> QED
      BY <1>2
  <1>4. V \in SUBSET (0..n) /\ ~ Ordered(V) /\ IsFiniteSet(V) /\ k \in Nat
    <2> HIDE DEF Ordered
    <2> QED
      BY <1>3, IndicesFinite
  <1> HIDE DEF Bad, Sizes
  <1>5. V # {}
    <2> SUFFICES ASSUME V = {} PROVE Ordered(V)
      BY <1>4
    <2>1. Cardinality(V) = 0
      BY FS_EmptySet
    <2> DEFINE e == [i \in 1..Cardinality(V) |-> 0]
    <2>2. DOMAIN e = {} /\ e \in [1..Cardinality(V) -> V]
      BY <2>1
    <2> QED
      BY <2>2 DEF Increasing
  <1>6. PICK g \in V : \A m \in V : m <= g
    <2> HIDE DEF Ordered
    <2> QED
      BY <1>4, <1>5, GreatestMember
  <1> DEFINE U == V \ {g}
  <1>7. Cardinality(U) = k - 1 /\ U \in SUBSET (0..n)
    BY <1>3, <1>4, <1>6, FS_RemoveElement
  <1>8. k - 1 \in Nat
    BY <1>7, IndicesFinite
  <1>9. Ordered(U)
    <2> SUFFICES ASSUME ~ Ordered(U) PROVE FALSE
      OBVIOUS
    <2> HIDE DEF Ordered
    <2>1. U \in Bad
      BY <1>7 DEF Bad
    <2>2. Cardinality(U) \in Sizes
      BY <2>1 DEF Sizes
    <2> QED
      BY <1>2, <1>4, <1>7, <2>2
  <1>10. PICK s \in [1..(k - 1) -> U] : Increasing(s)
    BY <1>7, <1>9
  <1> DEFINE t == [i \in 1..k |-> IF i = k THEN g ELSE s[i]]
  <1>11. t \in [1..k -> V]
    BY <1>4, <1>6, <1>8, <1>10
  <1>12. ASSUME NEW i \in 1..k, NEW j \in 1..k, i < j PROVE t[i] < t[j]
    <2>1. i \in 1..(k - 1) /\ t[i] = s[i] /\ s[i] \in U
      BY <1>4, <1>10, <1>12
    <2>2. s[i] < g
      <3>1. \A x \in V : x \in Nat
        BY <1>4
      <3>2. s[i] \in V /\ s[i] # g /\ s[i] <= g
        BY <2>1, <1>6
      <3>3. s[i] \in Nat /\ g \in Nat
        BY <3>1, <3>2
      <3> QED
        BY <3>2, <3>3
    <2>3. CASE j = k
      BY <2>1, <2>2, <2>3
    <2>4. CASE j # k
      <3>1. j \in 1..(k - 1) /\ t[j] = s[j]
        BY <1>4, <2>4
      <3> QED
        BY <2>1, <3>1, <1>10, <1>12 DEF Increasing
    <2> QED
      BY <2>3, <2>4
  <1>13. Increasing(t)
    BY <1>12 DEF Increasing
  <1> QED
    BY <1>3, <1>4, <1>11, <1>13

\* Ascending(W) has the members of W, each once, in order.
LEMMA AscendingProperties ==
    ASSUME NEW n \in Nat, NEW W \in SUBSET (0..n)
    PROVE  /\ Ascending(W) \in Seq(W) /\ Len(Ascending(W)) = Cardinality(W)
           /\ Increasing(Ascending(W))
           /\ Members(Ascending(W)) = W
  <1> DEFINE a == Ascending(W)
             c == Cardinality(W)
  <1>1. IsFiniteSet(W) /\ c \in Nat
    BY IndicesFinite
  <1>2. a \in [1..c -> W] /\ Increasing(a)
    <2>1. a = CHOOSE s \in [1..c -> W] : Increasing(s)
      BY DEF Ascending, Increasing
    <2>2. \E s \in [1..c -> W] : Increasing(s)
      BY AscendingExists
    <2> QED
      BY <2>1, <2>2
  <1> HIDE DEF a, c
  <1>3. a \in Seq(W) /\ Len(a) = c /\ DOMAIN a = 1..c
    BY <1>1, <1>2
  <1>4. ASSUME NEW i \in 1..c, NEW j \in 1..c, i # j PROVE a[i] # a[j]
    <2>1. a[i] \in W /\ a[j] \in W /\ \A x \in W : x \in Nat
      BY <1>2
    <2>2. (i < j => a[i] < a[j]) /\ (j < i => a[j] < a[i])
      BY <1>2, <1>3 DEF Increasing
    <2>3. i < j \/ j < i
      BY <1>1, <1>4
    <2>4. a[i] \in Nat /\ a[j] \in Nat
      BY <2>1
    <2> QED
      BY <2>2, <2>3, <2>4
  <1>5. a \in Injection(1..c, W)
    BY <1>2, <1>4 DEF Injection, IsInjective
  <1>6. Cardinality(1..c) = c
    BY <1>1, FS_Interval
  <1>7. a \in Surjection(1..c, W)
    BY <1>1, <1>5, <1>6, FS_Injection DEF c
  <1>8. Members(a) = W
    BY <1>3, <1>7 DEF Surjection, Range, Members
  <1> QED
    BY <1>2, <1>3, <1>8 DEF a, c

-----------------------------------------------------------------------------
(* The containers. *)

\* An entry may stand above another.
Before(a, b) ==
    a.by # "late" /\ b.by # "late" =>
        a.index < b.index \/ (a.by = "listener" /\ b.by = "listener")

Tidy(s) == \A p, q \in DOMAIN s : p < q => Before(s[p], s[q])

\* What pages, searches and scrolls have put into a container.
PagedIn(s) == { s[p].index : p \in { q \in DOMAIN s : s[q].by = "page" } }

LEMMA TidyScreens == ScreenOrdered <=> \A v \in Views : Tidy(screen[v])
  BY DEF ScreenOrdered, Tidy, Before

\* A container that gets entries at the top stays in order if they may stand there.
LEMMA ConcatTidy ==
    ASSUME NEW S, NEW s \in Seq(S), NEW t \in Seq(S), Tidy(s), Tidy(t),
           \A i \in DOMAIN s, j \in DOMAIN t : Before(s[i], t[j])
    PROVE  Tidy(s \o t)
  <1> DEFINE u == s \o t
  <1>1. /\ u \in Seq(S) /\ Len(u) = Len(s) + Len(t)
        /\ Len(s) \in Nat /\ Len(t) \in Nat
        /\ DOMAIN s = 1..Len(s) /\ DOMAIN t = 1..Len(t) /\ DOMAIN u = 1..Len(u)
        /\ \A i \in 1..Len(u) : u[i] = IF i <= Len(s) THEN s[i] ELSE t[i - Len(s)]
    BY ConcatProperties
  <1> HIDE DEF u
  <1>2. ASSUME NEW i \in 1..Len(u), NEW j \in 1..Len(u), i < j PROVE Before(u[i], u[j])
    <2>1. CASE j <= Len(s)
      <3>1. i \in DOMAIN s /\ j \in DOMAIN s /\ u[i] = s[i] /\ u[j] = s[j]
        BY <1>1, <1>2, <2>1
      <3> QED
        BY <1>2, <3>1 DEF Tidy
    <2>2. CASE i <= Len(s) /\ ~ (j <= Len(s))
      <3>1. i \in DOMAIN s /\ j - Len(s) \in DOMAIN t /\ u[i] = s[i] /\ u[j] = t[j - Len(s)]
        BY <1>1, <2>2
      <3> QED
        BY <3>1
    <2>3. CASE ~ (i <= Len(s))
      <3>1. i - Len(s) \in DOMAIN t /\ j - Len(s) \in DOMAIN t /\ i - Len(s) < j - Len(s)
        BY <1>1, <1>2, <2>3
      <3>2. u[i] = t[i - Len(s)] /\ u[j] = t[j - Len(s)]
        BY <1>1, <1>2, <2>3
      <3> QED
        BY <3>1, <3>2 DEF Tidy
    <2> QED
      BY <2>1, <2>2, <2>3, <1>1
  <1>3. Tidy(u)
    BY <1>1, <1>2 DEF Tidy
  <1> QED
    BY <1>3 DEF u

\* The pages in it are those of the two.
LEMMA ConcatPaged ==
    ASSUME NEW S, NEW s \in Seq(S), NEW t \in Seq(S)
    PROVE  PagedIn(s \o t) = PagedIn(s) \cup PagedIn(t)
  <1> DEFINE u == s \o t
  <1>1. /\ u \in Seq(S) /\ Len(u) = Len(s) + Len(t)
        /\ Len(s) \in Nat /\ Len(t) \in Nat
        /\ DOMAIN s = 1..Len(s) /\ DOMAIN t = 1..Len(t) /\ DOMAIN u = 1..Len(u)
        /\ \A i \in 1..Len(u) : u[i] = IF i <= Len(s) THEN s[i] ELSE t[i - Len(s)]
    BY ConcatProperties
  <1> HIDE DEF u
  <1>2. ASSUME NEW i \in DOMAIN u
        PROVE  \/ i \in DOMAIN s /\ u[i] = s[i]
               \/ i - Len(s) \in DOMAIN t /\ u[i] = t[i - Len(s)]
    BY <1>1
  <1>3. ASSUME NEW i \in DOMAIN s PROVE i \in DOMAIN u /\ u[i] = s[i]
    BY <1>1
  <1>4. ASSUME NEW i \in DOMAIN t PROVE i + Len(s) \in DOMAIN u /\ u[i + Len(s)] = t[i]
    BY <1>1
  <1>5. PagedIn(u) \subseteq PagedIn(s) \cup PagedIn(t)
    BY <1>2 DEF PagedIn
  <1>6. PagedIn(s) \subseteq PagedIn(u) /\ PagedIn(t) \subseteq PagedIn(u)
    BY <1>3, <1>4 DEF PagedIn
  <1>7. PagedIn(u) = PagedIn(s) \cup PagedIn(t)
    BY <1>5, <1>6
  <1> QED
    BY <1>7 DEF u

\* The same for one entry at the bottom.
LEMMA AppendEntry ==
    ASSUME NEW s \in Seq(Entries), NEW x \in Entries
    PROVE  /\ Append(s, x) \in Seq(Entries)
           /\ PagedIn(Append(s, x)) =
                 PagedIn(s) \cup (IF x.by = "page" THEN {x.index} ELSE {})
           /\ \A p \in DOMAIN Append(s, x) :
                 Append(s, x)[p] = x \/ \E q \in DOMAIN s : Append(s, x)[p] = s[q]
           /\ Tidy(s) /\ (\A i \in DOMAIN s : Before(s[i], x)) => Tidy(Append(s, x))
  <1> DEFINE u == Append(s, x)
  <1>1. /\ u \in Seq(Entries) /\ Len(s) \in Nat
        /\ DOMAIN s = 1..Len(s) /\ DOMAIN u = 1..(Len(s) + 1)
        /\ \A i \in 1..Len(s) : u[i] = s[i]
        /\ u[Len(s) + 1] = x
    BY AppendProperties
  <1> HIDE DEF u
  <1>2. ASSUME NEW i \in DOMAIN u
        PROVE  (i \in DOMAIN s /\ u[i] = s[i]) \/ (i = Len(s) + 1 /\ u[i] = x)
    BY <1>1
  <1>3. ASSUME NEW i \in DOMAIN s PROVE i \in DOMAIN u /\ u[i] = s[i]
    BY <1>1
  <1>4. Len(s) + 1 \in DOMAIN u
    BY <1>1
  <1>5. PagedIn(u) = PagedIn(s) \cup (IF x.by = "page" THEN {x.index} ELSE {})
    <2>1. PagedIn(u) \subseteq PagedIn(s) \cup (IF x.by = "page" THEN {x.index} ELSE {})
      BY <1>2 DEF PagedIn
    <2>2. PagedIn(s) \subseteq PagedIn(u)
      BY <1>3 DEF PagedIn
    <2>3. x.by = "page" => x.index \in PagedIn(u)
      BY <1>1, <1>4 DEF PagedIn
    <2> QED
      BY <2>1, <2>2, <2>3
  <1>6. ASSUME Tidy(s), \A i \in DOMAIN s : Before(s[i], x) PROVE Tidy(u)
    <2> SUFFICES ASSUME NEW i \in DOMAIN u, NEW j \in DOMAIN u, i < j
                 PROVE  Before(u[i], u[j])
      BY DEF Tidy
    <2>1. i \in DOMAIN s /\ u[i] = s[i]
      BY <1>1
    <2> QED
      BY <1>2, <1>6, <2>1 DEF Tidy
  <1>7. \A p \in DOMAIN u : u[p] = x \/ \E q \in DOMAIN s : u[p] = s[q]
    BY <1>2
  <1> QED
    BY <1>1, <1>5, <1>6, <1>7 DEF u

\* What a search or a scroll adds of W: W, from top to bottom.
LEMMA PageProperties ==
    ASSUME NEW W \in SUBSET LogIndices
    PROVE  /\ Page(W) \in Seq(Entries) /\ Len(Page(W)) = Cardinality(W)
           /\ Cardinality(W) \in Nat /\ IsFiniteSet(W)
           /\ \A k \in DOMAIN Page(W) : Page(W)[k].by = "page" /\ Page(W)[k].index \in W
           /\ Tidy(Page(W)) /\ PagedIn(Page(W)) = W
  <1> DEFINE s == Ascending(W)
             t == Page(W)
  <1>1. W \in SUBSET (0..MaxCount) /\ MaxCount \in Nat
    BY MaxCountAssumption DEF LogIndices
  <1>2. /\ s \in Seq(W) /\ Len(s) = Cardinality(W) /\ Increasing(s) /\ Members(s) = W
        /\ Cardinality(W) \in Nat /\ IsFiniteSet(W)
    BY <1>1, AscendingProperties, IndicesFinite
  <1>3. t = [k \in DOMAIN s |-> [index |-> s[k], by |-> "page"]]
    BY DEF Page
  <1> HIDE DEF s, t
  <1>4. /\ DOMAIN s = 1..Len(s) /\ Len(s) \in Nat /\ DOMAIN t = DOMAIN s
        /\ \A k \in DOMAIN s : s[k] \in W
    BY <1>2, <1>3
  <1>5. \A k \in DOMAIN t : /\ t[k] \in Entries /\ t[k].by = "page" /\ t[k].index = s[k]
                            /\ t[k].index \in W
    BY <1>3, <1>4 DEF Entries
  <1>6. t \in Seq(Entries) /\ Len(t) = Cardinality(W)
    <2>1. t = [k \in 1..Len(s) |-> t[k]]
      BY <1>3, <1>4
    <2>2. t \in [1..Len(s) -> Entries]
      BY <1>4, <1>5, <2>1
    <2> QED
      BY <1>2, <1>4, <2>2
  <1>7. Tidy(t)
    BY <1>2, <1>4, <1>5 DEF Tidy, Before, Increasing
  <1>8. PagedIn(t) = W
    <2>1. PagedIn(t) = Members(s)
      BY <1>4, <1>5 DEF PagedIn, Members
    <2> QED
      BY <1>2, <2>1
  <1> QED
    BY <1>2, <1>5, <1>6, <1>7, <1>8 DEF t

-----------------------------------------------------------------------------
(* The end of a page. *)

\* Going down from s one finds the end of a page, or 0; above it the page was
\* not yet full.
LEMMA DownProperties ==
    ASSUME NEW s \in Nat, NEW W, NEW enough \in Nat \ {0}
    PROVE  /\ Down(s, W, enough) \in 0..s
           /\ \/ Down(s, W, enough) = 0
              \/ Cardinality(W \cap (Down(s, W, enough)..s)) = enough
           /\ \A x \in (Down(s, W, enough) + 1)..s : Cardinality(W \cap (x..s)) < enough
  <1> DEFINE C(x) == Cardinality(W \cap (x..s))
             E == { e \in 0..s : \A x \in (e + 1)..s : C(x) < enough }
  <1>1. \A x \in Nat : C(x) \in Nat /\ IsFiniteSet(W \cap (x..s))
    <2> SUFFICES ASSUME NEW x \in Nat
                 PROVE  C(x) \in Nat /\ IsFiniteSet(W \cap (x..s))
      OBVIOUS
    <2>1. W \cap (x..s) \in SUBSET (0..s)
      OBVIOUS
    <2> QED
      BY <2>1, IndicesFinite
  <1>2. PICK e \in E : \A x \in E : e <= x
    <2>1. E \in SUBSET Nat /\ s \in E
      OBVIOUS
    <2> HIDE DEF E
    <2> QED
      BY <2>1, LeastMember
  <1>3. e \in 0..s /\ \A x \in (e + 1)..s : C(x) < enough
    BY <1>2
  <1>4. C(e) = enough \/ e = 0
    <2> SUFFICES ASSUME e # 0 PROVE C(e) = enough
      OBVIOUS
    <2>1. e - 1 \in 0..s /\ e - 1 \notin E
      <3>1. e - 1 \in 0..s /\ ~ (e <= e - 1)
        BY <1>3
      <3> HIDE DEF E
      <3> QED
        BY <3>1, <1>2
    <2>2. PICK x \in e..s : ~ (C(x) < enough)
      <3> HIDE DEF C
      <3>1. PICK x \in ((e - 1) + 1)..s : ~ (C(x) < enough)
        BY <2>1
      <3> QED
        BY <3>1, <1>3
    <2>3. x = e
      <3> HIDE DEF C
      <3> QED
        BY <1>3, <2>2
    <2>4. C(e + 1) < enough
      <3>1. CASE e = s
        <4>1. W \cap ((e + 1)..s) = {}
          BY <3>1
        <4>2. C(e + 1) = 0
          BY <4>1, FS_EmptySet
        <4> HIDE DEF C
        <4> QED
          BY <4>2
      <3>2. CASE e # s
        <4>1. e + 1 \in (e + 1)..s
          BY <3>2, <1>3
        <4> HIDE DEF C
        <4> QED
          BY <4>1, <1>3
      <3> QED
        BY <3>1, <3>2
    <2>5. C(e) <= C(e + 1) + 1
      <3> DEFINE V == W \cap ((e + 1)..s)
      <3>1. IsFiniteSet(V) /\ Cardinality(V) \in Nat
        <4>1. e + 1 \in Nat
          BY <1>3
        <4> QED
          BY <4>1, <1>1
      <3>2. W \cap (e..s) \in SUBSET (V \cup {e})
        BY <1>3
      <3>3. IsFiniteSet(V \cup {e}) /\ Cardinality(V \cup {e}) \in Nat
            /\ Cardinality(V \cup {e}) <= Cardinality(V) + 1
        <4> HIDE DEF V
        <4> QED
          BY <3>1, FS_AddElement
      <3>4. C(e) <= Cardinality(V \cup {e})
        BY <3>2, <3>3, FS_Subset
      <3>5. C(e) \in Nat
        BY <1>1, <1>3
      <3> HIDE DEF C
      <3> QED
        BY <3>1, <3>3, <3>4, <3>5 DEF C
    <2>6. e \in Nat /\ e + 1 \in Nat
      BY <1>3
    <2>7. C(e) \in Nat /\ C(e + 1) \in Nat /\ ~ (C(e) < enough)
      BY <1>1, <2>2, <2>3, <2>6
    <2> HIDE DEF C
    <2> QED
      BY <2>4, <2>5, <2>7
  <1>5. /\ Down(s, W, enough) \in 0..s
        /\ C(Down(s, W, enough)) = enough \/ Down(s, W, enough) = 0
        /\ \A x \in (Down(s, W, enough) + 1)..s : C(x) < enough
    <2>1. \E d \in 0..s : (C(d) = enough \/ d = 0) /\ \A x \in (d + 1)..s : C(x) < enough
      <3> HIDE DEF C
      <3> QED
        BY <1>3, <1>4
    <2>2. Down(s, W, enough) =
            CHOOSE d \in 0..s : (C(d) = enough \/ d = 0) /\ \A x \in (d + 1)..s : C(x) < enough
      BY DEF Down
    <2> HIDE DEF C
    <2> QED
      BY <2>1, <2>2
  <1> QED
    BY <1>5

\* When all of 0..s counts and a page is shorter, the page ends a page below s.
LEMMA DownAll ==
    ASSUME NEW s \in Nat, NEW W, NEW enough \in Nat \ {0}, 0..s \subseteq W, enough < s
    PROVE  Down(s, W, enough) = s + 1 - enough
  <1> DEFINE d == Down(s, W, enough)
  <1>1. /\ d \in 0..s
        /\ d = 0 \/ Cardinality(W \cap (d..s)) = enough
        /\ \A x \in (d + 1)..s : Cardinality(W \cap (x..s)) < enough
    BY DownProperties
  <1> HIDE DEF d
  <1>2. ASSUME NEW x \in 0..s PROVE Cardinality(W \cap (x..s)) = s - x + 1
    <2>1. W \cap (x..s) = x..s
      OBVIOUS
    <2>2. x \in Int /\ s \in Int /\ ~ (x > s)
      OBVIOUS
    <2>3. Cardinality(x..s) = s - x + 1
      BY <2>2, FS_Interval
    <2> QED
      BY <2>1, <2>3
  <1>3. d # 0
    <2> SUFFICES ASSUME d = 0 PROVE FALSE
      OBVIOUS
    <2>1. 1 \in (d + 1)..s /\ 1 \in 0..s
      OBVIOUS
    <2>2. Cardinality(W \cap (1..s)) < enough /\ Cardinality(W \cap (1..s)) = s - 1 + 1
      BY <1>1, <1>2, <2>1
    <2> QED
      BY <2>2
  <1>4. Cardinality(W \cap (d..s)) = enough /\ Cardinality(W \cap (d..s)) = s - d + 1
    BY <1>1, <1>2, <1>3
  <1> QED
    BY <1>1, <1>4 DEF d

-----------------------------------------------------------------------------
(* The inductive invariant. *)

\* The loader runs in the chat only, and its page ends with the log it found.
LoaderInv ==
    /\ loader.pc # "idle" => view = "chat"
    /\ loader.pc \in {"page", "listen"} =>
          loader.index <= loader.counter /\ loader.counter <= count
    /\ loader.pc = "listen" => loader.index = loader.counter

\* What a listener stores was not in the log when it looked; one of the session
\* that is open looked when the page had been counted.
HandInv ==
    \A l \in Listeners :
        /\ hand[l].pc # "idle" => hand[l].index <= count
        /\ hand[l].pc = "stored" => hand[l].index < count
        /\ hand[l].pc # "idle" /\ ~ hand[l].left =>
              loader.pc = "listen" /\ loader.counter <= hand[l].index

\* So what the listeners of the session have shown follows the page.
LiveInv ==
    \A v \in Views : \A p \in DOMAIN screen[v] :
        screen[v][p].by = "listener" =>
            v = "chat" /\ loader.pc = "listen" /\ loader.counter <= screen[v][p].index

\* Nothing is on a screen before the log, or the loader, has come to it.
BottomInv ==
    /\ \A v \in Views : /\ \A i \in OnScreen(v) : i < count
                        /\ start[v] > 0 => start[v] < count
    /\ Shown("chat") =>
          /\ \A i \in OnScreen("chat") : i < loader.index
          /\ start["chat"] > 0 => start["chat"] < loader.index

\* The index to go on at separates what is on the screen from what is not: all
\* that is due above it is there, and what lies below has not been read, or all
\* of it has.
StartInv ==
    \A v \in Views : Shown(v) =>
        /\ \A i \in Due(v) : start[v] < i \/ i \in seen[v] => i \in OnScreen(v)
        /\ start[v] > 0 => \A i \in OnScreen(v) : i <= start[v] => i \in seen[v]
        /\ \/ \A i \in seen[v] : i > start[v]
           \/ start[v] <= PageSize /\ 0..start[v] \subseteq seen[v]

\* Only the first message can be hidden behind the index 0, and in a search it is
\* so only behind full pages.
FirstInv ==
    /\ Shown("chat") /\ start["chat"] = 0 /\ 0 \in Missing("chat") =>
          loader.counter = PageSize + 1
    /\ Shown("search") /\ 0 \in Missing("search") =>
          Len(screen["search"]) > 0 /\ Len(screen["search"]) % PageSize = 0

\* A view that is not shown is empty, but for what listeners show late.
HiddenInv ==
    \A v \in Views : ~ Shown(v) => OnScreen(v) = {} /\ start[v] = 0 /\ seen[v] = {}

PageInv == /\ LoaderInv /\ HandInv /\ LiveInv /\ BottomInv /\ StartInv /\ FirstInv /\ HiddenInv
           /\ ScreenOrdered

-----------------------------------------------------------------------------
(* What a scroll does. *)

USE DEF Views

\* Without messages there is nothing to put in order.
LEMMA PageEmpty == Page({}) = <<>>
  <1>1. {} \in SUBSET LogIndices
    OBVIOUS
  <1>2. Page({}) \in Seq(Entries) /\ Len(Page({})) = 0
    BY <1>1, PageProperties, FS_EmptySet
  <1> QED
    BY <1>2

\* A scroll reads from the index to go on at down to the end of a page, or to 0.
LEMMA UnreadProperties ==
    ASSUME PageTypeOK, NEW v \in Views, start[v] > 0
    PROVE  \E e \in 0..start[v] :
             /\ Unread(v) = e..start[v]
             /\ (CHOOSE x \in Unread(v) : x - 1 \notin Unread(v)) = e
             /\ start[v] <= PageSize => e = 0
             /\ start[v] > PageSize =>
                  /\ \/ e = 0
                     \/ Cardinality((Wanted(v) \cup seen[v]) \cap (e..start[v])) = PageSize
                  /\ 0..start[v] \subseteq Wanted(v) => e = start[v] + 1 - PageSize
  <1> DEFINE s == start[v]
             W == Wanted(v) \cup seen[v]
             e == IF s <= PageSize THEN 0 ELSE Down(s, W, PageSize)
  <1>1. s \in Nat /\ s # 0 /\ PageSize \in Nat \ {0}
    BY PageSizeAssumption DEF PageTypeOK, LogIndices
  <1>2. Unread(v) = e..s
    BY <1>1 DEF Unread
  <1>3. /\ e \in 0..s
        /\ s > PageSize => /\ e = 0 \/ Cardinality(W \cap (e..s)) = PageSize
                           /\ 0..s \subseteq Wanted(v) => e = s + 1 - PageSize
    <2> HIDE DEF W, s
    <2>1. CASE s <= PageSize
      BY <1>1, <2>1
    <2>2. CASE ~ (s <= PageSize)
      <3>1. e = Down(s, W, PageSize) /\ PageSize < s
        BY <1>1, <2>2
      <3>2. e \in 0..s /\ (e = 0 \/ Cardinality(W \cap (e..s)) = PageSize)
        BY <1>1, <3>1, DownProperties
      <3>3. ASSUME 0..s \subseteq Wanted(v) PROVE e = s + 1 - PageSize
        <4>1. 0..s \subseteq W
          BY <3>3 DEF W
        <4> QED
          BY <4>1, <1>1, <3>1, DownAll
      <3> QED
        BY <3>2, <3>3
    <2> QED
      BY <2>1, <2>2
  <1>4. s <= PageSize => e = 0
    OBVIOUS
  <1> HIDE DEF e, W
  <1>5. (CHOOSE x \in Unread(v) : x - 1 \notin Unread(v)) = e
    <2>1. e \in e..s /\ e - 1 \notin e..s
      BY <1>1, <1>3
    <2>2. \A x \in e..s : x - 1 \notin e..s => x = e
      BY <1>1, <1>3
    <2>3. \E x \in e..s : x - 1 \notin e..s
      BY <2>1
    <2> QED
      BY <1>2, <2>2, <2>3
  <1> QED
    BY <1>2, <1>3, <1>4, <1>5 DEF W

\* What a scroll that reads down to e adds.
Added(v, e) == { i \in Wanted(v) \ seen[v] : e <= i /\ i <= start[v] }

\* The screen and the index after a scroll that reads down to e.
ScrolledTo(v, e) ==
    /\ screen' = [screen EXCEPT ![v] = Page(Added(v, e)) \o @]
    /\ seen' = [seen EXCEPT ![v] = @ \cup (e..start[v])]
    /\ start' = [start EXCEPT ![v] =
                   IF start[v] <= PageSize THEN start[v] ELSE IF e = 0 THEN 0 ELSE e - 1]
    /\ start[v] <= PageSize => e = 0
    /\ start[v] > PageSize =>
         /\ \/ e = 0
            \/ Cardinality((Wanted(v) \cup seen[v]) \cap (e..start[v])) = PageSize
         /\ 0..start[v] \subseteq Wanted(v) => e = start[v] + 1 - PageSize

\* A scroll with the index 0 does nothing.
LEMMA ScrollNothing ==
    ASSUME PageTypeOK, NEW v \in Views, Scroll(v), start[v] = 0
    PROVE  UNCHANGED pageVars
  <1>1. Unread(v) = {}
    BY DEF Unread
  <1>2. screen[v] \in Seq(Entries) /\ PageSize \in Nat
    BY PageSizeAssumption DEF PageTypeOK
  <1>3. (Unread(v) \cap Wanted(v)) \ seen[v] = {}
    BY <1>1
  <1>4. Page((Unread(v) \cap Wanted(v)) \ seen[v]) \o screen[v] = screen[v]
    BY <1>2, <1>3, PageEmpty, ConcatEmptySeq
  <1>5. screen' = [screen EXCEPT ![v] = Page((Unread(v) \cap Wanted(v)) \ seen[v]) \o @]
    BY DEF Scroll
  <1>6. screen' = screen
    BY <1>4, <1>5 DEF PageTypeOK
  <1>7. seen' = seen
    BY <1>1 DEF Scroll, PageTypeOK
  <1>8. start' = start
    BY <1>2 DEF Scroll, PageTypeOK
  <1> QED
    BY <1>6, <1>7, <1>8 DEF Scroll, pageVars

\* Any other adds what is wanted of the indices it reads, and goes on below them.
LEMMA ScrollProperties ==
    ASSUME PageTypeOK, NEW v \in Views, Scroll(v), start[v] > 0
    PROVE  \E e \in 0..start[v] : ScrolledTo(v, e)
  <1>1. PICK e \in 0..start[v] :
             /\ Unread(v) = e..start[v]
             /\ (CHOOSE x \in Unread(v) : x - 1 \notin Unread(v)) = e
             /\ start[v] <= PageSize => e = 0
             /\ start[v] > PageSize =>
                  /\ \/ e = 0
                     \/ Cardinality((Wanted(v) \cup seen[v]) \cap (e..start[v])) = PageSize
                  /\ 0..start[v] \subseteq Wanted(v) => e = start[v] + 1 - PageSize
    BY UnreadProperties
  <1>2. Wanted(v) \in SUBSET LogIndices /\ start[v] \in Nat
    BY DEF PageTypeOK, Wanted, LogIndices
  <1>3. (Unread(v) \cap Wanted(v)) \ seen[v] = Added(v, e)
    BY <1>1, <1>2 DEF Added, LogIndices
  <1>4. screen' = [screen EXCEPT ![v] = Page(Added(v, e)) \o @]
    BY <1>3 DEF Scroll
  <1>5. seen' = [seen EXCEPT ![v] = @ \cup (e..start[v])]
    BY <1>1 DEF Scroll
  <1>6. start' = [start EXCEPT ![v] =
                  IF start[v] <= PageSize THEN start[v] ELSE IF e = 0 THEN 0 ELSE e - 1]
    <2> DEFINE least == CHOOSE x \in Unread(v) : x - 1 \notin Unread(v)
    <2>1. start' = [start EXCEPT ![v] =
                     IF @ <= PageSize THEN @ ELSE IF least = 0 THEN 0 ELSE least - 1]
      BY DEF Scroll
    <2>2. least = e
      BY <1>1
    <2> HIDE DEF least
    <2> QED
      BY <2>1, <2>2
  <1> QED
    BY <1>1, <1>4, <1>5, <1>6 DEF ScrolledTo

\* The added messages are indices of the log, in order.
LEMMA AddedProperties ==
    ASSUME PageTypeOK, NEW v \in Views, NEW e \in Nat
    PROVE  Added(v, e) \in SUBSET LogIndices
  BY DEF Added, Wanted, PageTypeOK

-----------------------------------------------------------------------------
(* Types. *)

\* What a search puts on the screen.
LEMMA SearchProperties ==
    ASSUME PageTypeOK, NEW found \in SUBSET (0..(count - 1)), Search(found)
    PROVE  \E least \in 0..count, new \in SUBSET found :
             /\ screen' = [u \in Views |-> IF u = "search" THEN Page(new) ELSE <<>>]
             /\ start' = [u \in Views |->
                            IF u = "search" /\ count > 0 /\ least > 0 THEN least - 1 ELSE 0]
             /\ seen' = [u \in Views |-> {}]
             /\ new = { i \in found : least <= i }
             /\ count > 0 => least < count /\ (least = 0 \/ Cardinality(new) = PageSize)
  <1> DEFINE d == Down(count - 1, found, PageSize)
             least == IF count = 0 THEN 0 ELSE d
             new == { i \in found : least <= i }
             read == IF count = 0 THEN {} ELSE d..(count - 1)
  <1>1. count \in Nat /\ PageSize \in Nat \ {0}
    BY PageSizeAssumption DEF PageTypeOK
  <1>2. ASSUME count > 0
        PROVE  /\ d \in 0..(count - 1)
               /\ d = 0 \/ Cardinality(found \cap (d..(count - 1))) = PageSize
    <2>1. count - 1 \in Nat
      BY <1>1, <1>2
    <2> QED
      BY <2>1, <1>1, DownProperties
  <1> HIDE DEF d
  <1>3. least \in 0..count /\ (count > 0 => least < count)
    BY <1>1, <1>2
  <1>4. found \cap read = new
    <2>1. CASE count = 0
      <3>1. found = {}
        BY <2>1
      <3> QED
        BY <3>1
    <2>2. CASE count # 0
      <3>1. read = d..(count - 1) /\ least = d /\ d \in Nat
        BY <2>2, <1>1, <1>2
      <3>2. \A x \in found : x \in Nat /\ x <= count - 1
        BY <1>1
      <3>3. \A x \in found : x \in d..(count - 1) <=> d <= x
        BY <3>1, <3>2, <1>1
      <3> QED
        BY <3>1, <3>3
    <2> QED
      BY <2>1, <2>2
  <1>5. count > 0 /\ least # 0 => Cardinality(new) = PageSize
    BY <1>1, <1>2, <1>4
  <1>6. /\ screen' = [u \in Views |-> IF u = "search" THEN Page(found \cap read) ELSE <<>>]
        /\ start' = [u \in Views |-> IF u = "search" /\ count > 0 /\ d > 0 THEN d - 1 ELSE 0]
        /\ seen' = [u \in Views |-> {}]
    BY DEF Search, d
  <1>7. count > 0 => d = least
    BY <1>1
  <1> HIDE DEF read, least, new
  <1>8. screen' = [u \in Views |-> IF u = "search" THEN Page(new) ELSE <<>>]
    BY <1>4, <1>6
  <1>9. start' = [u \in Views |-> IF u = "search" /\ count > 0 /\ least > 0 THEN least - 1 ELSE 0]
    BY <1>6, <1>7
  <1>10. new \in SUBSET found /\ new = { i \in found : least <= i }
    BY DEF new
  <1> QED
    BY <1>3, <1>5, <1>6, <1>8, <1>9, <1>10

\* What it finds is in the log.
LEMMA FoundProperties ==
    ASSUME PageTypeOK, NEW found \in SUBSET (0..(count - 1)), NEW new \in SUBSET found
    PROVE  new \in SUBSET LogIndices
  BY MaxCountAssumption DEF PageTypeOK, LogIndices

LEMMA FreeHand == Free \in Hands
  BY MaxCountAssumption DEF Free, Hands

LEMMA PageTypeInit == PageInit => PageTypeOK
  <1> SUFFICES ASSUME PageInit PROVE PageTypeOK
    OBVIOUS
  <1>1. <<>> \in Seq(Entries)
    OBVIOUS
  <1>2. screen \in [Views -> Seq(Entries)]
    BY <1>1 DEF PageInit
  <1>3. hand \in [Listeners -> Hands]
    BY FreeHand DEF PageInit
  <1> QED
    BY <1>2, <1>3, MaxCountAssumption DEF PageInit, PageTypeOK, Idle

LEMMA SwitchType ==
    ASSUME PageTypeOK, NEW v \in Views \cup {"input", "other"}, SwitchTo(v),
           loader' \in {Idle, [Idle EXCEPT !.pc = "count"]}, UNCHANGED <<count, filter>>
    PROVE  PageTypeOK'
  <1>1. loader' \in [pc : {"idle", "count", "page", "listen"},
                     counter : 0..MaxCount, index : 0..MaxCount]
    BY MaxCountAssumption DEF Idle
  <1>2. <<>> \in Seq(Entries)
    OBVIOUS
  <1>3. screen' \in [Views -> Seq(Entries)]
    BY <1>2 DEF SwitchTo
  <1>4. ASSUME NEW l \in Listeners PROVE [hand[l] EXCEPT !.left = TRUE] \in Hands
    <2>1. hand[l] \in Hands
      BY DEF PageTypeOK
    <2>2. CASE hand[l] \in [pc : {"idle", "got"}, index : 0..MaxCount, left : BOOLEAN]
      BY <2>2 DEF Hands
    <2>3. CASE hand[l] \in [pc : {"stored"}, index : LogIndices, left : BOOLEAN]
      BY <2>3 DEF Hands
    <2> QED
      BY <2>1, <2>2, <2>3 DEF Hands
  <1>5. hand' \in [Listeners -> Hands]
    BY <1>4, FreeHand DEF SwitchTo
  <1> QED
    BY <1>1, <1>3, <1>5 DEF SwitchTo, PageTypeOK

LEMMA LoadCountType == ASSUME PageTypeOK, LoadCount PROVE PageTypeOK'
  <1> DEFINE first == IF count > PageSize THEN count - PageSize ELSE 0
             goOn == IF first = 0 THEN 0 ELSE first - 1
  <1>1. count \in 0..MaxCount /\ PageSize \in Nat \ {0} /\ MaxCount \in Nat
    BY PageSizeAssumption, MaxCountAssumption DEF PageTypeOK
  <1>2. first \in 0..MaxCount /\ goOn \in LogIndices \cup {0}
    BY <1>1 DEF LogIndices
  <1>3. /\ loader' = [pc |-> "page", counter |-> count, index |-> first]
        /\ start' = [start EXCEPT !["chat"] = goOn]
        /\ UNCHANGED <<count, view, filter, hand, screen, seen>>
    BY DEF LoadCount
  <1> HIDE DEF first, goOn
  <1>4. loader' \in [pc : {"idle", "count", "page", "listen"},
                     counter : 0..MaxCount, index : 0..MaxCount]
    BY <1>1, <1>2, <1>3
  <1>5. start' \in [Views -> LogIndices \cup {0}]
    BY <1>2, <1>3 DEF PageTypeOK
  <1> QED
    BY <1>3, <1>4, <1>5 DEF PageTypeOK

LEMMA LoadMessageType == ASSUME PageTypeOK, LoadMessage PROVE PageTypeOK'
  <1>1. /\ loader.index \in 0..MaxCount /\ loader.counter \in 0..MaxCount
        /\ MaxCount \in Nat /\ screen["chat"] \in Seq(Entries)
    BY MaxCountAssumption DEF PageTypeOK
  <1>2. CASE loader.index < loader.counter
    <2>1. /\ loader' = [loader EXCEPT !.index = @ + 1]
          /\ screen' = [screen EXCEPT !["chat"] =
                          Append(@, [index |-> loader.index, by |-> "page"])]
          /\ UNCHANGED <<count, view, filter, hand, start, seen>>
      BY <1>2 DEF LoadMessage
    <2>2. loader.index \in LogIndices /\ loader.index + 1 \in 0..MaxCount
      BY <1>1, <1>2 DEF LogIndices
    <2>3. [index |-> loader.index, by |-> "page"] \in Entries
      BY <2>2 DEF Entries
    <2>4. screen' \in [Views -> Seq(Entries)]
      BY <2>1, <2>3, <1>1, AppendProperties DEF PageTypeOK
    <2>5. loader' \in [pc : {"idle", "count", "page", "listen"},
                       counter : 0..MaxCount, index : 0..MaxCount]
      BY <2>1, <2>2 DEF PageTypeOK
    <2> QED
      BY <2>1, <2>4, <2>5 DEF PageTypeOK
  <1>3. CASE ~ (loader.index < loader.counter)
    <2>1. /\ loader' = [loader EXCEPT !.pc = "listen"]
          /\ UNCHANGED <<count, view, filter, hand, screen, start, seen>>
      BY <1>3 DEF LoadMessage
    <2>2. loader' \in [pc : {"idle", "count", "page", "listen"},
                       counter : 0..MaxCount, index : 0..MaxCount]
      BY <2>1 DEF PageTypeOK
    <2> QED
      BY <2>1, <2>2 DEF PageTypeOK
  <1> QED
    BY <1>2, <1>3

\* A listener with a message it has stored can be shown.
LEMMA ShownEntry ==
    ASSUME PageTypeOK, NEW l \in Listeners, hand[l].pc = "stored"
    PROVE  [index |-> hand[l].index, by |-> IF hand[l].left THEN "late" ELSE "listener"]
              \in Entries
  <1>1. hand[l] \in Hands /\ hand[l].index \in LogIndices
    BY DEF PageTypeOK, Hands
  <1> QED
    BY <1>1 DEF Entries

LEMMA ListenersType ==
    ASSUME PageTypeOK, NEW l \in Listeners,
           Take(l) \/ Keep(l) \/ GiveUp(l) \/ Show(l)
    PROVE  PageTypeOK'
  <1>1. /\ count \in 0..MaxCount /\ MaxCount \in Nat
        /\ hand \in [Listeners -> Hands] /\ hand[l] \in Hands
    BY MaxCountAssumption DEF PageTypeOK
  <1>2. CASE Take(l)
    <2>1. [pc |-> "got", index |-> count, left |-> FALSE] \in Hands
      BY <1>1 DEF Hands
    <2>2. hand' \in [Listeners -> Hands]
      BY <1>1, <1>2, <2>1 DEF Take
    <2> QED
      BY <1>2, <2>2 DEF Take, PageTypeOK
  <1>3. CASE Keep(l)
    <2>1. PICK i \in LogIndices :
             /\ (i = count /\ count < MaxCount /\ count' = count + 1) \/ count' = count
             /\ hand' = [hand EXCEPT ![l].pc = "stored", ![l].index = i]
      <3>1. hand[l].index \in Nat
        BY <1>1 DEF Hands, LogIndices
      <3>2. \A i \in hand[l].index..(count - 1) : i \in LogIndices
        BY <1>1, <3>1 DEF LogIndices
      <3>3. count < MaxCount => count \in LogIndices
        BY <1>1 DEF LogIndices
      <3> QED
        BY <1>1, <1>3, <3>2, <3>3 DEF Keep
    <2>2. [hand[l] EXCEPT !.pc = "stored", !.index = i] \in Hands
      BY <1>1 DEF Hands
    <2>3. hand' = [hand EXCEPT ![l] = [hand[l] EXCEPT !.pc = "stored", !.index = i]]
      BY <1>1, <2>1
    <2>4. hand' \in [Listeners -> Hands]
      BY <1>1, <2>2, <2>3
    <2>5. count' \in 0..MaxCount
      BY <1>1, <2>1
    <2> QED
      BY <1>3, <2>4, <2>5 DEF Keep, PageTypeOK
  <1>4. CASE GiveUp(l)
    <2>1. hand' \in [Listeners -> Hands]
      BY <1>1, <1>4, FreeHand DEF GiveUp
    <2> QED
      BY <1>4, <2>1 DEF GiveUp, PageTypeOK
  <1>5. CASE Show(l)
    <2>1. hand' \in [Listeners -> Hands]
      BY <1>1, <1>5, FreeHand DEF Show
    <2>2. screen["chat"] \in Seq(Entries)
      BY DEF PageTypeOK
    <2>3. screen' \in [Views -> Seq(Entries)]
      BY <1>5, <2>2, ShownEntry, AppendProperties DEF Show, PageTypeOK
    <2> QED
      BY <1>5, <2>1, <2>3 DEF Show, PageTypeOK
  <1> QED
    BY <1>2, <1>3, <1>4, <1>5

LEMMA SearchType ==
    ASSUME PageTypeOK, NEW found \in SUBSET (0..(count - 1)), Search(found)
    PROVE  PageTypeOK'
  <1>1. PICK least \in 0..count, new \in SUBSET found :
             /\ screen' = [u \in Views |-> IF u = "search" THEN Page(new) ELSE <<>>]
             /\ start' = [u \in Views |->
                            IF u = "search" /\ count > 0 /\ least > 0 THEN least - 1 ELSE 0]
             /\ seen' = [u \in Views |-> {}]
    BY SearchProperties
  <1>2. Page(new) \in Seq(Entries)
    BY FoundProperties, PageProperties
  <1>3. screen' \in [Views -> Seq(Entries)]
    <2>1. <<>> \in Seq(Entries)
      OBVIOUS
    <2> QED
      BY <1>1, <1>2, <2>1
  <1>4. least > 0 => least - 1 \in LogIndices
    BY MaxCountAssumption DEF PageTypeOK, LogIndices
  <1>5. start' \in [Views -> LogIndices \cup {0}]
    BY <1>1, <1>4
  <1>6. found \subseteq LogIndices
    BY MaxCountAssumption DEF PageTypeOK, LogIndices
  <1>7. view' = "search" /\ filter' = found /\ UNCHANGED <<count, loader, hand>>
    BY DEF Search
  <1> QED
    BY <1>1, <1>3, <1>5, <1>6, <1>7 DEF PageTypeOK

LEMMA ScrollType == ASSUME PageTypeOK, NEW v \in Views, Scroll(v) PROVE PageTypeOK'
  <1>1. CASE start[v] = 0
    <2>1. UNCHANGED pageVars
      BY <1>1, ScrollNothing
    <2> QED
      BY <2>1 DEF pageVars, PageTypeOK
  <1>2. CASE start[v] # 0
    <2>1. start[v] \in LogIndices /\ start[v] \in Nat /\ start[v] > 0
      BY <1>2 DEF PageTypeOK, LogIndices
    <2>2. PICK e \in 0..start[v] :
             /\ screen' = [screen EXCEPT ![v] = Page(Added(v, e)) \o @]
             /\ seen' = [seen EXCEPT ![v] = @ \cup (e..start[v])]
             /\ start' = [start EXCEPT ![v] =
                  IF start[v] <= PageSize THEN start[v] ELSE IF e = 0 THEN 0 ELSE e - 1]
      BY <2>1, ScrollProperties DEF ScrolledTo
    <2>3. Page(Added(v, e)) \in Seq(Entries) /\ screen[v] \in Seq(Entries)
      <3>1. e \in Nat
        BY <2>1
      <3> QED
        BY <3>1, AddedProperties, PageProperties DEF PageTypeOK
    <2>4. Page(Added(v, e)) \o screen[v] \in Seq(Entries)
      BY <2>3, ConcatProperties
    <2>5. screen' \in [Views -> Seq(Entries)]
      BY <2>2, <2>4 DEF PageTypeOK
    <2>6. e..start[v] \subseteq LogIndices
      BY <2>1, MaxCountAssumption DEF LogIndices
    <2>7. seen' \in [Views -> SUBSET LogIndices]
      BY <2>2, <2>6 DEF PageTypeOK
    <2>8. (IF start[v] <= PageSize THEN start[v] ELSE IF e = 0 THEN 0 ELSE e - 1)
             \in LogIndices \cup {0}
      BY <2>1, MaxCountAssumption DEF LogIndices
    <2>9. start' \in [Views -> LogIndices \cup {0}]
      BY <2>2, <2>8 DEF PageTypeOK
    <2> QED
      BY <2>5, <2>7, <2>9 DEF Scroll, PageTypeOK
  <1> QED
    BY <1>1, <1>2

LEMMA PageTypeStep == PageTypeOK /\ [PageNext]_pageVars => PageTypeOK'
  <1> SUFFICES ASSUME PageTypeOK, [PageNext]_pageVars PROVE PageTypeOK'
    OBVIOUS
  <1>1. CASE OpenChat
    BY <1>1, SwitchType DEF OpenChat
  <1>2. CASE OpenSearch
    BY <1>2, SwitchType DEF OpenSearch
  <1>3. CASE Leave
    BY <1>3, SwitchType DEF Leave
  <1>4. CASE LoadCount
    BY <1>4, LoadCountType
  <1>5. CASE LoadMessage
    BY <1>5, LoadMessageType
  <1>6. CASE \E l \in Listeners : Take(l) \/ Keep(l) \/ GiveUp(l) \/ Show(l)
    BY <1>6, ListenersType
  <1>7. CASE \E found \in SUBSET (0..(count - 1)) : Search(found)
    BY <1>7, SearchType
  <1>8. CASE \E v \in Views : Scroll(v)
    BY <1>8, ScrollType
  <1>9. CASE UNCHANGED pageVars
    BY <1>9 DEF pageVars, PageTypeOK
  <1> QED
    BY <1>1, <1>2, <1>3, <1>4, <1>5, <1>6, <1>7, <1>8, <1>9 DEF PageNext

\* The variables of a chat's pages keep their types: what is shown, and the
\* index to go on at, is always an index of the log, for every size of a page and
\* any number of listeners.
THEOREM PageTypeCorrect == PageSpec => []PageTypeOK
  <1>1. PageInit => PageTypeOK
    BY PageTypeInit
  <1>2. PageTypeOK /\ [PageNext]_pageVars => PageTypeOK'
    BY PageTypeStep
  <1> QED
    BY <1>1, <1>2, PTL DEF PageSpec

-----------------------------------------------------------------------------
(* The invariant holds initially, and each action preserves it. *)

\* A length that is a multiple of a page stays one when a page is added.
LEMMA MultipleOfPage ==
    ASSUME NEW P \in Nat \ {0}, NEW n \in Nat, NEW k \in Int, n = P * k
    PROVE  n % P = 0
  OBVIOUS

LEMMA OneMorePage ==
    ASSUME NEW P \in Nat \ {0}, NEW n \in Nat, n % P = 0
    PROVE  (n + P) % P = 0
  <1>1. n = P * (n \div P) + (n % P) /\ n \div P \in Int
    OBVIOUS
  <1>2. n + P = P * ((n \div P) + 1) /\ (n \div P) + 1 \in Int /\ n + P \in Nat
    BY <1>1
  <1> QED
    BY <1>2, MultipleOfPage

\* What is on a screen is an index.
LEMMA OnScreenIndices ==
    ASSUME PageTypeOK, NEW v \in Views
    PROVE  OnScreen(v) \in SUBSET LogIndices /\ \A i \in OnScreen(v) : i \in Nat
  <1>1. screen[v] \in Seq(Entries)
    BY DEF PageTypeOK
  <1>2. \A p \in DOMAIN screen[v] : screen[v][p] \in Entries
    BY <1>1
  <1>3. \A p \in DOMAIN screen[v] : screen[v][p].index \in LogIndices
    BY <1>2 DEF Entries
  <1> QED
    BY <1>3 DEF OnScreen, LogIndices

\* With all containers empty and none shown there is nothing to say.
LEMMA NothingShown ==
    ASSUME LoaderInv, HandInv,
           \A v \in Views : screen[v] = <<>> /\ start[v] = 0 /\ seen[v] = {} /\ ~ Shown(v)
    PROVE  PageInv
  <1>1. \A v \in Views : OnScreen(v) = {}
    BY DEF OnScreen
  <1>2. ScreenOrdered
    BY DEF ScreenOrdered
  <1>3. BottomInv /\ LiveInv
    BY <1>1 DEF BottomInv, LiveInv
  <1>4. StartInv /\ FirstInv /\ HiddenInv
    BY <1>1 DEF StartInv, FirstInv, HiddenInv
  <1> QED
    BY <1>2, <1>3, <1>4 DEF PageInv

LEMMA PageInvInit == PageInit => PageInv
  <1> SUFFICES ASSUME PageInit PROVE PageInv
    OBVIOUS
  <1>1. LoaderInv /\ HandInv
    BY DEF PageInit, LoaderInv, HandInv, Idle, Free
  <1>2. ASSUME NEW v \in Views
        PROVE  screen[v] = <<>> /\ start[v] = 0 /\ seen[v] = {} /\ ~ Shown(v)
    BY DEF PageInit, Shown
  <1> QED
    BY <1>1, <1>2, NothingShown

LEMMA SwitchKeepsInv ==
    ASSUME PageTypeOK, PageInv, OpenChat \/ OpenSearch \/ Leave
    PROVE  PageInv'
  <1>1. /\ screen' = [u \in Views |-> <<>>] /\ start' = [u \in Views |-> 0]
        /\ seen' = [u \in Views |-> {}] /\ count' = count
        /\ hand' = [l \in Listeners |->
                      IF hand[l].pc = "idle" THEN Free ELSE [hand[l] EXCEPT !.left = TRUE]]
    BY DEF OpenChat, OpenSearch, Leave, SwitchTo
  <1>2. /\ view' # "search" /\ loader'.pc \in {"idle", "count"}
        /\ loader'.pc = "count" => view' = "chat"
    <2>1. CASE OpenChat
      BY <2>1 DEF OpenChat, SwitchTo, Idle
    <2>2. CASE OpenSearch
      BY <2>2 DEF OpenSearch, SwitchTo, Idle
    <2>3. CASE Leave
      BY <2>3 DEF Leave, SwitchTo, Idle
    <2> QED
      BY <2>1, <2>2, <2>3
  <1>3. LoaderInv'
    BY <1>2 DEF LoaderInv
  <1>4. \A v \in Views : screen'[v] = <<>> /\ start'[v] = 0 /\ seen'[v] = {} /\ ~ Shown(v)'
    BY <1>1, <1>2 DEF Shown
  <1>5. \A v \in Views : OnScreen(v)' = {}
    BY <1>4 DEF OnScreen
  <1>6. ScreenOrdered' /\ LiveInv'
    BY <1>4 DEF ScreenOrdered, LiveInv
  <1>7. BottomInv'
    BY <1>2, <1>4, <1>5 DEF BottomInv
  <1>8. StartInv' /\ FirstInv' /\ HiddenInv'
    BY <1>4, <1>5 DEF StartInv, FirstInv, HiddenInv
  <1>9. HandInv'
    <2> SUFFICES ASSUME NEW l \in Listeners, hand'[l].pc # "idle"
                 PROVE  /\ hand'[l].index <= count /\ hand'[l].left
                        /\ hand'[l].pc = "stored" => hand'[l].index < count
      BY <1>1 DEF HandInv
    <2>1. hand[l] \in Hands
      BY DEF PageTypeOK
    <2>2. hand[l].pc # "idle" /\ hand'[l] = [hand[l] EXCEPT !.left = TRUE]
      BY <1>1 DEF Free
    <2>3. hand'[l].pc = hand[l].pc /\ hand'[l].index = hand[l].index /\ hand'[l].left
      BY <2>1, <2>2 DEF Hands
    <2> QED
      BY <2>2, <2>3 DEF PageInv, HandInv
  <1> QED
    BY <1>3, <1>6, <1>7, <1>8, <1>9 DEF PageInv

\* As long as no page has been counted every listener belongs to another session.
LEMMA HandsLeft ==
    ASSUME PageInv, loader.pc # "listen", UNCHANGED <<count, hand>>
    PROVE  HandInv'
  BY DEF PageInv, HandInv

LEMMA LoadCountKeepsInv ==
    ASSUME PageTypeOK, PageTypeOK', PageInv, LoadCount PROVE PageInv'
  <1> DEFINE first == IF count > PageSize THEN count - PageSize ELSE 0
             goOn == IF first = 0 THEN 0 ELSE first - 1
  <1>1. /\ loader.pc = "count"
        /\ loader' = [pc |-> "page", counter |-> count, index |-> first]
        /\ start' = [start EXCEPT !["chat"] = goOn]
        /\ UNCHANGED <<count, view, filter, hand, screen, seen>>
    BY DEF LoadCount
  <1>2. count \in Nat /\ PageSize \in Nat \ {0} /\ first \in 0..count /\ goOn \in 0..count
    BY PageSizeAssumption DEF PageTypeOK
  <1>3. goOn > 0 => goOn < first
    BY <1>2
  <1>4. goOn = first - 1 \/ (first = 0 /\ goOn = 0)
    BY <1>2
  <1>5. goOn = 0 => first = 0 \/ count = PageSize + 1
    BY <1>2
  <1> HIDE DEF first, goOn
  <1>6. view = "chat" /\ \A v \in Views : ~ Shown(v)
    BY <1>1 DEF PageInv, LoaderInv, Shown
  <1>7. \A v \in Views : OnScreen(v) = {} /\ start[v] = 0 /\ seen[v] = {}
    BY <1>6 DEF PageInv, HiddenInv
  <1>8. /\ loader'.pc = "page" /\ loader'.counter = count /\ loader'.index = first
        /\ view' = "chat" /\ Shown("chat")' /\ ~ Shown("search")'
        /\ start'["chat"] = goOn /\ start'["search"] = 0 /\ seen'["chat"] = {}
    BY <1>1, <1>6, <1>7 DEF Shown, PageTypeOK
  <1>9. \A v \in Views : seen'[v] = {} /\ OnScreen(v)' = {}
    BY <1>1, <1>7 DEF OnScreen
  <1>10. LoaderInv' /\ HandInv'
    BY <1>1, <1>2, <1>8, HandsLeft DEF LoaderInv
  <1>11. ScreenOrdered' /\ LiveInv'
    BY <1>1 DEF PageInv, ScreenOrdered, LiveInv
  <1>12. BottomInv'
    <2>1. \A v \in Views : start'[v] > 0 => start'[v] < count'
      BY <1>1, <1>2, <1>3, <1>8
    <2> QED
      BY <2>1, <1>3, <1>8, <1>9 DEF BottomInv
  <1>13. StartInv'
    <2>1. ASSUME NEW i \in Due("chat")', goOn < i PROVE FALSE
      <3>1. i \in 0..(first - 1)
        BY <2>1, <1>8 DEF Due
      <3> QED
        BY <2>1, <3>1, <1>2, <1>4
    <2> QED
      BY <2>1, <1>8, <1>9 DEF StartInv
  <1>14. FirstInv'
    <2>1. ASSUME start'["chat"] = 0, 0 \in Missing("chat")' PROVE loader'.counter = PageSize + 1
      <3>1. first # 0
        BY <2>1, <1>8 DEF Missing, Due
      <3> QED
        BY <2>1, <3>1, <1>2, <1>5, <1>8
    <2> QED
      BY <2>1, <1>8 DEF FirstInv
  <1>15. HiddenInv'
    BY <1>8, <1>9 DEF HiddenInv
  <1> QED
    BY <1>10, <1>11, <1>12, <1>13, <1>14, <1>15 DEF PageInv

LEMMA LoadMessageKeepsInv ==
    ASSUME PageTypeOK, PageTypeOK', PageInv, LoadMessage PROVE PageInv'
  <1> DEFINE k == loader.index
             chat == screen["chat"]
  <1>1. /\ loader.pc = "page" /\ view = "chat"
        /\ k \in Nat /\ k <= loader.counter /\ loader.counter \in Nat
        /\ loader.counter <= count /\ count \in Nat
        /\ Shown("chat") /\ ~ Shown("search")
    BY DEF LoadMessage, PageInv, LoaderInv, PageTypeOK, Shown
  <1>2. UNCHANGED <<count, view, filter, hand, start, seen>>
    BY DEF LoadMessage
  <1>3. /\ \A i \in OnScreen("chat") : i \in Nat /\ i < k
        /\ start["chat"] > 0 => start["chat"] < k
        /\ start["chat"] \in Nat
    BY <1>1, OnScreenIndices DEF PageInv, BottomInv, PageTypeOK, LogIndices
  <1>4. HandInv'
    BY <1>1, <1>2, HandsLeft
  <1>5. CASE k < loader.counter
    <2> DEFINE x == [index |-> k, by |-> "page"]
    <2>1. /\ loader' = [loader EXCEPT !.index = k + 1]
          /\ screen' = [screen EXCEPT !["chat"] = Append(@, x)]
      BY <1>1, <1>5 DEF LoadMessage
    <2>2. /\ loader'.pc = "page" /\ loader'.counter = loader.counter /\ loader'.index = k + 1
          /\ screen'["chat"] = Append(chat, x) /\ screen'["search"] = screen["search"]
          /\ Shown("chat")' /\ ~ Shown("search")'
      BY <1>1, <1>2, <2>1 DEF PageTypeOK, Shown
    <2>3. chat \in Seq(Entries) /\ x \in Entries /\ x.by = "page" /\ x.index = k
      BY <1>1, <1>5, MaxCountAssumption DEF PageTypeOK, LogIndices, Entries
    <2> HIDE DEF x
    <2>4. /\ OnScreen("chat")' = OnScreen("chat") \cup {k}
          /\ OnScreen("search")' = OnScreen("search")
      <3>1. PagedIn(Append(chat, x)) = PagedIn(chat) \cup {k}
        BY <2>3, AppendEntry
      <3>2. OnScreen("chat")' = PagedIn(Append(chat, x)) /\ OnScreen("chat") = PagedIn(chat)
        BY <2>2 DEF OnScreen, PagedIn
      <3> QED
        BY <2>2, <3>1, <3>2 DEF OnScreen
    <2>5. LoaderInv'
      BY <1>1, <1>2, <1>5, <2>2 DEF LoaderInv
    <2>6. LiveInv'
      <3>1. \A v \in Views : \A p \in DOMAIN screen[v] : screen[v][p].by # "listener"
        BY <1>1 DEF PageInv, LiveInv
      <3>2. \A p \in DOMAIN screen'["chat"] : screen'["chat"][p].by # "listener"
        BY <2>2, <2>3, <3>1, AppendEntry
      <3> QED
        BY <2>2, <3>1, <3>2 DEF LiveInv
    <2>7. ScreenOrdered'
      <3>1. Tidy(chat) /\ Tidy(screen["search"])
        BY TidyScreens DEF PageInv
      <3>2. ASSUME NEW i \in DOMAIN chat PROVE Before(chat[i], x)
        <4>1. chat[i] \in Entries /\ chat[i].by # "listener"
          BY <1>1, <2>3 DEF PageInv, LiveInv
        <4>2. chat[i].by = "page" => chat[i].index \in OnScreen("chat")
          BY DEF OnScreen
        <4> QED
          BY <1>3, <2>3, <4>1, <4>2 DEF Before, Entries
      <3>3. Tidy(Append(chat, x))
        BY <2>3, <3>1, <3>2, AppendEntry
      <3>4. \A v \in Views : Tidy(screen'[v])
        BY <2>2, <3>1, <3>3
      <3> QED
        BY <3>4 DEF ScreenOrdered, Tidy, Before
    <2>8. BottomInv'
      <3>1. \A i \in OnScreen("chat") \cup {k} : i < count /\ i < k + 1
        BY <1>1, <1>3, <1>5
      <3>2. start["chat"] > 0 => start["chat"] < k + 1
        BY <1>1, <1>3
      <3>3. /\ \A v \in Views : start[v] > 0 => start[v] < count
            /\ \A i \in OnScreen("search") : i < count
        BY DEF PageInv, BottomInv
      <3> QED
        BY <1>2, <2>2, <2>4, <3>1, <3>2, <3>3 DEF BottomInv
    <2>9. StartInv'
      <3>1. \A i \in Due("chat")' : i \in Due("chat") \/ i = k
        BY <1>1, <2>2 DEF Due
      <3>2. start["chat"] > 0 => ~ (k <= start["chat"])
        BY <1>1, <1>3
      <3>3. /\ \A i \in Due("chat") :
                 start["chat"] < i \/ i \in seen["chat"] => i \in OnScreen("chat")
            /\ start["chat"] > 0 =>
                 \A i \in OnScreen("chat") : i <= start["chat"] => i \in seen["chat"]
            /\ \/ \A i \in seen["chat"] : i > start["chat"]
               \/ start["chat"] <= PageSize /\ 0..start["chat"] \subseteq seen["chat"]
        BY <1>1 DEF PageInv, StartInv
      <3> QED
        BY <1>2, <2>2, <2>4, <3>1, <3>2, <3>3 DEF StartInv
    <2>10. FirstInv'
      <3>1. 0 \in Missing("chat")' => 0 \in Missing("chat")
        <4>1. 0 \in Due("chat")' => 0 \in Due("chat") \/ 0 = k
          BY <1>1, <2>2 DEF Due
        <4> QED
          BY <2>4, <4>1 DEF Missing
      <3> QED
        BY <1>1, <1>2, <2>2, <3>1 DEF PageInv, FirstInv
    <2>11. HiddenInv'
      BY <1>1, <1>2, <2>2, <2>4 DEF PageInv, HiddenInv
    <2> QED
      BY <1>4, <2>5, <2>6, <2>7, <2>8, <2>9, <2>10, <2>11 DEF PageInv
  <1>6. CASE ~ (k < loader.counter)
    <2>1. /\ loader' = [loader EXCEPT !.pc = "listen"] /\ UNCHANGED screen
          /\ k = loader.counter
      BY <1>1, <1>6 DEF LoadMessage
    <2>2. /\ loader'.pc = "listen" /\ loader'.counter = loader.counter /\ loader'.index = k
          /\ Shown("chat")' /\ ~ Shown("search")'
      BY <1>1, <1>2, <2>1 DEF PageTypeOK, Shown
    <2>3. \A v \in Views : OnScreen(v)' = OnScreen(v) /\ Due(v)' = Due(v)
      BY <1>2, <2>1, <2>2 DEF OnScreen, Due
    <2>4. \A v \in Views : Missing(v)' = Missing(v)
      BY <2>3 DEF Missing
    <2>5. LoaderInv'
      BY <1>1, <1>2, <2>1, <2>2 DEF LoaderInv
    <2>6. ScreenOrdered'
      BY <2>1 DEF PageInv, ScreenOrdered
    <2>7. LiveInv'
      BY <1>1, <2>1 DEF PageInv, LiveInv
    <2>8. BottomInv'
      BY <1>1, <1>2, <2>2, <2>3 DEF PageInv, BottomInv
    <2>9. StartInv'
      BY <1>1, <1>2, <2>2, <2>3 DEF PageInv, StartInv
    <2>10. FirstInv'
      BY <1>1, <1>2, <2>1, <2>2, <2>4 DEF PageInv, FirstInv
    <2>11. HiddenInv'
      BY <1>1, <1>2, <2>2, <2>3 DEF PageInv, HiddenInv
    <2> QED
      BY <1>4, <2>5, <2>6, <2>7, <2>8, <2>9, <2>10, <2>11 DEF PageInv
  <1> QED
    BY <1>5, <1>6

\* A listener changes what it holds, and perhaps lengthens the log; the pages stay.
LEMMA HandKeepsInv ==
    ASSUME PageTypeOK, PageTypeOK', PageInv, count' >= count, HandInv',
           UNCHANGED <<view, loader, filter, screen, start, seen>>
    PROVE  PageInv'
  <1>1. /\ count \in Nat /\ count' \in Nat
        /\ \A v \in Views : \A i \in OnScreen(v) : i \in Nat
        /\ \A v \in Views : start[v] \in Nat
        /\ loader.index \in Nat /\ loader.counter \in Nat
    BY OnScreenIndices DEF PageTypeOK, LogIndices
  <1>2. \A v \in Views : /\ OnScreen(v)' = OnScreen(v) /\ Due(v)' = Due(v)
                         /\ Shown(v)' <=> Shown(v)
    BY DEF OnScreen, Due, Shown
  <1>3. \A v \in Views : Missing(v)' = Missing(v)
    BY <1>2 DEF Missing
  <1>4. LoaderInv' /\ LiveInv' /\ ScreenOrdered'
    BY <1>1 DEF PageInv, LoaderInv, LiveInv, ScreenOrdered
  <1>5. BottomInv'
    <2>1. \A v \in Views : \A i \in OnScreen(v) : i < count'
      BY <1>1 DEF PageInv, BottomInv
    <2>2. \A v \in Views : start[v] > 0 => start[v] < count'
      BY <1>1 DEF PageInv, BottomInv
    <2> QED
      BY <1>2, <2>1, <2>2 DEF PageInv, BottomInv
  <1>6. StartInv' /\ FirstInv' /\ HiddenInv'
    BY <1>2, <1>3 DEF PageInv, StartInv, FirstInv, HiddenInv
  <1> QED
    BY <1>4, <1>5, <1>6 DEF PageInv

LEMMA TakeKeepsInv ==
    ASSUME PageTypeOK, PageTypeOK', PageInv, NEW l \in Listeners,
           Take(l) \/ Keep(l) \/ GiveUp(l)
    PROVE  PageInv'
  <1>1. /\ count \in Nat /\ loader.counter \in Nat
        /\ hand \in [Listeners -> Hands] /\ hand[l] \in Hands
    BY DEF PageTypeOK
  <1>2. \A m \in Listeners : hand[m].index \in Nat
    BY DEF PageTypeOK, Hands, LogIndices
  <1>3. /\ \A m \in Listeners :
              /\ hand[m].pc # "idle" => hand[m].index <= count
              /\ hand[m].pc = "stored" => hand[m].index < count
              /\ hand[m].pc # "idle" /\ ~ hand[m].left =>
                    loader.pc = "listen" /\ loader.counter <= hand[m].index
        /\ loader.pc = "listen" => loader.counter <= count
    BY DEF PageInv, HandInv, LoaderInv
  <1>4. CASE Take(l)
    <2>1. /\ hand' = [hand EXCEPT ![l] = [pc |-> "got", index |-> count, left |-> FALSE]]
          /\ loader.pc = "listen"
          /\ UNCHANGED <<count, view, loader, filter, screen, start, seen>>
      BY <1>4 DEF Take
    <2>2. /\ hand'[l] = [pc |-> "got", index |-> count, left |-> FALSE]
          /\ \A m \in Listeners \ {l} : hand'[m] = hand[m]
      BY <1>1, <2>1
    <2>3. HandInv'
      BY <1>1, <1>3, <2>1, <2>2 DEF HandInv
    <2> QED
      BY <1>1, <2>1, <2>3, HandKeepsInv
  <1>5. CASE Keep(l)
    <2>1. PICK i \in Nat :
             /\ hand' = [hand EXCEPT ![l].pc = "stored", ![l].index = i]
             /\ hand[l].index <= i /\ i < count' /\ count' >= count /\ count' \in Nat
      <3>1. CASE count' = count + 1 /\ hand' = [hand EXCEPT ![l].pc = "stored",
                                                            ![l].index = count]
        <4>1. hand[l].index <= count
          BY <1>3, <1>5 DEF Keep
        <4>2. count < count' /\ count' >= count /\ count' \in Nat
          BY <1>1, <3>1
        <4>3. hand' = [hand EXCEPT ![l].pc = "stored", ![l].index = count]
          BY <3>1
        <4> QED
          BY <1>1, <4>1, <4>2, <4>3, Zenon
      <3>2. CASE \E i \in hand[l].index..(count - 1) :
                    hand' = [hand EXCEPT ![l].pc = "stored", ![l].index = i]
                    /\ UNCHANGED count
        <4>1. PICK i \in hand[l].index..(count - 1) :
                    hand' = [hand EXCEPT ![l].pc = "stored", ![l].index = i]
                    /\ UNCHANGED count
          BY <3>2
        <4>2. i \in Nat /\ hand[l].index <= i /\ i < count
          BY <1>1, <1>2, <4>1
        <4>3. i < count' /\ count' >= count /\ count' \in Nat
          BY <1>1, <4>1, <4>2
        <4> QED
          BY <4>1, <4>2, <4>3, Zenon
      <3> QED
        BY <1>5, <3>1, <3>2 DEF Keep
    <2>2. hand[l].pc = "got" /\ UNCHANGED <<view, loader, filter, screen, start, seen>>
      BY <1>5 DEF Keep
    <2>3. /\ hand'[l].pc = "stored" /\ hand'[l].index = i /\ hand'[l].left = hand[l].left
          /\ \A m \in Listeners \ {l} : hand'[m] = hand[m]
      BY <1>1, <2>1 DEF Hands
    <2>4. HandInv'
      <3>1. ASSUME NEW m \in Listeners \ {l}
            PROVE  /\ hand[m].pc # "idle" => hand[m].index <= count'
                   /\ hand[m].pc = "stored" => hand[m].index < count'
        BY <1>1, <1>2, <1>3, <2>1
      <3>2. ~ hand[l].left => loader.pc = "listen" /\ loader.counter <= i
        BY <1>1, <1>2, <1>3, <2>1, <2>2
      <3>3. i <= count'
        BY <2>1
      <3> QED
        BY <1>3, <2>1, <2>2, <2>3, <3>1, <3>2, <3>3 DEF HandInv
    <2> QED
      BY <2>1, <2>2, <2>4, HandKeepsInv
  <1>6. CASE GiveUp(l)
    <2>1. /\ hand' = [hand EXCEPT ![l] = Free]
          /\ UNCHANGED <<count, view, loader, filter, screen, start, seen>>
      BY <1>6 DEF GiveUp
    <2>2. hand'[l].pc = "idle" /\ \A m \in Listeners \ {l} : hand'[m] = hand[m]
      BY <1>1, <2>1 DEF Free
    <2>3. HandInv'
      BY <1>3, <2>1, <2>2 DEF HandInv
    <2> QED
      BY <1>1, <2>1, <2>3, HandKeepsInv
  <1> QED
    BY <1>4, <1>5, <1>6

\* What a listener shows is not of a page, and follows all pages of its session.
LEMMA ShowKeepsInv ==
    ASSUME PageTypeOK, PageTypeOK', PageInv, NEW l \in Listeners, Show(l)
    PROVE  PageInv'
  <1> DEFINE chat == screen["chat"]
             x == [index |-> hand[l].index,
                   by |-> IF hand[l].left THEN "late" ELSE "listener"]
  <1>1. /\ hand[l].pc = "stored" /\ screen' = [screen EXCEPT !["chat"] = Append(@, x)]
        /\ hand' = [hand EXCEPT ![l] = Free]
        /\ UNCHANGED <<count, view, loader, filter, start, seen>>
    BY DEF Show
  <1>2. /\ x \in Entries /\ x.by \in {"late", "listener"} /\ x.index = hand[l].index
        /\ chat \in Seq(Entries)
        /\ x.by = "listener" => loader.pc = "listen" /\ loader.counter <= x.index
    BY <1>1, ShownEntry DEF PageTypeOK, PageInv, HandInv
  <1> HIDE DEF x
  <1>3. screen'["chat"] = Append(chat, x) /\ screen'["search"] = screen["search"]
    BY <1>1 DEF PageTypeOK
  <1>4. \A v \in Views : OnScreen(v)' = OnScreen(v)
    <2>1. PagedIn(Append(chat, x)) = PagedIn(chat)
      BY <1>2, AppendEntry
    <2>2. OnScreen("chat")' = PagedIn(Append(chat, x)) /\ OnScreen("chat") = PagedIn(chat)
      BY <1>3 DEF OnScreen, PagedIn
    <2> QED
      BY <1>3, <2>1, <2>2 DEF OnScreen
  <1>5. \A v \in Views : Due(v)' = Due(v) /\ (Shown(v)' <=> Shown(v))
    BY <1>1 DEF Due, Shown
  <1>6. \A v \in Views : Missing(v)' = Missing(v)
    BY <1>4, <1>5 DEF Missing
  <1>7. LoaderInv'
    BY <1>1 DEF PageInv, LoaderInv
  <1>8. HandInv'
    <2>1. hand'[l].pc = "idle" /\ \A m \in Listeners \ {l} : hand'[m] = hand[m]
      BY <1>1 DEF PageTypeOK, Free
    <2> QED
      BY <1>1, <2>1 DEF PageInv, HandInv
  <1>9. LiveInv'
    <2>1. ASSUME NEW p \in DOMAIN screen'["chat"], screen'["chat"][p].by = "listener"
          PROVE  loader.pc = "listen" /\ loader.counter <= screen'["chat"][p].index
      <3>1. CASE screen'["chat"][p] = x
        BY <1>2, <2>1, <3>1
      <3>2. CASE \E q \in DOMAIN chat : screen'["chat"][p] = chat[q]
        BY <2>1, <3>2 DEF PageInv, LiveInv
      <3> QED
        BY <1>2, <1>3, <3>1, <3>2, AppendEntry
    <2> QED
      BY <1>1, <1>3, <2>1 DEF PageInv, LiveInv
  <1>10. ScreenOrdered'
    <2>1. Tidy(chat) /\ Tidy(screen["search"])
      BY TidyScreens DEF PageInv
    <2>2. ASSUME NEW i \in DOMAIN chat PROVE Before(chat[i], x)
      <3> SUFFICES ASSUME chat[i].by # "late", x.by = "listener", chat[i].by # "listener"
                   PROVE  chat[i].index < x.index
        BY <1>2 DEF Before
      <3>1. chat[i] \in Entries /\ chat[i].by = "page"
        <4>1. chat[i] \in Entries
          BY <1>2
        <4> QED
          BY <4>1 DEF Entries
      <3>2. chat[i].index \in OnScreen("chat")
        BY <3>1 DEF OnScreen
      <3>3. Shown("chat") /\ loader.index = loader.counter /\ loader.counter <= x.index
        BY <1>2 DEF PageInv, LoaderInv, Shown
      <3>4. chat[i].index < loader.index /\ chat[i].index \in Nat
        BY <3>2, <3>3, OnScreenIndices DEF PageInv, BottomInv
      <3> QED
        BY <1>2, <3>3, <3>4 DEF Entries, LogIndices, PageTypeOK
    <2>3. Tidy(Append(chat, x))
      BY <1>2, <2>1, <2>2, AppendEntry
    <2>4. \A v \in Views : Tidy(screen'[v])
      BY <1>3, <2>1, <2>3
    <2> QED
      BY <2>4 DEF ScreenOrdered, Tidy, Before
  <1>11. BottomInv'
    BY <1>1, <1>4, <1>5 DEF PageInv, BottomInv
  <1>12. StartInv'
    BY <1>1, <1>4, <1>5 DEF PageInv, StartInv
  <1>13. FirstInv'
    BY <1>1, <1>3, <1>5, <1>6 DEF PageInv, FirstInv
  <1>14. HiddenInv'
    BY <1>1, <1>4, <1>5 DEF PageInv, HiddenInv
  <1> QED
    BY <1>7, <1>8, <1>9, <1>10, <1>11, <1>12, <1>13, <1>14 DEF PageInv

LEMMA SearchKeepsInv ==
    ASSUME PageTypeOK, PageTypeOK', PageInv,
           NEW found \in SUBSET (0..(count - 1)), Search(found)
    PROVE  PageInv'
  <1>1. PICK least \in 0..count, new \in SUBSET found :
             /\ screen' = [u \in Views |-> IF u = "search" THEN Page(new) ELSE <<>>]
             /\ start' = [u \in Views |->
                            IF u = "search" /\ count > 0 /\ least > 0 THEN least - 1 ELSE 0]
             /\ seen' = [u \in Views |-> {}]
             /\ new = { i \in found : least <= i }
             /\ count > 0 => least < count /\ (least = 0 \/ Cardinality(new) = PageSize)
    BY SearchProperties
  <1>2. /\ view' = "search" /\ filter' = found /\ UNCHANGED <<count, loader, hand>>
        /\ loader.pc = "idle" /\ count \in Nat /\ PageSize \in Nat \ {0}
    BY PageSizeAssumption DEF Search, PageInv, LoaderInv, PageTypeOK
  <1>3. /\ screen'["search"] = Page(new) /\ screen'["chat"] = <<>>
        /\ start'["chat"] = 0 /\ \A v \in Views : seen'[v] = {}
        /\ start'["search"] = IF count > 0 /\ least > 0 THEN least - 1 ELSE 0
        /\ Shown("search")' /\ ~ Shown("chat")'
    BY <1>1, <1>2 DEF Shown
  <1>4. /\ Len(Page(new)) = Cardinality(new) /\ Tidy(Page(new)) /\ PagedIn(Page(new)) = new
        /\ \A k \in DOMAIN Page(new) : Page(new)[k].by = "page"
    BY FoundProperties, PageProperties
  <1>5. OnScreen("search")' = new /\ OnScreen("chat")' = {}
    BY <1>3, <1>4 DEF OnScreen, PagedIn
  <1>6. \A i \in new : i \in Nat /\ i < count /\ least <= i
    <2>1. \A i \in found : i \in Nat /\ i < count
      BY <1>2
    <2> QED
      BY <1>1, <2>1
  <1>7. LoaderInv' /\ HandInv'
    BY <1>2, HandsLeft DEF LoaderInv
  <1>8. ScreenOrdered' /\ LiveInv'
    <2>1. \A v \in Views : Tidy(screen'[v])
      BY <1>3, <1>4 DEF Tidy
    <2> QED
      BY <1>3, <1>4, <2>1 DEF ScreenOrdered, LiveInv, Tidy, Before
  <1>9. BottomInv'
    <2>1. start'["search"] > 0 => start'["search"] < count
      BY <1>1, <1>2, <1>3
    <2> QED
      BY <2>1, <1>2, <1>3, <1>5, <1>6 DEF BottomInv
  <1>10. StartInv'
    <2>1. Due("search")' = found
      BY <1>2 DEF Due
    <2>2. ASSUME NEW i \in found, start'["search"] < i PROVE i \in new
      <3>1. i \in Nat /\ least \in Nat /\ i < count
        BY <1>2
      <3>2. least <= i
        BY <3>1, <2>2, <1>2, <1>3
      <3> QED
        BY <3>2, <1>1
    <2>3. ASSUME start'["search"] > 0, NEW i \in new PROVE ~ (i <= start'["search"])
      <3>1. i \in Nat /\ least <= i /\ least \in Nat
        BY <1>2, <1>6
      <3> QED
        BY <3>1, <2>3, <1>3
    <2> QED
      BY <1>2, <1>3, <1>5, <2>1, <2>2, <2>3 DEF StartInv
  <1>11. FirstInv'
    <2> SUFFICES ASSUME 0 \in Missing("search")'
                 PROVE  Len(Page(new)) > 0 /\ Len(Page(new)) % PageSize = 0
      BY <1>3 DEF FirstInv
    <2>1. 0 \in found /\ 0 \notin new /\ 0 < count
      <3>1. 0 \in found /\ 0 \notin new
        BY <1>2, <1>5 DEF Missing, Due
      <3> QED
        BY <1>2, <3>1
    <2>2. least # 0
      BY <1>1, <2>1
    <2>3. Len(Page(new)) = PageSize
      BY <1>1, <1>4, <2>1, <2>2
    <2> QED
      BY <1>2, <2>3, MultipleOfPage
  <1>12. HiddenInv'
    BY <1>3, <1>5 DEF HiddenInv
  <1> QED
    BY <1>7, <1>8, <1>9, <1>10, <1>11, <1>12 DEF PageInv

\* A scroll of an empty view, or one with the index 0, changes nothing.
LEMMA PageInvUnchanged ==
    ASSUME PageInv, UNCHANGED pageVars PROVE PageInv'
  <1>1. \A v \in Views : /\ OnScreen(v)' = OnScreen(v) /\ Due(v)' = Due(v)
                         /\ Shown(v)' <=> Shown(v)
    BY DEF pageVars, OnScreen, Due, Shown
  <1>2. \A v \in Views : Missing(v)' = Missing(v)
    BY <1>1 DEF Missing
  <1>3. LoaderInv' /\ HandInv' /\ LiveInv' /\ ScreenOrdered' /\ BottomInv'
    BY <1>1 DEF pageVars, PageInv, LoaderInv, HandInv, LiveInv, ScreenOrdered, BottomInv
  <1>4. StartInv' /\ HiddenInv'
    BY <1>1 DEF pageVars, PageInv, StartInv, HiddenInv
  <1>5. FirstInv'
    BY <1>1, <1>2 DEF pageVars, PageInv, FirstInv
  <1> QED
    BY <1>3, <1>4, <1>5 DEF PageInv

\* What the state says of a view before a scroll with an index above 0.
LEMMA BeforeScroll ==
    ASSUME PageTypeOK, PageInv, NEW v \in Views, start[v] > 0
    PROVE  /\ Shown(v) /\ start[v] \in Nat /\ start[v] < count
           /\ v = "chat" => start[v] < loader.index
           /\ \A i \in Due(v) : start[v] < i \/ i \in seen[v] => i \in OnScreen(v)
           /\ \A i \in OnScreen(v) : i <= start[v] => i \in seen[v]
           /\ \/ \A i \in seen[v] : i > start[v]
              \/ start[v] <= PageSize /\ 0..start[v] \subseteq seen[v]
  <1>1. start[v] \in Nat /\ start[v] # 0
    BY DEF PageTypeOK, LogIndices
  <1>2. Shown(v)
    BY <1>1 DEF PageInv, HiddenInv
  <1>3. start[v] < count /\ (v = "chat" => start[v] < loader.index)
    BY <1>2 DEF PageInv, BottomInv
  <1> QED
    BY <1>1, <1>2, <1>3 DEF PageInv, StartInv

\* What a scroll adds lies below the screen; nothing is added once all was read.
LEMMA AddedBelow ==
    ASSUME PageTypeOK, PageInv, NEW v \in Views, start[v] > 0, NEW e \in 0..start[v]
    PROVE  /\ \A i \in Added(v, e), j \in OnScreen(v) : i < j
           /\ (\A i \in seen[v] : i > start[v]) \/ Added(v, e) = {}
  <1>1. \A i \in Added(v, e) : i \in Nat /\ i <= start[v] /\ i \notin seen[v]
    BY DEF Added, Wanted, LogIndices, PageTypeOK
  <1>2. start[v] \in Nat /\ \A j \in OnScreen(v) : j \in Nat
    BY OnScreenIndices DEF PageTypeOK, LogIndices
  <1>3. CASE \A i \in seen[v] : i > start[v]
    <2>1. ASSUME NEW j \in OnScreen(v) PROVE j > start[v]
      <3>1. j \in Nat /\ (j <= start[v] => j \in seen[v])
        BY <1>2, BeforeScroll
      <3> QED
        BY <3>1, <1>2, <1>3
    <2> QED
      BY <1>1, <1>2, <1>3, <2>1
  <1>4. CASE 0..start[v] \subseteq seen[v]
    <2>1. Added(v, e) = {}
      BY <1>1, <1>2, <1>4
    <2> QED
      BY <2>1
  <1> QED
    BY <1>3, <1>4, BeforeScroll

\* When what was seen lies above it, a page that does not end at 0 is full.
LEMMA AddedFull ==
    ASSUME PageTypeOK, NEW v \in Views, NEW e \in 0..start[v], e # 0,
           \A i \in seen[v] : i > start[v], ScrolledTo(v, e)
    PROVE  Cardinality(Added(v, e)) = PageSize
  <1>1. start[v] \in Nat /\ PageSize \in Nat
    BY PageSizeAssumption DEF PageTypeOK, LogIndices
  <1>2. start[v] > PageSize
    BY <1>1 DEF ScrolledTo
  <1>3. (Wanted(v) \cup seen[v]) \cap (e..start[v]) = Added(v, e)
    <2>1. \A i \in Wanted(v) : i \in Nat
      BY DEF Wanted, PageTypeOK, LogIndices
    <2>2. \A i \in seen[v] : i \in Nat /\ ~ (i <= start[v])
      BY <1>1 DEF PageTypeOK, LogIndices
    <2>3. \A i \in Wanted(v) : i \in e..start[v] <=> e <= i /\ i <= start[v]
      BY <1>1, <2>1
    <2>4. \A i \in seen[v] : i \notin e..start[v]
      BY <2>2
    <2>5. \A i \in Wanted(v) : i \in e..start[v] => i \notin seen[v]
      BY <2>4
    <2> QED
      BY <2>3, <2>4, <2>5 DEF Added
  <1> QED
    BY <1>2, <1>3 DEF ScrolledTo

\* What a scroll makes of the screen.
LEMMA AfterScroll ==
    ASSUME PageTypeOK, PageInv, NEW v \in Views, start[v] > 0, NEW e \in 0..start[v],
           Scroll(v), ScrolledTo(v, e)
    PROVE  /\ OnScreen(v)' = OnScreen(v) \cup Added(v, e)
           /\ Len(screen'[v]) = Len(screen[v]) + Cardinality(Added(v, e))
           /\ Tidy(screen'[v])
           /\ \A p \in DOMAIN screen'[v] :
                 screen'[v][p].by = "listener" => \E q \in DOMAIN screen[v] :
                                                     screen'[v][p] = screen[v][q]
           /\ seen'[v] = seen[v] \cup (e..start[v])
           /\ start'[v] = IF start[v] <= PageSize THEN start[v]
                          ELSE IF e = 0 THEN 0 ELSE e - 1
           /\ \A u \in Views \ {v} : /\ screen'[u] = screen[u] /\ start'[u] = start[u]
                                     /\ seen'[u] = seen[u]
           /\ UNCHANGED <<count, view, loader, filter, hand>>
  <1> DEFINE a == Page(Added(v, e))
             s == screen[v]
  <1>1. e \in Nat /\ start[v] \in Nat
    BY DEF PageTypeOK, LogIndices
  <1>2. /\ a \in Seq(Entries) /\ Len(a) = Cardinality(Added(v, e)) /\ Tidy(a)
        /\ PagedIn(a) = Added(v, e) /\ Cardinality(Added(v, e)) \in Nat
        /\ \A k \in DOMAIN a : a[k].by = "page" /\ a[k].index \in Added(v, e)
    BY <1>1, AddedProperties, PageProperties
  <1>3. s \in Seq(Entries) /\ Tidy(s)
    BY TidyScreens DEF PageTypeOK, PageInv
  <1>4. /\ screen'[v] = a \o s
        /\ seen'[v] = seen[v] \cup (e..start[v])
        /\ start'[v] = IF start[v] <= PageSize THEN start[v] ELSE IF e = 0 THEN 0 ELSE e - 1
        /\ \A u \in Views \ {v} : /\ screen'[u] = screen[u] /\ start'[u] = start[u]
                                  /\ seen'[u] = seen[u]
    BY DEF ScrolledTo, PageTypeOK
  <1>5. PagedIn(s) = OnScreen(v)
    BY DEF OnScreen, PagedIn
  <1>6. \A i \in DOMAIN a, j \in DOMAIN s : Before(a[i], s[j])
    <2> SUFFICES ASSUME NEW i \in DOMAIN a, NEW j \in DOMAIN s, s[j].by # "late"
                 PROVE  a[i].index < s[j].index
      BY DEF Before
    <2>1. a[i].index \in Added(v, e) /\ s[j] \in Entries
      <3> HIDE DEF a, s
      <3> QED
        BY <1>2, <1>3
    <2>2. CASE s[j].by = "page"
      <3>1. s[j].index \in OnScreen(v)
        BY <2>2 DEF OnScreen
      <3> HIDE DEF a, s
      <3> QED
        BY <2>1, <3>1, AddedBelow
    <2>3. CASE s[j].by = "listener"
      <3>1. v = "chat" /\ loader.pc = "listen" /\ loader.counter <= s[j].index
        BY <2>3 DEF PageInv, LiveInv
      <3>2. loader.index = loader.counter /\ start[v] < loader.index
        BY <3>1, BeforeScroll DEF PageInv, LoaderInv
      <3> HIDE DEF a, s
      <3>3. a[i].index \in Nat /\ a[i].index <= start[v]
        <4>1. Wanted(v) \subseteq LogIndices
          BY DEF Wanted, PageTypeOK
        <4>2. a[i].index \in LogIndices /\ a[i].index <= start[v]
          BY <2>1, <4>1 DEF Added
        <4> QED
          BY <4>2 DEF LogIndices
      <3>4. s[j].index \in Nat /\ loader.counter \in Nat
        BY <2>1 DEF Entries, LogIndices, PageTypeOK
      <3> QED
        BY <1>1, <3>1, <3>2, <3>3, <3>4
    <2> QED
      BY <2>1, <2>2, <2>3 DEF Entries
  <1> HIDE DEF a, s
  <1>7. Tidy(a \o s)
    BY <1>2, <1>3, <1>6, ConcatTidy
  <1>8. /\ Len(a \o s) = Len(a) + Len(s)
        /\ DOMAIN (a \o s) = 1..Len(a \o s) /\ Len(a) \in Nat /\ Len(s) \in Nat
        /\ DOMAIN a = 1..Len(a) /\ DOMAIN s = 1..Len(s)
        /\ \A i \in 1..Len(a \o s) : (a \o s)[i] = IF i <= Len(a) THEN a[i] ELSE s[i - Len(a)]
    BY <1>2, <1>3, ConcatProperties
  <1>9. Len(screen'[v]) = Len(screen[v]) + Cardinality(Added(v, e))
    BY <1>2, <1>4, <1>8 DEF s
  <1>10. OnScreen(v)' = OnScreen(v) \cup Added(v, e)
    <2>1. OnScreen(v)' = PagedIn(a \o s)
      BY <1>4 DEF OnScreen, PagedIn
    <2>2. PagedIn(a \o s) = PagedIn(a) \cup PagedIn(s)
      BY <1>2, <1>3, ConcatPaged
    <2> QED
      BY <2>1, <2>2, <1>2, <1>5
  <1>11. ASSUME NEW p \in DOMAIN (a \o s), (a \o s)[p].by = "listener"
         PROVE  \E q \in DOMAIN s : (a \o s)[p] = s[q]
    <2>1. CASE p <= Len(a)
      <3>1. p \in DOMAIN a /\ (a \o s)[p] = a[p]
        BY <1>8, <2>1
      <3> QED
        BY <1>2, <1>11, <3>1
    <2>2. CASE ~ (p <= Len(a))
      <3>1. p - Len(a) \in DOMAIN s /\ (a \o s)[p] = s[p - Len(a)]
        BY <1>8, <2>2
      <3> QED
        BY <3>1
    <2> QED
      BY <2>1, <2>2
  <1>12. UNCHANGED <<count, view, loader, filter, hand>>
    BY DEF Scroll
  <1>13. \A p \in DOMAIN screen'[v] :
            screen'[v][p].by = "listener" => \E q \in DOMAIN screen[v] :
                                                screen'[v][p] = screen[v][q]
    BY <1>4, <1>11 DEF s
  <1> QED
    BY <1>4, <1>7, <1>9, <1>10, <1>12, <1>13

LEMMA ScrollKeepsInv ==
    ASSUME PageTypeOK, PageTypeOK', PageInv, NEW v \in Views, Scroll(v)
    PROVE  PageInv'
  <1>1. CASE start[v] = 0
    BY <1>1, ScrollNothing, PageInvUnchanged
  <1>2. CASE start[v] # 0
    <2>1. start[v] > 0 /\ start[v] \in Nat /\ PageSize \in Nat \ {0} /\ count \in Nat
      BY <1>2, PageSizeAssumption DEF PageTypeOK, LogIndices
    <2>2. PICK e \in 0..start[v] : ScrolledTo(v, e)
      BY <2>1, ScrollProperties
    <2> DEFINE s == start[v]
               N == Added(v, e)
    <2>3. /\ OnScreen(v)' = OnScreen(v) \cup N
          /\ Len(screen'[v]) = Len(screen[v]) + Cardinality(N)
          /\ Tidy(screen'[v])
          /\ \A p \in DOMAIN screen'[v] :
                screen'[v][p].by = "listener" => \E q \in DOMAIN screen[v] :
                                                    screen'[v][p] = screen[v][q]
          /\ seen'[v] = seen[v] \cup (e..s)
          /\ start'[v] = IF s <= PageSize THEN s ELSE IF e = 0 THEN 0 ELSE e - 1
          /\ \A u \in Views \ {v} : /\ screen'[u] = screen[u] /\ start'[u] = start[u]
                                    /\ seen'[u] = seen[u]
          /\ UNCHANGED <<count, view, loader, filter, hand>>
      BY <2>1, <2>2, AfterScroll
    <2>4. /\ Shown(v) /\ s < count
          /\ v = "chat" => s < loader.index
          /\ \A i \in Due(v) : s < i \/ i \in seen[v] => i \in OnScreen(v)
          /\ \A i \in OnScreen(v) : i <= s => i \in seen[v]
          /\ \/ \A i \in seen[v] : i > s
             \/ s <= PageSize /\ 0..s \subseteq seen[v]
      BY <2>1, BeforeScroll
    <2>5. /\ s <= PageSize => e = 0
          /\ s > PageSize /\ 0..s \subseteq Wanted(v) => e = s + 1 - PageSize
      BY <2>2 DEF ScrolledTo
    <2>6. \A u \in Views : /\ Due(u)' = Due(u)
                           /\ Shown(u)' <=> Shown(u)
                           /\ u # v => OnScreen(u)' = OnScreen(u)
      BY <2>3 DEF Due, Shown, OnScreen
    <2>7. \A u \in Views \ {v} : ~ Shown(u)
      BY DEF Scroll, Shown
    <2>8. /\ \A i \in N : i \in Wanted(v) /\ i \in Nat /\ e <= i /\ i <= s
          /\ \A i \in Due(v) : i \in Nat /\ (i <= s => i \in Wanted(v))
          /\ \A i \in Wanted(v) : e <= i /\ i <= s /\ i \notin seen[v] => i \in N
      <3>1. N = { i \in Wanted(v) \ seen[v] : e <= i /\ i <= s }
        BY DEF Added
      <3>2. \A i \in Wanted(v) : i \in Nat
        BY DEF Wanted, PageTypeOK, LogIndices
      <3>3. \A i \in Due(v) : i \in Nat /\ (i <= s => i \in Wanted(v))
        <4>1. CASE v = "chat"
          BY <2>1, <2>4, <4>1, MaxCountAssumption DEF Due, Wanted, PageTypeOK, LogIndices
        <4>2. CASE v = "search"
          BY <4>2 DEF Due, Wanted, PageTypeOK, LogIndices
        <4> QED
          BY <4>1, <4>2
      <3> QED
        BY <3>1, <3>2, <3>3
    <2>9. start'[v] \in Nat /\ start'[v] <= s /\ e \in Nat /\ e <= s
      BY <2>1, <2>3
    <2>10. /\ \A i \in OnScreen(v) : i \in Nat
           /\ \A i \in seen[v] : i \in Nat
      BY OnScreenIndices DEF PageTypeOK, LogIndices
    <2> HIDE DEF s, N
    <2>11. LoaderInv' /\ HandInv'
      BY <2>3 DEF PageInv, LoaderInv, HandInv
    <2>12. ScreenOrdered' /\ LiveInv'
      <3>1. \A u \in Views : Tidy(screen'[u])
        BY <2>3, TidyScreens DEF PageInv
      <3>2. LiveInv'
        BY <2>3 DEF PageInv, LiveInv
      <3> QED
        BY <3>1, <3>2 DEF ScreenOrdered, Tidy, Before
    <2>13. BottomInv'
      <3>1. \A i \in N : i < count
        BY <2>1, <2>4, <2>8 DEF s
      <3>2. \A u \in Views : \A i \in OnScreen(u)' : i < count
        BY <3>1, <2>3, <2>6 DEF PageInv, BottomInv
      <3>3. \A u \in Views : start'[u] > 0 => start'[u] < count
        <4>1. start'[v] < count
          BY <2>1, <2>4, <2>9 DEF s
        <4> QED
          BY <4>1, <2>3 DEF PageInv, BottomInv
      <3>4. ASSUME Shown("chat")
            PROVE  /\ \A i \in OnScreen("chat")' : i < loader.index
                   /\ start'["chat"] > 0 => start'["chat"] < loader.index
        <4>1. loader.index \in Nat
          BY DEF PageTypeOK
        <4>2. CASE v = "chat"
          <5>1. \A i \in N : i < loader.index
            BY <4>1, <4>2, <3>4, <2>1, <2>4, <2>8 DEF s
          <5>2. \A i \in OnScreen("chat") : i < loader.index
            BY <3>4 DEF PageInv, BottomInv
          <5>3. start'["chat"] < loader.index
            BY <4>1, <4>2, <3>4, <2>1, <2>4, <2>9 DEF s
          <5> QED
            BY <5>1, <5>2, <5>3, <4>2, <2>3
        <4>3. CASE v # "chat"
          BY <4>3, <3>4, <2>3, <2>6 DEF PageInv, BottomInv
        <4> QED
          BY <4>2, <4>3
      <3> QED
        BY <3>2, <3>3, <3>4, <2>3, <2>6 DEF BottomInv
    <2>14. StartInv'
      <3>1. ASSUME NEW i \in Due(v), start'[v] < i \/ i \in seen'[v]
            PROVE  i \in OnScreen(v)'
        <4>1. i \in Nat
          BY <2>8
        <4>2. CASE i \in seen[v]
          BY <4>2, <2>3, <2>4
        <4>3. CASE s < i
          BY <4>3, <2>3, <2>4
        <4>4. CASE i \notin seen[v] /\ e <= i /\ i <= s
          BY <4>4, <2>3, <2>8
        <4>5. i \in seen[v] \/ s < i \/ (e <= i /\ i <= s)
          <5>1. CASE i \in seen'[v]
            BY <5>1, <4>1, <2>3, <2>9 DEF s
          <5>2. CASE start'[v] < i
            BY <5>2, <4>1, <2>1, <2>3, <2>5, <2>9 DEF s
          <5> QED
            BY <3>1, <5>1, <5>2
        <4> QED
          BY <4>2, <4>3, <4>4, <4>5
      <3>2. ASSUME start'[v] > 0, NEW i \in OnScreen(v)', i <= start'[v]
            PROVE  i \in seen'[v]
        <4>1. CASE i \in OnScreen(v)
          <5>1. i <= s
            BY <4>1, <3>2, <2>1, <2>9, <2>10 DEF s
          <5> QED
            BY <4>1, <5>1, <2>3, <2>4
        <4>2. CASE i \in N
          BY <4>2, <2>1, <2>3, <2>8, <2>9 DEF s
        <4> QED
          BY <3>2, <4>1, <4>2, <2>3
      <3>3. \/ \A i \in seen'[v] : i > start'[v]
            \/ start'[v] <= PageSize /\ 0..start'[v] \subseteq seen'[v]
        <4>1. CASE s <= PageSize
          <5>1. start'[v] = s /\ e = 0
            BY <4>1, <2>3, <2>5
          <5> QED
            BY <4>1, <5>1, <2>3
        <4>2. CASE ~ (s <= PageSize) /\ e = 0
          <5>1. start'[v] = 0 /\ 0 \in seen'[v]
            BY <4>2, <2>1, <2>3 DEF s
          <5>2. 0..0 = {0}
            OBVIOUS
          <5> QED
            BY <5>1, <5>2, <2>1
        <4>3. CASE ~ (s <= PageSize) /\ e # 0
          <5>1. start'[v] = e - 1
            BY <4>3, <2>3
          <5>2. \A i \in seen[v] : i > s
            BY <4>3, <2>4
          <5>3. ASSUME NEW i \in seen'[v] PROVE i > e - 1
            <6>1. CASE i \in seen[v]
              BY <6>1, <5>2, <2>1, <2>9, <2>10 DEF s
            <6>2. CASE i \in e..s
              BY <6>2, <2>1, <2>9 DEF s
            <6> QED
              BY <6>1, <6>2, <5>3, <2>3
          <5> QED
            BY <5>1, <5>3
        <4> QED
          BY <4>1, <4>2, <4>3
      <3> QED
        BY <3>1, <3>2, <3>3, <2>3, <2>6, <2>7 DEF StartInv
    <2>15. FirstInv'
      <3>1. ASSUME v = "chat", start'["chat"] = 0 PROVE FALSE
        <4>1. ~ (s <= PageSize)
          BY <3>1, <2>1, <2>3 DEF s
        <4>2. 0..s \subseteq Wanted(v)
          BY <3>1, <2>1, MaxCountAssumption DEF Wanted, PageTypeOK, LogIndices, s
        <4>3. e = s + 1 - PageSize
          BY <4>1, <4>2, <2>1, <2>5 DEF s
        <4> QED
          BY <4>1, <4>3, <3>1, <2>1, <2>3 DEF s
      <3>2. ASSUME v = "search", 0 \in Missing("search")'
            PROVE  Len(screen'["search"]) > 0 /\ Len(screen'["search"]) % PageSize = 0
        <4>1. 0 \in Due(v) /\ 0 \notin OnScreen(v) /\ 0 \notin N
          BY <3>2, <2>3, <2>6 DEF Missing
        <4>2. 0 \notin seen[v]
          BY <4>1, <2>4
        <4>3. e # 0
          BY <4>1, <4>2, <2>1, <2>8, <2>9 DEF s
        <4>4. \A i \in seen[v] : i > s
          BY <4>2, <2>1, <2>4 DEF s
        <4>5. Cardinality(N) = PageSize
          BY <4>3, <4>4, <2>2, AddedFull DEF N, s
        <4>6. 0 \in Missing("search")
          BY <4>1, <3>2 DEF Missing
        <4>7. Len(screen["search"]) > 0 /\ Len(screen["search"]) % PageSize = 0
          BY <4>6, <3>2, <2>4 DEF PageInv, FirstInv
        <4>8. Len(screen["search"]) \in Nat
          <5>1. screen["search"] \in Seq(Entries)
            BY DEF PageTypeOK
          <5> QED
            BY <5>1
        <4>9. Len(screen'["search"]) = Len(screen["search"]) + PageSize
          BY <4>5, <3>2, <2>3
        <4>10. (Len(screen["search"]) + PageSize) % PageSize = 0
          BY <4>7, <4>8, <2>1, OneMorePage
        <4>11. Len(screen'["search"]) % PageSize = 0
          BY <4>9, <4>10
        <4>12. Len(screen'["search"]) > 0
          BY <4>8, <4>9, <2>1
        <4> QED
          BY <4>11, <4>12
      <3>3. CASE v = "chat"
        BY <3>1, <3>3, <2>6, <2>7 DEF FirstInv
      <3>4. CASE v = "search"
        BY <3>2, <3>4, <2>6, <2>7 DEF FirstInv
      <3> QED
        BY <3>3, <3>4
    <2>16. HiddenInv'
      BY <2>3, <2>4, <2>6 DEF PageInv, HiddenInv
    <2> QED
      BY <2>11, <2>12, <2>13, <2>14, <2>15, <2>16 DEF PageInv
  <1> QED
    BY <1>1, <1>2

LEMMA PageInvStep == PageTypeOK /\ PageTypeOK' /\ PageInv /\ [PageNext]_pageVars => PageInv'
  <1> SUFFICES ASSUME PageTypeOK, PageTypeOK', PageInv, [PageNext]_pageVars PROVE PageInv'
    OBVIOUS
  <1>1. CASE OpenChat \/ OpenSearch \/ Leave
    BY <1>1, SwitchKeepsInv
  <1>2. CASE LoadCount
    BY <1>2, LoadCountKeepsInv
  <1>3. CASE LoadMessage
    BY <1>3, LoadMessageKeepsInv
  <1>4. CASE \E l \in Listeners : Take(l) \/ Keep(l) \/ GiveUp(l) \/ Show(l)
    BY <1>4, TakeKeepsInv, ShowKeepsInv
  <1>5. CASE \E found \in SUBSET (0..(count - 1)) : Search(found)
    BY <1>5, SearchKeepsInv
  <1>6. CASE \E v \in Views : Scroll(v)
    BY <1>6, ScrollKeepsInv
  <1>7. CASE UNCHANGED pageVars
    BY <1>7, PageInvUnchanged
  <1> QED
    BY <1>1, <1>2, <1>3, <1>4, <1>5, <1>6, <1>7 DEF PageNext

LEMMA PageInvAlways == PageSpec => [](PageTypeOK /\ PageInv)
  <1>1. PageInit => PageTypeOK /\ PageInv
    BY PageTypeInit, PageInvInit
  <1>2. PageTypeOK /\ PageInv /\ [PageNext]_pageVars => (PageTypeOK /\ PageInv)'
    BY PageTypeStep, PageInvStep
  <1> QED
    BY <1>1, <1>2, PTL DEF PageSpec

-----------------------------------------------------------------------------
(* The properties. *)

\* The messages on a screen are in the order of the log and none is there twice,
\* but for what two listeners show, in either order or both, and for what those
\* of a session that was left show late.
THEOREM ScreenOrderedAlways == PageSpec => []ScreenOrdered
  <1>1. PageInv => ScreenOrdered
    BY DEF PageInv
  <1> QED
    BY <1>1, PageInvAlways, PTL

\* What a shown view misses lies at or below the index to go on at; it has not
\* been seen, so the screen lies above that index.
LEMMA MissingBelow ==
    ASSUME PageTypeOK, PageInv, NEW v \in Views, Shown(v), NEW i \in Missing(v)
    PROVE  /\ i \in Nat /\ i <= start[v] /\ i \notin seen[v] /\ i \notin OnScreen(v)
           /\ start[v] > 0 => \A j \in OnScreen(v) : start[v] < j
  <1>1. i \in Due(v) /\ i \notin OnScreen(v)
    BY DEF Missing
  <1>2. i \in Nat /\ start[v] \in Nat
    BY <1>1 DEF Due, PageTypeOK, LogIndices
  <1>3. ~ (start[v] < i) /\ i \notin seen[v]
    BY <1>1 DEF PageInv, StartInv
  <1>4. i <= start[v]
    BY <1>2, <1>3
  <1>5. ASSUME start[v] > 0, NEW j \in OnScreen(v) PROVE start[v] < j
    <2>1. ~ (0..start[v] \subseteq seen[v])
      BY <1>2, <1>3, <1>4
    <2>2. \A k \in seen[v] : k > start[v]
      BY <2>1, <1>5, BeforeScroll
    <2>3. j \in Nat /\ (j <= start[v] => j \in seen[v])
      BY <1>5, BeforeScroll, OnScreenIndices
    <2> QED
      BY <2>2, <2>3, <1>2
  <1> QED
    BY <1>1, <1>2, <1>3, <1>4, <1>5

\* Only messages older than all that the page, a search and the scrolls have shown
\* are missing from it: they join without a gap, whatever the listeners store, show
\* or lose in between.
THEOREM NoGapsAlways == PageSpec => []NoGaps
  <1>1. ASSUME PageTypeOK, PageInv PROVE NoGaps
    <2> SUFFICES ASSUME NEW v \in Views, Shown(v), NEW i \in Missing(v), NEW j \in OnScreen(v)
                 PROVE  i < j
      BY DEF NoGaps
    <2>1. /\ i \in Nat /\ i <= start[v] /\ i \notin OnScreen(v)
          /\ start[v] > 0 => start[v] < j
      BY <1>1, MissingBelow
    <2>2. j \in Nat /\ start[v] \in Nat
      BY <1>1, OnScreenIndices DEF PageTypeOK, LogIndices
    <2>3. CASE start[v] > 0
      BY <2>1, <2>2, <2>3
    <2>4. CASE start[v] = 0
      <3>1. i = 0 /\ j # 0
        BY <2>1, <2>2, <2>4
      <3> QED
        BY <3>1, <2>2
    <2> QED
      BY <2>2, <2>3, <2>4
  <1> QED
    BY <1>1, PageInvAlways, PTL

\* When scrolling adds nothing any more the user has seen all that was in the log
\* when the chat was opened or the text searched for, but for the very first
\* message when the pages end just before it.
THEOREM EndReachedAlways == PageSpec => []EndReached
  <1>1. ASSUME PageTypeOK, PageInv PROVE EndReached
    <2> SUFFICES ASSUME NEW v \in Views, Shown(v), start[v] <= PageSize,
                        Unread(v) \subseteq seen[v], Missing(v) # {}
                 PROVE  Missing(v) = {0} /\ EndsBeforeFirst(v)
      BY DEF EndReached
    <2>1. start[v] \in Nat
      BY <1>1 DEF PageTypeOK, LogIndices
    <2>2. \A i \in Missing(v) : i \in Nat /\ i <= start[v] /\ i \notin seen[v]
      BY <1>1, MissingBelow
    <2>3. start[v] = 0
      <3> SUFFICES ASSUME start[v] # 0 PROVE FALSE
        OBVIOUS
      <3>1. 0..start[v] \subseteq seen[v]
        BY DEF Unread
      <3> QED
        BY <3>1, <2>1, <2>2
    <2>4. Missing(v) = {0}
      BY <2>1, <2>2, <2>3
    <2>5. EndsBeforeFirst(v)
      BY <1>1, <2>3, <2>4 DEF EndsBeforeFirst, PageInv, FirstInv
    <2> QED
      BY <2>4, <2>5
  <1> QED
    BY <1>1, PageInvAlways, PTL

\* Until the end is reached a scroll adds at least a full page, however many
\* messages in between do not match.
THEOREM FullPagesAlways == PageSpec => FullPages
  <1>1. PageTypeOK /\ PageInv /\ (PageTypeOK /\ PageInv)' =>
          [\A v \in Views :
             Shown(v) /\ Scroll(v) =>
               Len(screen'[v]) >= Len(screen[v]) + PageSize \/ (Missing(v)' \subseteq {0})]_pageVars
    <2> SUFFICES ASSUME PageTypeOK, PageTypeOK', PageInv, PageInv',
                        NEW v \in Views, Shown(v), Scroll(v)
                 PROVE  \/ Len(screen'[v]) >= Len(screen[v]) + PageSize
                        \/ Missing(v)' \subseteq {0}
      OBVIOUS
    <2>1. start[v] \in Nat /\ PageSize \in Nat \ {0}
      BY PageSizeAssumption DEF PageTypeOK, LogIndices
    <2>2. Shown(v)'
      BY DEF Shown, Scroll
    <2>3. \A i \in Missing(v)' : i \in Nat /\ i <= start'[v] /\ i \notin seen'[v]
      <3>1. ASSUME NEW i \in Missing(v)'
            PROVE  i \in Nat /\ i <= start'[v] /\ i \notin seen'[v]
        <4>1. i \in Due(v)' /\ i \notin OnScreen(v)'
          BY DEF Missing
        <4>2. i \in Nat /\ start'[v] \in Nat
          BY <4>1 DEF Due, PageTypeOK, LogIndices
        <4>3. ~ (start'[v] < i) /\ i \notin seen'[v]
          BY <4>1, <2>2 DEF PageInv, StartInv
        <4> QED
          BY <4>2, <4>3
      <3> QED
        BY <3>1
    <2>4. CASE start'[v] = 0
      BY <2>3, <2>4
    <2>5. CASE start'[v] # 0
      <3>1. start[v] # 0
        BY <2>5, ScrollNothing DEF pageVars
      <3>2. start[v] > 0
        BY <3>1, <2>1
      <3>3. PICK e \in 0..start[v] : ScrolledTo(v, e)
        BY <3>2, ScrollProperties
      <3>4. /\ Len(screen'[v]) = Len(screen[v]) + Cardinality(Added(v, e))
            /\ seen'[v] = seen[v] \cup (e..start[v])
            /\ start'[v] = IF start[v] <= PageSize THEN start[v]
                           ELSE IF e = 0 THEN 0 ELSE e - 1
        BY <3>2, <3>3, AfterScroll
      <3>5. CASE start[v] <= PageSize
        <4>1. e = 0 /\ start'[v] = start[v]
          BY <3>3, <3>4, <3>5 DEF ScrolledTo
        <4>2. Missing(v)' = {}
          BY <4>1, <3>4, <2>1, <2>3
        <4> QED
          BY <4>2
      <3>6. CASE ~ (start[v] <= PageSize)
        <4>1. e # 0
          BY <3>4, <3>6, <2>5
        <4>2. \A i \in seen[v] : i > start[v]
          BY <3>2, <3>6, BeforeScroll
        <4>3. Cardinality(Added(v, e)) = PageSize
          BY <4>1, <4>2, <3>3, AddedFull
        <4>4. Len(screen[v]) \in Nat
          <5>1. screen[v] \in Seq(Entries)
            BY DEF PageTypeOK
          <5> QED
            BY <5>1
        <4> QED
          BY <4>3, <4>4, <3>4, <2>1
      <3> QED
        BY <3>5, <3>6
    <2> QED
      BY <2>4, <2>5
  <1> QED
    BY <1>1, PageInvAlways, PTL DEF FullPages
=============================================================================
