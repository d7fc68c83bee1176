------------------------- MODULE ChannelList_proofs -------------------------
(***************************************************************************)
(* Proofs about ChannelList, for any channels, users and goroutines and    *)
(* any number of entries, failed writes and restarts.                      *)
(***************************************************************************)
EXTENDS ChannelList, FiniteSetTheorems, SequenceTheorems, TLAPS

USE ChannelListAssumption

-----------------------------------------------------------------------------
(* Lists of entries. *)

\* A list that has as many places as S has members, and all of them, has each
\* once.
LEMMA Arranged ==
    ASSUME NEW n \in Nat, NEW S \in SUBSET (1..n),
           NEW l \in [1..Cardinality(S) -> S], Listed(l) = S
    PROVE  /\ Cardinality(S) \in Nat
           /\ l \in Seq(1..n)
           /\ \A i, j \in DOMAIN l : i # j => l[i] # l[j]
  <1>1. IsFiniteSet(S) /\ Cardinality(S) \in Nat
    <2>1. IsFiniteSet(1..n)
      BY FS_Interval
    <2>2. IsFiniteSet(S)
      BY <2>1, FS_Subset
    <2> QED
      BY <2>2, FS_CardinalityType
  <1>2. l \in Seq(1..n)
    <2>1. \A k \in 1..Cardinality(S) : l[k] \in 1..n
      OBVIOUS
    <2>2. l = [k \in 1..Cardinality(S) |-> l[k]]
      OBVIOUS
    <2> QED
      BY <1>1, <2>1, <2>2
  <1>3. IsFiniteSet(1..Cardinality(S)) /\ Cardinality(1..Cardinality(S)) = Cardinality(S)
    BY <1>1, FS_Interval
  <1>4. l \in Surjection(1..Cardinality(S), S)
    BY DEF Surjection, Listed
  <1>5. l \in Injection(1..Cardinality(S), S)
    BY <1>3, <1>4, FS_SurjSameCardinalityImpliesInj
  <1> QED
    BY <1>1, <1>2, <1>5 DEF Injection, IsInjective

\* A part of a list, which may be empty.
LEMMA Part ==
    ASSUME NEW S, NEW l, NEW m \in Int, NEW e \in Int, m <= e + 1,
           \A i \in m..e : l[i] \in S
    PROVE  /\ SubSeq(l, m, e) \in Seq(S)
           /\ Len(SubSeq(l, m, e)) = e - m + 1
           /\ \A k \in 1..(e - m + 1) : SubSeq(l, m, e)[k] = l[m + k - 1]
  <1>1. /\ SubSeq(l, m, e) \in Seq(S)
        /\ Len(SubSeq(l, m, e)) = IF m <= e THEN e - m + 1 ELSE 0
        /\ \A k \in 1..(e - m + 1) : SubSeq(l, m, e)[k] = l[m + k - 1]
    BY SubSeqProperties
  <1>2. e - m + 1 = IF m <= e THEN e - m + 1 ELSE 0
    OBVIOUS
  <1> QED
    BY <1>1, <1>2

\* What a list of entries is without the one at place i.
LEMMA Shortened ==
    ASSUME NEW S, NEW e \in Nat, NEW i \in 1..e,
           NEW l, \A k \in 1..e : l[k] \in S,
           NEW s, s = SubSeq(l, 1, i - 1) \o SubSeq(l, i + 1, e)
    PROVE  /\ s \in Seq(S)
           /\ DOMAIN s = 1..(e - 1)
           /\ \A k \in 1..(e - 1) : s[k] = IF k < i THEN l[k] ELSE l[k + 1]
  <1> DEFINE s1 == SubSeq(l, 1, i - 1)
             s2 == SubSeq(l, i + 1, e)
  <1>1. e \in Nat /\ i \in 1..e
    OBVIOUS
  <1>2. s = s1 \o s2
    OBVIOUS
  <1>3. /\ 1 \in Int /\ i - 1 \in Int /\ 1 <= (i - 1) + 1
        /\ \A k \in 1..(i - 1) : l[k] \in S
        /\ i + 1 \in Int /\ e \in Int /\ i + 1 <= e + 1
        /\ \A k \in (i + 1)..e : l[k] \in S
    BY <1>1
  <1>4. /\ s1 \in Seq(S) /\ Len(s1) = (i - 1) - 1 + 1
        /\ \A k \in 1..((i - 1) - 1 + 1) : s1[k] = l[1 + k - 1]
    BY <1>3, Part
  <1>5. /\ s2 \in Seq(S) /\ Len(s2) = e - (i + 1) + 1
        /\ \A k \in 1..(e - (i + 1) + 1) : s2[k] = l[(i + 1) + k - 1]
    BY <1>3, Part
  <1> HIDE DEF s1, s2
  <1>6. /\ Len(s1) = i - 1 /\ Len(s2) = e - i /\ Len(s1) + Len(s2) = e - 1
        /\ \A k \in 1..(i - 1) : s1[k] = l[k]
        /\ \A k \in 1..(e - i) : s2[k] = l[i + k]
    <2>1. /\ (i - 1) - 1 + 1 = i - 1 /\ e - (i + 1) + 1 = e - i
          /\ (i - 1) + (e - i) = e - 1
      BY <1>1
    <2>2. ASSUME NEW k \in 1..(i - 1) PROVE s1[k] = l[k]
      <3>1. 1 + k - 1 = k
        BY <1>1
      <3> QED
        BY <1>4, <2>1, <3>1
    <2>3. ASSUME NEW k \in 1..(e - i) PROVE s2[k] = l[i + k]
      <3>1. (i + 1) + k - 1 = i + k
        BY <1>1
      <3> QED
        BY <1>5, <2>1, <3>1
    <2> QED
      BY <1>4, <1>5, <2>1, <2>2, <2>3
  <1>7. /\ s \in Seq(S) /\ Len(s) = e - 1
        /\ \A k \in 1..(e - 1) :
              s[k] = IF k <= i - 1 THEN s1[k] ELSE s2[k - (i - 1)]
    <2>1. /\ s1 \o s2 \in Seq(S)
          /\ Len(s1 \o s2) = Len(s1) + Len(s2)
          /\ \A k \in 1..(Len(s1) + Len(s2)) :
                (s1 \o s2)[k] = IF k <= Len(s1) THEN s1[k] ELSE s2[k - Len(s1)]
      BY <1>4, <1>5, ConcatProperties
    <2> QED
      BY <1>2, <1>6, <2>1
  <1>8. ASSUME NEW k \in 1..(e - 1)
        PROVE  s[k] = IF k < i THEN l[k] ELSE l[k + 1]
    <2>1. CASE k < i
      BY <1>1, <1>6, <1>7, <2>1
    <2>2. CASE ~(k < i)
      <3>1. /\ k - (i - 1) \in 1..(e - i) /\ i + (k - (i - 1)) = k + 1
            /\ ~(k <= i - 1)
        BY <1>1, <2>2
      <3>2. s[k] = s2[k - (i - 1)]
        BY <1>7, <3>1
      <3>3. s2[k - (i - 1)] = l[k + 1]
        BY <1>6, <3>1
      <3> QED
        BY <2>2, <3>2, <3>3
    <2> QED
      BY <2>1, <2>2
  <1>9. DOMAIN s = 1..(e - 1)
    <2>1. DOMAIN s = 1..Len(s)
      BY <1>7
    <2> QED
      BY <1>7, <2>1
  <1> QED
    BY <1>7, <1>8, <1>9

\* The entries of the page are entries that were made.
LEMMA ListedMade ==
    ASSUME TypeOK
    PROVE  /\ made \in Nat /\ list \in Seq(1..made)
           /\ Listed(list) \in SUBSET (1..made)
  BY DEF TypeOK, Listed

-----------------------------------------------------------------------------
(* Types. *)

LEMMA SortKeepsType ==
    ASSUME TypeOK, NEW S \in SUBSET (1..made), SortInto(S)
    PROVE  list' \in Seq(1..made) /\ long' \in BOOLEAN
  <1>1. list' \in [1..Cardinality(S) -> S] /\ Listed(list') = S
    BY DEF SortInto, Sorted
  <1> QED
    BY <1>1, ListedMade, Arranged DEF SortInto

LEMMA UnlistKeepsType ==
    ASSUME TypeOK, NEW c \in Channels, Unlist(c)
    PROVE  /\ list' \in Seq(1..made) /\ gone' \in SUBSET Channels
           /\ current' = None
  <1>1. ASSUME UNCHANGED list PROVE list' \in Seq(1..made)
    BY <1>1, ListedMade
  <1>2. ASSUME NEW i \in DOMAIN list,
               list' = SubSeq(list, 1, i - 1) \o SubSeq(list, i + 1, Len(list))
        PROVE  list' \in Seq(1..made)
    <2> DEFINE e == Len(list)
               l == list
    <2>1. e \in Nat /\ i \in 1..e /\ \A k \in 1..e : l[k] \in 1..made
      BY ListedMade
    <2>2. list' = SubSeq(l, 1, i - 1) \o SubSeq(l, i + 1, e)
      BY <1>2
    <2> HIDE DEF e, l
    <2> QED
      BY <2>1, <2>2, Shortened
  <1>3. list' \in Seq(1..made)
    BY <1>1, <1>2 DEF Unlist
  <1> QED
    <2>1. gone \in SUBSET Channels /\ c \in Channels
      BY DEF TypeOK
    <2>2. gone' = gone \cup {c} /\ current' = None
      BY DEF Unlist
    <2> QED
      BY <1>3, <2>1, <2>2

\* A step on a decision leaves sets of decisions and a count of faults.
LEMMA DecisionKeepsType ==
    ASSUME TypeOK, NEW d \in Decisions,
           Set(d) \/ Unset(d) \/ SetFails(d) \/ UnsetFails(d)
    PROVE  /\ saved' \in SUBSET Decisions /\ ld' \in SUBSET Decisions
           /\ told' \in SUBSET Decisions /\ failed' \in SUBSET Decisions
           /\ faults' \in 0..MaxFaults
  BY DEF TypeOK, Set, Unset, SetFails, UnsetFails, SetLocalData, SaveFails

\* The channel of an entry that was made is a channel.
LEMMA ChannelOf ==
    ASSUME TypeOK, NEW o \in 1..made
    PROVE  chan[o] \in Channels /\ o \in Objects
  BY DEF TypeOK, Objects

LEMMA TypeInit == Init => TypeOK
  <1> SUFFICES ASSUME Init PROVE TypeOK
    OBVIOUS
  <1>1. made = 0 /\ list = <<>> /\ NoChannel \notin Channels
    BY DEF Init
  <1>2. list \in Seq(1..made)
    BY <1>1
  <1>3. chan \in [Objects -> Channels \cup {NoChannel}]
        /\ \A o \in Objects : chan[o] = NoChannel <=> o > made
    BY <1>1 DEF Init, NoChannels, Objects
  <1>4. fav \in [Objects -> BOOLEAN] /\ adding \in [Adders -> 0..made]
    BY <1>1 DEF Init, NoMarks, NothingAdded, None
  <1>5. /\ saved \subseteq Decisions /\ ld \subseteq Decisions
        /\ told \subseteq Decisions /\ failed \subseteq Decisions
        /\ rows \subseteq 1..made /\ gone \subseteq Channels
    BY DEF Init
  <1>6. /\ made \in 0..MaxObjects /\ current \in 0..made
        /\ doing \in {"idle", "flag", "sort"} /\ (current = None => doing = "idle")
        /\ faults \in 0..MaxFaults /\ restarts \in 0..MaxRestarts
    BY <1>1 DEF Init, None
  <1>7. long \in BOOLEAN
    BY DEF Init
  <1> QED
    BY <1>2, <1>3, <1>4, <1>5, <1>6, <1>7 DEF TypeOK

LEMMA TypeStep == TypeOK /\ [Next]_vars => TypeOK'
  <1> SUFFICES ASSUME TypeOK, [Next]_vars PROVE TypeOK'
    OBVIOUS
  <1> USE DEF None
  <1>1. ASSUME NEW g \in Adders, NEW c \in Channels, Make(g, c) PROVE TypeOK'
    <2>1. made' \in 0..MaxObjects /\ made' = made + 1 /\ made \in Nat /\ made' \in Objects
      BY <1>1 DEF Make, TypeOK, Objects
    <2>2. /\ chan' \in [Objects -> Channels \cup {NoChannel}]
          /\ \A o \in Objects : chan'[o] = NoChannel <=> o > made'
      <3>1. chan' = [chan EXCEPT ![made'] = c] /\ chan \in [Objects -> Channels \cup {NoChannel}]
        BY <1>1 DEF Make, TypeOK
      <3>2. ASSUME NEW o \in Objects PROVE chan'[o] = NoChannel <=> o > made'
        BY <2>1, <3>1 DEF TypeOK, Objects
      <3> QED
        BY <2>1, <3>1, <3>2
    <2>3. fav' \in [Objects -> BOOLEAN]
      <3>1. (<<"favorite", c>> \in ld) \in BOOLEAN
        OBVIOUS
      <3> QED
        BY <1>1, <3>1 DEF Make, TypeOK
    <2>4. list' \in Seq(1..made') /\ rows' \subseteq 1..made' /\ current' \in 0..made'
      BY <1>1, <2>1 DEF Make, TypeOK
    <2>5. adding' \in [Adders -> 0..made']
      BY <1>1, <2>1 DEF Make, TypeOK
    <2> QED
      BY <1>1, <2>1, <2>2, <2>3, <2>4, <2>5 DEF Make, TypeOK, data
  <1>2. ASSUME NEW g \in Adders, AddChannel(g) PROVE TypeOK'
    <2>1. adding' \in [Adders -> 0..made]
      BY <1>2 DEF AddChannel, TypeOK
    <2>2. list' \in Seq(1..made) /\ long' \in BOOLEAN
      <3>1. Listed(list) \cup {adding[g]} \in SUBSET (1..made)
        BY <1>2, ListedMade DEF AddChannel, TypeOK
      <3>2. CASE UNCHANGED <<list, long>>
        BY <3>2 DEF TypeOK
      <3>3. CASE SortInto(Listed(list) \cup {adding[g]})
        BY <3>1, <3>3, SortKeepsType
      <3> QED
        BY <1>2, <3>2, <3>3 DEF AddChannel
    <2> QED
      BY <1>2, <2>1, <2>2 DEF AddChannel, TypeOK, data, entries
  <1>3. ASSUME NEW g \in Adders, AddWhileFlag(g) PROVE TypeOK'
    <2>1. adding' \in [Adders -> 0..made]
      BY <1>3 DEF AddWhileFlag, TypeOK
    <2>0. fav' \in [Objects -> BOOLEAN]
      BY <1>3 DEF AddWhileFlag, TypeOK
    <2>2. Listed(list) \cup {adding[g]} \in SUBSET (1..made)
      BY <1>3, ListedMade DEF AddWhileFlag, TypeOK
    <2>3. list' \in Seq(1..made)
      BY <1>3, <2>2, ListedMade, Arranged DEF AddWhileFlag
    <2>4. current # None
      BY <1>3 DEF AddWhileFlag, TypeOK
    <2> QED
      BY <1>3, <2>0, <2>1, <2>3, <2>4 DEF AddWhileFlag, TypeOK, data
  <1>4. ASSUME Redraw \/ Open \/ Leave \/ SaveOther PROVE TypeOK'
    <2>1. CASE Redraw
      BY <2>1, ListedMade DEF Redraw, TypeOK, data, entries
    <2>2. CASE Open
      BY <2>2 DEF Open, TypeOK, data, entries
    <2>3. CASE Leave
      BY <2>3 DEF Leave, TypeOK, data, entries
    <2>4. CASE SaveOther
      BY <2>4 DEF SaveOther, TypeOK, entries
    <2> QED
      BY <1>4, <2>1, <2>2, <2>3, <2>4
  <1>5. ASSUME MarkFavorite PROVE TypeOK'
    <2> DEFINE d == <<"favorite", chan[current]>>
    <2>1. current \in 1..made
      BY <1>5 DEF MarkFavorite, TypeOK
    <2>2. d \in Decisions
      BY <2>1, ChannelOf DEF Decisions
    <2>3. /\ saved' \in SUBSET Decisions /\ ld' \in SUBSET Decisions
          /\ told' \in SUBSET Decisions /\ failed' \in SUBSET Decisions
          /\ faults' \in 0..MaxFaults
      <3> HIDE DEF d
      <3>1. Set(d) \/ Unset(d) \/ SetFails(d) \/ UnsetFails(d)
        BY <1>5 DEF MarkFavorite, d
      <3> QED
        BY <2>2, <3>1, DecisionKeepsType
    <2>4. doing' \in {"idle", "flag"} /\ current' # None
      BY <1>5 DEF MarkFavorite
    <2> QED
      BY <1>5, <2>3, <2>4 DEF MarkFavorite, TypeOK, entries
  <1>6. ASSUME Flag PROVE TypeOK'
    <2>1. current # None /\ fav' \in [Objects -> BOOLEAN]
      BY <1>6 DEF Flag, TypeOK
    <2> QED
      BY <1>6, <2>1 DEF Flag, TypeOK, data
  <1>7. ASSUME SortChannels PROVE TypeOK'
    <2>1. list' \in Seq(1..made) /\ long' \in BOOLEAN
      BY <1>7, ListedMade, SortKeepsType DEF SortChannels
    <2>2. rows' \subseteq 1..made
      BY <1>7, ListedMade DEF SortChannels
    <2> QED
      BY <1>7, <2>1, <2>2 DEF SortChannels, TypeOK, data, entries
  <1>8. ASSUME DeleteChat PROVE TypeOK'
    <2> DEFINE d == <<"deleted", chan[current]>>
    <2>1. current \in 1..made
      BY <1>8 DEF DeleteChat, TypeOK
    <2>2. d \in Decisions /\ chan[current] \in Channels
      BY <2>1, ChannelOf DEF Decisions
    <2>3. /\ saved' \in SUBSET Decisions /\ ld' \in SUBSET Decisions
          /\ told' \in SUBSET Decisions /\ failed' \in SUBSET Decisions
          /\ faults' \in 0..MaxFaults
      <3> HIDE DEF d
      <3>1. Set(d) \/ SetFails(d)
        BY <1>8 DEF DeleteChat, d
      <3> QED
        BY <2>2, <3>1, DecisionKeepsType
    <2>4. /\ list' \in Seq(1..made) /\ gone' \in SUBSET Channels
          /\ current' \in {current, None}
      <3>1. CASE Unlist(chan[current])
        BY <2>2, <3>1, UnlistKeepsType
      <3>2. CASE UNCHANGED <<list, gone, current>>
        BY <3>2 DEF TypeOK
      <3> QED
        BY <1>8, <3>1, <3>2 DEF DeleteChat
    <2> QED
      BY <1>8, <2>3, <2>4 DEF DeleteChat, TypeOK, entries
  <1>9. ASSUME NEW u \in Users, BlockParticipant(u) PROVE TypeOK'
    <2> DEFINE d == <<"blocked", u>>
    <2>1. d \in Decisions
      BY DEF Decisions
    <2>2. /\ saved' \in SUBSET Decisions /\ ld' \in SUBSET Decisions
          /\ told' \in SUBSET Decisions /\ failed' \in SUBSET Decisions
          /\ faults' \in 0..MaxFaults
      <3> HIDE DEF d
      <3>1. Set(d) \/ SetFails(d) \/ Unset(d) \/ UnsetFails(d)
        BY <1>9 DEF BlockParticipant, d
      <3> QED
        BY <2>1, <3>1, DecisionKeepsType
    <2> QED
      BY <1>9, <2>2 DEF BlockParticipant, TypeOK, entries
  <1>10. ASSUME Restart PROVE TypeOK'
    <2>1. made' = 0 /\ list' = <<>>
      BY <1>10 DEF Restart
    <2>2. list' \in Seq(1..made')
      BY <2>1
    <2>3. chan' \in [Objects -> Channels \cup {NoChannel}]
          /\ \A o \in Objects : chan'[o] = NoChannel <=> o > made'
      BY <1>10, <2>1 DEF Restart, NoChannels, Objects
    <2>4. fav' \in [Objects -> BOOLEAN] /\ adding' \in [Adders -> 0..made']
      BY <1>10, <2>1 DEF Restart, NoMarks, NothingAdded
    <2>5. /\ saved' \subseteq Decisions /\ ld' \subseteq Decisions
          /\ told' \subseteq Decisions /\ failed' \subseteq Decisions
          /\ rows' \subseteq 1..made' /\ gone' \subseteq Channels
      BY <1>10 DEF Restart, TypeOK
    <2>6. /\ made' \in 0..MaxObjects /\ current' \in 0..made'
          /\ doing' = "idle"
          /\ faults' \in 0..MaxFaults /\ restarts' \in 0..MaxRestarts
      BY <1>10, <2>1 DEF Restart, TypeOK
    <2>7. long' \in BOOLEAN
      BY <1>10 DEF Restart
    <2> QED
      BY <2>2, <2>3, <2>4, <2>5, <2>6, <2>7 DEF TypeOK
  <1>11. CASE UNCHANGED vars
    BY <1>11 DEF vars, data, entries, TypeOK
  <1> QED
    BY <1>1, <1>2, <1>3, <1>4, <1>5, <1>6, <1>7, <1>8, <1>9, <1>10, <1>11
       DEF Next, Goroutines, Window

\* The list, local data and the pages keep their types, and nothing refers to
\* an entry that was not made (channels.go, client.go).
THEOREM TypeCorrect == Spec => []TypeOK
  BY TypeInit, TypeStep, PTL DEF Spec

-----------------------------------------------------------------------------
(* What the user was told. *)

\* Told, memory and file agree on every decision whose last write did not fail.
Kept == \A d \in Decisions \ failed : (d \in told <=> d \in ld) /\ (d \in ld <=> d \in saved)

\* A step on one decision leaves the agreement on the others.
LEMMA DecisionKept ==
    ASSUME Kept, NEW d, Set(d) \/ Unset(d) \/ SetFails(d) \/ UnsetFails(d)
    PROVE  Kept'
  <1> SUFFICES ASSUME NEW e \in Decisions, e \notin failed'
               PROVE  (e \in told' <=> e \in ld') /\ (e \in ld' <=> e \in saved')
    BY DEF Kept
  <1>1. CASE Set(d)
    BY <1>1 DEF Kept, Set, SetLocalData
  <1>2. CASE Unset(d)
    BY <1>2 DEF Kept, Unset, SetLocalData
  <1>3. CASE SetFails(d) \/ UnsetFails(d)
    BY <1>3 DEF Kept, SetFails, UnsetFails, SaveFails
  <1> QED
    BY <1>1, <1>2, <1>3

LEMMA KeptStep == Kept /\ [Next]_vars => Kept'
  <1> SUFFICES ASSUME Kept, [Next]_vars PROVE Kept'
    OBVIOUS
  <1>1. CASE UNCHANGED data
    BY <1>1 DEF data, Kept
  <1>2. CASE \E d : Set(d) \/ Unset(d) \/ SetFails(d) \/ UnsetFails(d)
    BY <1>2, DecisionKept
  <1>3. ASSUME \E g \in Adders : \/ \E c \in Channels : Make(g, c)
                                 \/ AddChannel(g) \/ AddWhileFlag(g)
        PROVE  UNCHANGED data
    BY <1>3 DEF Make, AddChannel, AddWhileFlag
  <1>4. ASSUME Redraw \/ Open \/ Leave \/ Flag \/ SortChannels \/ UNCHANGED vars
        PROVE  UNCHANGED data
    BY <1>4 DEF Redraw, Open, Leave, Flag, SortChannels, vars
  <1>5. ASSUME MarkFavorite \/ DeleteChat \/ \E u \in Users : BlockParticipant(u)
        PROVE  \E d : Set(d) \/ Unset(d) \/ SetFails(d) \/ UnsetFails(d)
    BY <1>5 DEF MarkFavorite, DeleteChat, BlockParticipant
  <1>6. CASE SaveOther
    BY <1>6 DEF SaveOther, Kept
  <1>7. CASE Restart
    BY <1>7 DEF Restart, Kept
  <1> QED
    BY <1>1, <1>2, <1>3, <1>4, <1>5, <1>6, <1>7 DEF Next, Goroutines, Window

\* What a dialog told the user is in the file, unless the last write of that
\* decision failed (client.go:218-302).
THEOREM ToldIsSavedAlways == Spec => []ToldIsSaved
  <1>1. Init => Kept
    BY DEF Init, Kept
  <1>2. Kept => ToldIsSaved
    BY DEF Kept, ToldIsSaved
  <1> QED
    BY <1>1, <1>2, KeptStep, PTL DEF Spec

-----------------------------------------------------------------------------
(* The order of the page. *)

\* An entry is on the page once, and so is a channel.
Unique ==
    /\ \A i, j \in DOMAIN list : i # j => list[i] # list[j]
    /\ \A o, q \in Listed(list) : chan[o] = chan[q] => o = q

\* What a row opens, and the open chat, is on the page unless it was deleted.
RowsListed ==
    /\ \A o \in rows : chan[o] \in gone \/ o \in Listed(list)
    /\ current # None => chan[current] \in gone \/ current \in Listed(list)

\* The mark of an entry is the one of local data.
Agrees(o) == fav[o] <=> Favorite(o)

\* It is for all entries on the page, but the one that a dialog just changed.
MarksAgree ==
    \A o \in Listed(list) :
        Undisturbed(o) => (Agrees(o) <=> ~(doing = "flag" /\ o = current))

\* It is for an entry that a goroutine holds, if that is going to be added.
Fits(o) == InList(chan[o]) \/ ~Undisturbed(o) \/ Agrees(o)

AddedAgree == \A g \in Adders : \A o \in 1..made : adding[g] = o => Fits(o)

\* The page is sorted by the marks of its entries, except before a dialog sorts.
InOrder ==
    doing # "sort" =>
        \A i, j \in DOMAIN list : i < j =>
            /\ fav[list[j]] => fav[list[i]]
            /\ (fav[list[i]] <=> fav[list[j]]) /\ ~long => list[i] < list[j]

ListInv == TypeOK /\ Unique /\ RowsListed /\ MarksAgree /\ AddedAgree /\ InOrder

LEMMA ListInvInit == Init => ListInv
  <1> SUFFICES ASSUME Init PROVE ListInv
    OBVIOUS
  <1>1. TypeOK
    BY TypeInit
  <1>2. list = <<>> /\ rows = {} /\ current = None /\ made = 0
    BY DEF Init
  <1>3. DOMAIN list = {} /\ Listed(list) = {}
    BY <1>2 DEF Listed
  <1>4. 1..made = {}
    BY <1>2
  <1> QED
    BY <1>1, <1>2, <1>3, <1>4 DEF ListInv, Unique, RowsListed, MarksAgree, AddedAgree,
                                  InOrder

LEMMA ListedDef ==
    ASSUME NEW l PROVE \A o : o \in Listed(l) <=> \E i \in DOMAIN l : l[i] = o
  BY DEF Listed

\* After a sort the page has the entries it should, each once and in order.
LEMMA SortedList ==
    ASSUME TypeOK, NEW S \in SUBSET (1..made), SortInto(S)
    PROVE  /\ Listed(list') = S
           /\ \A i, j \in DOMAIN list' : i # j => list'[i] # list'[j]
           /\ \A i, j \in DOMAIN list' : i < j =>
                 /\ fav[list'[j]] => fav[list'[i]]
                 /\ (fav[list'[i]] <=> fav[list'[j]]) /\ ~long' => list'[i] < list'[j]
  <1>1. list' \in [1..Cardinality(S) -> S] /\ Listed(list') = S
    BY DEF SortInto, Sorted
  <1>2. /\ Cardinality(S) \in Nat
        /\ \A i, j \in DOMAIN list' : i # j => list'[i] # list'[j]
    BY <1>1, ListedMade, Arranged
  <1>3. ~long' => Cardinality(S) <= StableLength
    <2>1. long' <=> Cardinality(S) > StableLength
      BY DEF SortInto
    <2> QED
      BY <1>2, <2>1
  <1>4. \A i, j \in DOMAIN list' : i < j =>
           /\ fav[list'[j]] => fav[list'[i]]
           /\ (fav[list'[i]] = fav[list'[j]] /\ Cardinality(S) <= StableLength)
                 => list'[i] < list'[j]
    BY DEF SortInto, Sorted
  <1>5. ASSUME NEW i \in DOMAIN list', NEW j \in DOMAIN list'
        PROVE  fav[list'[i]] \in BOOLEAN /\ fav[list'[j]] \in BOOLEAN
    <2>1. list'[i] \in S /\ list'[j] \in S
      BY <1>1
    <2>2. S \subseteq Objects /\ fav \in [Objects -> BOOLEAN]
      BY DEF TypeOK, Objects
    <2> QED
      BY <2>1, <2>2
  <1> QED
    BY <1>1, <1>2, <1>3, <1>4, <1>5

\* The places of s are those of l but place i, in order.
Places(s, l, e, i) ==
    /\ DOMAIN s = 1..(e - 1)
    /\ \A a \in 1..(e - 1) : \E k \in 1..e : k # i /\ s[a] = l[k]
    /\ \A k \in 1..e : k # i => \E a \in 1..(e - 1) : s[a] = l[k]
    /\ \A a, b \in 1..(e - 1) : a < b =>
          \E k, m \in 1..e : k < m /\ s[a] = l[k] /\ s[b] = l[m]

LEMMA ShortenedPlaces ==
    ASSUME NEW S, NEW e \in Nat, NEW i \in 1..e,
           NEW l, \A k \in 1..e : l[k] \in S,
           NEW s, s = SubSeq(l, 1, i - 1) \o SubSeq(l, i + 1, e)
    PROVE  Places(s, l, e, i)
  <1> DEFINE At(k) == IF k < i THEN k ELSE k + 1
  <1>1. /\ DOMAIN s = 1..(e - 1)
        /\ \A k \in 1..(e - 1) : s[k] = IF k < i THEN l[k] ELSE l[k + 1]
    BY Shortened
  <1>2. \A k \in 1..(e - 1) : s[k] = l[At(k)]
    BY <1>1
  <1>3. \A k \in 1..(e - 1) : At(k) \in 1..e /\ At(k) # i
    OBVIOUS
  <1>4. \A k, m \in 1..(e - 1) : k < m => At(k) < At(m)
    OBVIOUS
  <1>5. ASSUME NEW m \in 1..e, m # i PROVE \E k \in 1..(e - 1) : At(k) = m
    <2>1. CASE m < i
      <3>1. m \in 1..(e - 1) /\ At(m) = m
        BY <2>1
      <3> QED
        BY <3>1
    <2>2. CASE ~(m < i)
      <3>1. m - 1 \in 1..(e - 1) /\ At(m - 1) = m
        BY <1>5, <2>2
      <3> QED
        BY <3>1
    <2> QED
      BY <2>1, <2>2
  <1> HIDE DEF At
  <1>6. \A a \in 1..(e - 1) : \E k \in 1..e : k # i /\ s[a] = l[k]
    BY <1>2, <1>3
  <1>7. \A k \in 1..e : k # i => \E a \in 1..(e - 1) : s[a] = l[k]
    BY <1>2, <1>5
  <1>8. \A a, b \in 1..(e - 1) : a < b =>
           \E k, m \in 1..e : k < m /\ s[a] = l[k] /\ s[b] = l[m]
    BY <1>2, <1>3, <1>4
  <1> QED
    BY <1>1, <1>6, <1>7, <1>8 DEF Places

\* The list s has the entries of l but those of channel c, in order.
Without(s, l, ch, c) ==
    /\ Listed(s) = { o \in Listed(l) : ch[o] # c }
    /\ \A a, b \in DOMAIN s : a < b =>
          \E k, m \in DOMAIN l : k < m /\ s[a] = l[k] /\ s[b] = l[m]

LEMMA WithoutOne ==
    ASSUME NEW S, NEW l \in Seq(S), NEW i \in DOMAIN l,
           NEW s, s = SubSeq(l, 1, i - 1) \o SubSeq(l, i + 1, Len(l)),
           NEW ch, \A k \in DOMAIN l : ch[l[k]] = ch[l[i]] <=> k = i
    PROVE  Without(s, l, ch, ch[l[i]])
  <1>0. PICK e : e = Len(l)
    OBVIOUS
  <1>1. e \in Nat /\ i \in 1..e /\ DOMAIN l = 1..e /\ \A k \in 1..e : l[k] \in S
    BY <1>0
  <1>2. s = SubSeq(l, 1, i - 1) \o SubSeq(l, i + 1, e)
    BY <1>0
  <1>3. Places(s, l, e, i)
    BY <1>1, <1>2, ShortenedPlaces
  <1>4. ASSUME NEW o PROVE o \in Listed(s) <=> o \in Listed(l) /\ ch[o] # ch[l[i]]
    <2>1. ASSUME o \in Listed(s) PROVE o \in Listed(l) /\ ch[o] # ch[l[i]]
      <3>1. PICK a \in 1..(e - 1) : s[a] = o
        <4>1. DOMAIN s = 1..(e - 1)
          BY <1>3 DEF Places
        <4>2. \E a \in DOMAIN s : s[a] = o
          BY <2>1 DEF Listed
        <4> QED
          BY ONLY <4>1, <4>2
      <3>2. PICK k \in 1..e : k # i /\ s[a] = l[k]
        BY <1>3, <3>1 DEF Places
      <3> QED
        BY <1>1, <3>1, <3>2, ListedDef
    <2>2. ASSUME o \in Listed(l), ch[o] # ch[l[i]] PROVE o \in Listed(s)
      <3>1. PICK k \in 1..e : l[k] = o
        BY ONLY <1>1, <2>2, ListedDef
      <3>2. k # i
        BY <2>2, <3>1
      <3>3. PICK a \in 1..(e - 1) : s[a] = l[k]
        BY <1>3, <3>2 DEF Places
      <3> QED
        BY <1>3, <3>1, <3>3, ListedDef DEF Places
    <2> QED
      BY <2>1, <2>2
  <1>5. Listed(s) = { o \in Listed(l) : ch[o] # ch[l[i]] }
    BY <1>4
  <1>6. \A a, b \in DOMAIN s : a < b =>
           \E k, m \in DOMAIN l : k < m /\ s[a] = l[k] /\ s[b] = l[m]
    <2>1. DOMAIN s = 1..(e - 1) /\ DOMAIN l = 1..e
      BY <1>1, <1>3 DEF Places
    <2>2. \A a, b \in 1..(e - 1) : a < b =>
             \E k, m \in 1..e : k < m /\ s[a] = l[k] /\ s[b] = l[m]
      BY <1>3 DEF Places
    <2>3. ASSUME NEW a \in DOMAIN s, NEW b \in DOMAIN s, a < b
          PROVE  \E k, m \in DOMAIN l : k < m /\ s[a] = l[k] /\ s[b] = l[m]
      <3>1. a \in 1..(e - 1) /\ b \in 1..(e - 1)
        BY <2>1
      <3>2. PICK k \in 1..e, m \in 1..e : k < m /\ s[a] = l[k] /\ s[b] = l[m]
        BY <2>2, <2>3, <3>1
      <3>3. k \in DOMAIN l /\ m \in DOMAIN l
        BY <2>1
      <3> QED
        BY <3>2, <3>3
    <2> QED
      BY <2>3
  <1> QED
    BY <1>5, <1>6 DEF Without

\* After a deletion the page has every other entry, in the order it had.
LEMMA UnlistedList ==
    ASSUME TypeOK, Unique, NEW c \in Channels, Unlist(c)
    PROVE  Without(list', list, chan, c)
  <1>1. CASE ~InList(c) /\ UNCHANGED list
    <2>1. Listed(list') = { o \in Listed(list) : chan[o] # c }
      BY <1>1 DEF InList
    <2> QED
      BY <1>1, <2>1 DEF Without
  <1>2. ASSUME NEW i \in DOMAIN list, chan[list[i]] = c,
               list' = SubSeq(list, 1, i - 1) \o SubSeq(list, i + 1, Len(list))
        PROVE  Without(list', list, chan, c)
    <2>1. \A k \in DOMAIN list : chan[list[k]] = chan[list[i]] <=> k = i
      BY ListedDef DEF Unique
    <2>2. Without(list', list, chan, chan[list[i]])
      BY <1>2, <2>1, ListedMade, WithoutOne
    <2> QED
      BY <1>2, <2>2
  <1> QED
    BY <1>1, <1>2 DEF Unlist

LEMMA SameMarks ==
    ASSUME UNCHANGED <<chan, fav, ld, failed, gone>>
    PROVE  \A o : /\ Undisturbed(o)' <=> Undisturbed(o)
                  /\ Agrees(o)' <=> Agrees(o)
  BY DEF Undisturbed, Agrees, Favorite

\* The marks of the entries that were made, when they and local data stay.
LEMMA SortedInv ==
    ASSUME ListInv, TypeOK', NEW S \in SUBSET (1..made), SortInto(S),
           Listed(list) \subseteq S,
           UNCHANGED <<made, chan, fav, ld, failed, gone, current>>,
           \A o, q \in S : chan[o] = chan[q] => o = q,
           \A o \in S : Undisturbed(o) => (Agrees(o) <=> ~(doing' = "flag" /\ o = current)),
           \A g \in Adders : adding'[g] \in {adding[g], None},
           rows' \subseteq rows \cup Listed(list)
    PROVE  ListInv'
  <1>1. /\ Listed(list') = S
        /\ \A i, j \in DOMAIN list' : i # j => list'[i] # list'[j]
        /\ \A i, j \in DOMAIN list' : i < j =>
              /\ fav[list'[j]] => fav[list'[i]]
              /\ (fav[list'[i]] <=> fav[list'[j]]) /\ ~long' => list'[i] < list'[j]
    BY SortedList DEF ListInv
  <1>2. Unique'
    BY <1>1 DEF Unique
  <1>3. RowsListed'
    BY <1>1 DEF RowsListed, ListInv
  <1>4. MarksAgree'
    BY <1>1, SameMarks DEF MarksAgree
  <1>5. AddedAgree'
    <2> SUFFICES ASSUME NEW g \in Adders, NEW o \in 1..made, adding'[g] = o
                 PROVE  Fits(o)'
      BY DEF AddedAgree
    <2>1. adding[g] = o
      BY ListedMade DEF ListInv, None
    <2>2. Fits(o)
      BY <2>1 DEF AddedAgree, ListInv
    <2>3. InList(chan[o]) => InList(chan[o])'
      BY <1>1 DEF InList
    <2> QED
      BY <2>2, <2>3, SameMarks DEF Fits
  <1>6. InOrder'
    BY <1>1 DEF InOrder
  <1> QED
    BY <1>2, <1>3, <1>4, <1>5, <1>6 DEF ListInv

LEMMA MakeInv ==
    ASSUME ListInv, TypeOK', NEW g \in Adders, NEW c \in Channels, Make(g, c)
    PROVE  ListInv'
  <1>1. /\ made \in Nat /\ made' = made + 1 /\ made' \in Objects /\ 1..made \subseteq Objects
        /\ chan' = [chan EXCEPT ![made'] = c]
        /\ fav' = [fav EXCEPT ![made'] = <<"favorite", c>> \in ld]
        /\ DOMAIN chan = Objects /\ DOMAIN fav = Objects
    BY DEF Make, ListInv, TypeOK, Objects
  <1>2. UNCHANGED <<ld, failed, gone, list, rows, current, doing, long>>
    BY DEF Make, data
  <1>3. ASSUME NEW o \in 1..made
        PROVE  /\ chan'[o] = chan[o] /\ fav'[o] = fav[o]
               /\ Undisturbed(o)' <=> Undisturbed(o)
               /\ Agrees(o)' <=> Agrees(o)
    <2>1. o # made' /\ o \in Objects
      BY <1>1
    <2>2. chan'[o] = chan[o] /\ fav'[o] = fav[o]
      BY <1>1, <2>1
    <2> QED
      BY <1>2, <2>2 DEF Undisturbed, Agrees, Favorite
  <1>4. /\ Listed(list) \subseteq 1..made /\ Listed(list') = Listed(list)
        /\ rows \subseteq 1..made /\ (current # None => current \in 1..made)
        /\ \A i \in DOMAIN list : list[i] \in 1..made
    BY <1>2, ListedMade DEF ListInv, TypeOK, None
  <1>5. Unique'
    BY <1>2, <1>3, <1>4 DEF Unique, ListInv
  <1>6. RowsListed'
    BY <1>2, <1>3, <1>4 DEF RowsListed, ListInv
  <1>7. MarksAgree'
    BY <1>2, <1>3, <1>4 DEF MarksAgree, ListInv
  <1>8. AddedAgree'
    <2> SUFFICES ASSUME NEW h \in Adders, NEW o \in 1..made', adding'[h] = o
                 PROVE  Fits(o)'
      BY DEF AddedAgree
    <2>1. CASE o = made'
      <3>1. chan'[o] = c /\ (fav'[o] <=> <<"favorite", c>> \in ld)
        BY <1>1, <2>1
      <3> QED
        BY <1>2, <3>1 DEF Fits, Agrees, Favorite
    <2>2. CASE o # made'
      <3>1. o \in 1..made
        BY <1>1, <2>2
      <3>2. adding[h] = o
        BY <1>1, <2>2 DEF Make, ListInv, TypeOK
      <3>3. Fits(o)
        BY <3>1, <3>2 DEF AddedAgree, ListInv
      <3>4. InList(chan[o]) => InList(chan[o])'
        BY <1>3, <1>4, <3>1 DEF InList
      <3> QED
        BY <1>3, <3>1, <3>3, <3>4 DEF Fits
    <2> QED
      BY <2>1, <2>2
  <1>9. InOrder'
    BY <1>2, <1>3, <1>4 DEF InOrder, ListInv
  <1> QED
    BY <1>5, <1>6, <1>7, <1>8, <1>9 DEF ListInv

LEMMA AddChannelInv ==
    ASSUME ListInv, TypeOK', NEW g \in Adders, AddChannel(g)
    PROVE  ListInv'
  <1> DEFINE o == adding[g]
  <1>1. /\ o # None /\ o \in 1..made
        /\ UNCHANGED <<ld, failed, gone, made, chan, fav, rows, current, doing>>
        /\ \A h \in Adders : adding'[h] \in {adding[h], None}
    BY DEF AddChannel, ListInv, TypeOK, data, entries, None
  <1> HIDE DEF o
  <1>2. CASE UNCHANGED <<list, long>>
    <2>1. Unique' /\ RowsListed' /\ InOrder'
      BY <1>1, <1>2 DEF ListInv, Unique, RowsListed, InOrder
    <2>2. MarksAgree'
      BY <1>1, <1>2, SameMarks DEF ListInv, MarksAgree
    <2>3. AddedAgree'
      <3> SUFFICES ASSUME NEW h \in Adders, NEW q \in 1..made, adding'[h] = q
                   PROVE  Fits(q)'
        BY <1>1 DEF AddedAgree
      <3>1. adding[h] = q
        BY <1>1, ListedMade DEF ListInv, None
      <3>2. Fits(q)
        BY <3>1 DEF AddedAgree, ListInv
      <3> QED
        BY <1>1, <1>2, <3>2, SameMarks DEF Fits, InList
    <2> QED
      BY <2>1, <2>2, <2>3 DEF ListInv
  <1>3. CASE ~InList(chan[o]) /\ SortInto(Listed(list) \cup {o})
    <2> DEFINE S == Listed(list) \cup {o}
    <2>1. S \in SUBSET (1..made) /\ Listed(list) \subseteq S
      BY <1>1, ListedMade DEF ListInv
    <2>2. \A p, q \in S : chan[p] = chan[q] => p = q
      BY <1>3 DEF InList, ListInv, Unique
    <2>3. ASSUME NEW p \in S, Undisturbed(p)
          PROVE  Agrees(p) <=> ~(doing' = "flag" /\ p = current)
      <3>1. CASE p \in Listed(list)
        BY <1>1, <2>3, <3>1 DEF ListInv, MarksAgree
      <3>2. CASE p = o
        <4>1. Agrees(o)
          BY <1>1, <1>3, <2>3, <3>2 DEF ListInv, AddedAgree, Fits, o
        <4>2. current # o
          BY <1>1, <1>3, <2>3, <3>2 DEF ListInv, RowsListed, InList, Undisturbed
        <4> QED
          BY <3>2, <4>1, <4>2
      <3> QED
        BY <3>1, <3>2
    <2>4. SortInto(S)
      BY <1>3
    <2>5. rows' \subseteq rows \cup Listed(list)
      BY <1>1
    <2> HIDE DEF S
    <2> QED
      BY <1>1, <2>1, <2>2, <2>3, <2>4, <2>5, SortedInv
  <1> QED
    BY <1>2, <1>3 DEF AddChannel, o

\* The mark of the open chat changes at last.
LEMMA FlagFacts ==
    ASSUME ListInv, doing = "flag", fav' = [fav EXCEPT ![current] = ~ @],
           UNCHANGED <<made, chan, ld, failed, gone>>
    PROVE  /\ current # None /\ current \in 1..made
           /\ \A o \in 1..made : /\ Undisturbed(o)' <=> Undisturbed(o)
                                 /\ o # current => (Agrees(o)' <=> Agrees(o))
                                 /\ o = current => (Agrees(o)' <=> ~Agrees(o))
           /\ \A o \in Listed(list) : Undisturbed(o) => Agrees(o)'
           /\ Undisturbed(current) => current \in Listed(list)
  <1>1. current # None /\ current \in 1..made /\ 1..made \subseteq Objects
    BY DEF ListInv, TypeOK, None, Objects
  <1>2. \A o \in 1..made : /\ o # current => fav'[o] = fav[o]
                           /\ o = current => fav'[o] = ~fav[o]
    BY <1>1 DEF ListInv, TypeOK
  <1>3. ASSUME NEW o \in 1..made
        PROVE  /\ Undisturbed(o)' <=> Undisturbed(o)
               /\ o # current => (Agrees(o)' <=> Agrees(o))
               /\ o = current => (Agrees(o)' <=> ~Agrees(o))
    <2>1. Undisturbed(o)' <=> Undisturbed(o)
      BY DEF Undisturbed
    <2>2. Favorite(o)' <=> Favorite(o)
      BY DEF Favorite
    <2>3. o # current => (Agrees(o)' <=> Agrees(o))
      BY <1>2, <2>2 DEF Agrees
    <2>4. o = current => (Agrees(o)' <=> ~Agrees(o))
      BY <1>2, <2>2 DEF Agrees
    <2> QED
      BY <2>1, <2>3, <2>4
  <1>4. \A o \in Listed(list) : Undisturbed(o) => Agrees(o)'
    <2> SUFFICES ASSUME NEW o \in Listed(list), Undisturbed(o) PROVE Agrees(o)'
      OBVIOUS
    <2>1. o \in 1..made
      BY ListedMade DEF ListInv
    <2>2. Agrees(o) <=> o # current
      BY DEF ListInv, MarksAgree
    <2> QED
      BY <1>3, <2>1, <2>2
  <1>5. Undisturbed(current) => current \in Listed(list)
    BY <1>1 DEF ListInv, RowsListed, Undisturbed
  <1> QED
    BY <1>1, <1>3, <1>4, <1>5

\* What goroutines hold fits still when the mark of the open chat changes.
LEMMA FlagFits ==
    ASSUME ListInv, doing = "flag", fav' = [fav EXCEPT ![current] = ~ @],
           UNCHANGED <<made, chan, ld, failed, gone>>,
           Listed(list) \subseteq Listed(list')
    PROVE  \A o \in 1..made : Fits(o) => Fits(o)'
  <1> SUFFICES ASSUME NEW o \in 1..made, Fits(o) PROVE Fits(o)'
    OBVIOUS
  <1>1. \A q \in Listed(list) : InList(chan[q])'
    BY DEF InList
  <1>2. InList(chan[o]) => InList(chan[o])'
    BY <1>1 DEF InList
  <1>3. CASE o = current
    BY <1>1, <1>3, FlagFacts DEF Fits
  <1>4. CASE o # current
    BY <1>2, <1>4, FlagFacts DEF Fits
  <1> QED
    BY <1>3, <1>4

LEMMA AddWhileFlagInv ==
    ASSUME ListInv, TypeOK', NEW g \in Adders, AddWhileFlag(g)
    PROVE  ListInv'
  <1> DEFINE S == Listed(list) \cup {adding[g]}
  <1>1. /\ doing = "flag" /\ doing' = "sort"
        /\ fav' = [fav EXCEPT ![current] = ~ @]
        /\ UNCHANGED <<made, chan, ld, failed, gone, rows, current>>
        /\ adding[g] \in 1..made /\ ~InList(chan[adding[g]])
        /\ \A h \in Adders : adding'[h] \in {adding[h], None}
        /\ list' \in [1..Cardinality(S) -> S] /\ Listed(list') = S
    <2>1. /\ doing = "flag" /\ doing' = "sort"
          /\ fav' = [fav EXCEPT ![current] = ~ @]
          /\ UNCHANGED <<made, chan, ld, failed, gone, rows, current>>
          /\ adding[g] # None /\ ~InList(chan[adding[g]])
          /\ adding' = [adding EXCEPT ![g] = None]
      BY DEF AddWhileFlag, data
    <2>2. adding[g] \in 1..made /\ \A h \in Adders : adding'[h] \in {adding[h], None}
      BY <2>1 DEF ListInv, TypeOK, None
    <2>3. list' \in [1..Cardinality(S) -> S] /\ Listed(list') = S
      BY DEF AddWhileFlag
    <2> QED
      BY <2>1, <2>2, <2>3
  <1>2. S \in SUBSET (1..made) /\ made \in Nat
    BY <1>1, ListedMade DEF ListInv
  <1>3. \A i, j \in DOMAIN list' : i # j => list'[i] # list'[j]
    <2> HIDE DEF S
    <2> QED
      BY <1>1, <1>2, Arranged
  <1>4. \A o, q \in S : chan[o] = chan[q] => o = q
    BY <1>1 DEF InList, ListInv, Unique
  <1>5. Unique'
    BY <1>1, <1>3, <1>4 DEF Unique
  <1>6. RowsListed'
    BY <1>1 DEF RowsListed, ListInv
  <1>7. MarksAgree'
    <2> SUFFICES ASSUME NEW o \in S, Undisturbed(o)' PROVE Agrees(o)'
      BY <1>1 DEF MarksAgree
    <2>1. Undisturbed(o) /\ o \in 1..made
      BY <1>1, <1>2 DEF Undisturbed
    <2>2. CASE o \in Listed(list)
      BY <1>1, <2>1, <2>2, FlagFacts
    <2>3. CASE o = adding[g]
      <3>1. Agrees(o)
        BY <1>1, <2>1, <2>3 DEF ListInv, AddedAgree, Fits
      <3>2. o # current
        BY <1>1, <2>1, <2>3, FlagFacts DEF InList
      <3> QED
        BY <1>1, <2>1, <3>1, <3>2, FlagFacts
    <2> QED
      BY <2>2, <2>3
  <1>8. AddedAgree'
    <2> SUFFICES ASSUME NEW h \in Adders, NEW o \in 1..made, adding'[h] = o
                 PROVE  Fits(o)'
      BY <1>1 DEF AddedAgree
    <2>1. adding[h] = o
      BY <1>1, <1>2 DEF None
    <2>2. Fits(o)
      BY <2>1 DEF AddedAgree, ListInv
    <2> QED
      BY <1>1, <2>2, FlagFits
  <1>9. InOrder'
    BY <1>1 DEF InOrder
  <1> QED
    BY <1>5, <1>6, <1>7, <1>8, <1>9 DEF ListInv

LEMMA FlagInv ==
    ASSUME ListInv, TypeOK', Flag
    PROVE  ListInv'
  <1>1. /\ doing = "flag" /\ doing' = "sort"
        /\ fav' = [fav EXCEPT ![current] = ~ @]
        /\ UNCHANGED <<made, chan, ld, failed, gone, rows, current, list, adding>>
    BY DEF Flag, data
  <1>2. Unique' /\ RowsListed' /\ InOrder'
    BY <1>1 DEF ListInv, Unique, RowsListed, InOrder
  <1>3. MarksAgree'
    <2> SUFFICES ASSUME NEW o \in Listed(list), Undisturbed(o)' PROVE Agrees(o)'
      BY <1>1 DEF MarksAgree
    <2>1. Undisturbed(o)
      BY <1>1 DEF Undisturbed
    <2> QED
      BY <1>1, <2>1, FlagFacts
  <1>4. AddedAgree'
    BY <1>1, FlagFits DEF ListInv, AddedAgree
  <1> QED
    BY <1>2, <1>3, <1>4 DEF ListInv

LEMMA SortChannelsInv ==
    ASSUME ListInv, TypeOK', SortChannels
    PROVE  ListInv'
  <1>1. /\ doing = "sort" /\ doing' = "idle"
        /\ UNCHANGED <<made, chan, fav, ld, failed, gone, current, adding>>
        /\ rows' = Listed(list) /\ SortInto(Listed(list))
    BY DEF SortChannels, data, entries
  <1>2. Listed(list) \in SUBSET (1..made)
    BY ListedMade DEF ListInv
  <1>3. \A o, q \in Listed(list) : chan[o] = chan[q] => o = q
    BY DEF ListInv, Unique
  <1>4. \A o \in Listed(list) :
           Undisturbed(o) => (Agrees(o) <=> ~(doing' = "flag" /\ o = current))
    BY <1>1 DEF ListInv, MarksAgree
  <1> QED
    BY <1>1, <1>2, <1>3, <1>4, SortedInv

\* The pages change, and neither the list nor any mark.
LEMMA PagesInv ==
    ASSUME ListInv, TypeOK', Redraw \/ Open \/ Leave \/ SaveOther
    PROVE  ListInv'
  <1>1. /\ UNCHANGED <<made, chan, fav, ld, failed, gone, list, adding, doing, long>>
        /\ doing = "idle"
    BY DEF Redraw, Open, Leave, SaveOther, data, entries
  <1>2. Unique' /\ InOrder'
    BY <1>1 DEF ListInv, Unique, InOrder
  <1>3. RowsListed'
    BY <1>1 DEF ListInv, RowsListed, Redraw, Open, Leave, SaveOther
  <1>4. MarksAgree'
    BY <1>1, SameMarks DEF ListInv, MarksAgree
  <1>5. AddedAgree'
    BY <1>1, SameMarks DEF ListInv, AddedAgree, Fits, InList
  <1> QED
    BY <1>2, <1>3, <1>4, <1>5 DEF ListInv

\* A decision that is no favourite leaves the marks of local data alone.
LEMMA OtherDecision ==
    ASSUME NEW d, Set(d) \/ Unset(d) \/ SetFails(d) \/ UnsetFails(d)
    PROVE  \A e : e # d => (e \in ld' <=> e \in ld) /\ (e \in failed' <=> e \in failed)
  BY DEF Set, Unset, SetFails, UnsetFails, SetLocalData, SaveFails

LEMMA BlockParticipantInv ==
    ASSUME ListInv, TypeOK', NEW u \in Users, BlockParticipant(u)
    PROVE  ListInv'
  <1>1. UNCHANGED <<made, chan, fav, gone, list, adding, rows, current, doing, long>>
    BY DEF BlockParticipant, entries
  <1>2. \A c : /\ <<"favorite", c>> \in ld' <=> <<"favorite", c>> \in ld
               /\ <<"favorite", c>> \in failed' <=> <<"favorite", c>> \in failed
    <2> TAKE c
    <2>1. <<"favorite", c>> # <<"blocked", u>>
      OBVIOUS
    <2> QED
      BY <2>1, OtherDecision DEF BlockParticipant
  <1>3. \A o : (Undisturbed(o)' <=> Undisturbed(o)) /\ (Agrees(o)' <=> Agrees(o))
    BY <1>1, <1>2 DEF Undisturbed, Agrees, Favorite
  <1>4. Unique' /\ InOrder' /\ RowsListed'
    BY <1>1 DEF ListInv, Unique, InOrder, RowsListed
  <1>5. MarksAgree'
    BY <1>1, <1>3 DEF ListInv, MarksAgree
  <1>6. AddedAgree'
    BY <1>1, <1>3 DEF ListInv, AddedAgree, Fits, InList
  <1> QED
    BY <1>4, <1>5, <1>6 DEF ListInv

LEMMA MarkFavoriteInv ==
    ASSUME ListInv, TypeOK', MarkFavorite
    PROVE  ListInv'
  <1> DEFINE d == <<"favorite", chan[current]>>
  <1>1. /\ UNCHANGED <<made, chan, fav, gone, list, adding, rows, current, long>>
        /\ doing = "idle" /\ current # None /\ current \in 1..made
    BY DEF MarkFavorite, entries, ListInv, TypeOK, None
  <1>2. ASSUME NEW o, chan[o] # chan[current]
        PROVE  (Undisturbed(o)' <=> Undisturbed(o)) /\ (Agrees(o)' <=> Agrees(o))
    <2> DEFINE e == <<"favorite", chan[o]>>
    <2>1. e # d
      BY <1>2
    <2>2. Set(d) \/ Unset(d) \/ SetFails(d) \/ UnsetFails(d)
      BY DEF MarkFavorite
    <2> HIDE DEF d
    <2>3. (e \in ld' <=> e \in ld) /\ (e \in failed' <=> e \in failed)
      BY <2>1, <2>2, OtherDecision
    <2> QED
      BY <1>1, <2>3 DEF Undisturbed, Agrees, Favorite
  <1>3. /\ doing' = "flag" \/ doing' = "idle"
        /\ doing' = "idle" => d \in failed'
        /\ doing' = "flag" => (d \in ld' <=> ~fav[current])
    BY DEF MarkFavorite, Set, Unset, SetFails, UnsetFails, SetLocalData, SaveFails
  <1>4. \A o : o = current /\ Undisturbed(o)' => doing' = "flag" /\ ~Agrees(o)'
    BY <1>1, <1>3 DEF Undisturbed, Agrees, Favorite
  <1>5. chan[current] \notin gone => current \in Listed(list)
    BY <1>1 DEF ListInv, RowsListed
  <1>6. Unique' /\ InOrder' /\ RowsListed'
    BY <1>1, <1>3 DEF ListInv, Unique, InOrder, RowsListed
  <1>7. MarksAgree'
    <2> SUFFICES ASSUME NEW o \in Listed(list), Undisturbed(o)'
                 PROVE  Agrees(o)' <=> ~(doing' = "flag" /\ o = current)
      BY <1>1 DEF MarksAgree
    <2>1. CASE o = current
      BY <1>4, <2>1
    <2>2. CASE o # current
      <3>1. chan[o] \notin gone
        BY <1>1 DEF Undisturbed
      <3>2. chan[o] # chan[current]
        BY <1>5, <2>2, <3>1 DEF ListInv, Unique
      <3> QED
        BY <1>1, <1>2, <2>2, <3>2 DEF ListInv, MarksAgree
    <2> QED
      BY <2>1, <2>2
  <1>8. AddedAgree'
    <2> SUFFICES ASSUME NEW h \in Adders, NEW o \in 1..made, adding[h] = o
                 PROVE  Fits(o)'
      BY <1>1 DEF AddedAgree
    <2>1. Fits(o)
      BY DEF AddedAgree, ListInv
    <2>2. CASE chan[o] = chan[current]
      BY <1>1, <1>5, <2>2 DEF Fits, InList, Undisturbed
    <2>3. CASE chan[o] # chan[current]
      BY <1>1, <1>2, <2>1, <2>3 DEF Fits, InList
    <2> QED
      BY <2>2, <2>3
  <1> QED
    BY <1>6, <1>7, <1>8 DEF ListInv

\* Channel c leaves the list.
LEMMA UnlistInv ==
    ASSUME ListInv, TypeOK', NEW c \in Channels, Unlist(c),
           UNCHANGED <<made, chan, fav, adding, rows, doing, long>>, doing = "idle",
           \A o : /\ <<"favorite", chan[o]>> \in ld' <=> <<"favorite", chan[o]>> \in ld
                  /\ <<"favorite", chan[o]>> \in failed' <=> <<"favorite", chan[o]>> \in failed
    PROVE  ListInv'
  <1>1. Without(list', list, chan, c)
    BY UnlistedList DEF ListInv
  <1>2. gone' = gone \cup {c} /\ current' = None
    BY DEF Unlist
  <1>3. \A o : /\ Undisturbed(o)' <=> Undisturbed(o) /\ chan[o] # c
               /\ Agrees(o)' <=> Agrees(o)
    BY <1>2 DEF Undisturbed, Agrees, Favorite
  <1>4. Listed(list') = { o \in Listed(list) : chan[o] # c }
    BY <1>1 DEF Without
  <1>5. ASSUME NEW i \in DOMAIN list', NEW j \in DOMAIN list', i < j
        PROVE  /\ list'[i] # list'[j]
               /\ fav[list'[j]] => fav[list'[i]]
               /\ (fav[list'[i]] <=> fav[list'[j]]) /\ ~long' => list'[i] < list'[j]
    <2>1. PICK k \in DOMAIN list, m \in DOMAIN list :
                  k < m /\ list'[i] = list[k] /\ list'[j] = list[m]
      BY <1>1, <1>5 DEF Without
    <2>2. k # m
      BY <2>1, ListedMade DEF ListInv
    <2> QED
      BY <2>1, <2>2 DEF ListInv, Unique, InOrder
  <1>6. Unique'
    <2>1. list' \in Seq(1..made')
      BY DEF TypeOK
    <2>2. \A i, j \in DOMAIN list' : i # j => i < j \/ j < i
      BY <2>1
    <2>3. \A i, j \in DOMAIN list' : i # j => list'[i] # list'[j]
      BY <1>5, <2>2
    <2> QED
      BY <1>4, <2>3 DEF ListInv, Unique
  <1>7. InOrder'
    BY <1>5 DEF InOrder
  <1>8. RowsListed'
    BY <1>2, <1>4 DEF ListInv, RowsListed
  <1>9. MarksAgree'
    BY <1>3, <1>4 DEF ListInv, MarksAgree
  <1>10. AddedAgree'
    <2> SUFFICES ASSUME NEW h \in Adders, NEW o \in 1..made, adding[h] = o
                 PROVE  Fits(o)'
      BY DEF AddedAgree
    <2>1. Fits(o)
      BY DEF AddedAgree, ListInv
    <2>2. InList(chan[o]) => InList(chan[o])' \/ chan[o] = c
      BY <1>4 DEF InList
    <2> QED
      BY <1>3, <2>1, <2>2 DEF Fits
  <1> QED
    BY <1>6, <1>7, <1>8, <1>9, <1>10 DEF ListInv

LEMMA DeleteChatInv ==
    ASSUME ListInv, TypeOK', DeleteChat
    PROVE  ListInv'
  <1> DEFINE c == chan[current]
             d == <<"deleted", c>>
  <1>1. /\ UNCHANGED <<made, chan, fav, adding, rows, doing, long>>
        /\ doing = "idle" /\ c \in Channels
        /\ Unlist(c) \/ UNCHANGED <<list, gone, current>>
        /\ Set(d) \/ SetFails(d)
    <2>1. current \in 1..made
      BY DEF DeleteChat, ListInv, TypeOK, None
    <2> QED
      BY <2>1, ChannelOf DEF DeleteChat, entries, ListInv
  <1>2. \A e : /\ <<"favorite", e>> \in ld' <=> <<"favorite", e>> \in ld
               /\ <<"favorite", e>> \in failed' <=> <<"favorite", e>> \in failed
    <2> TAKE e
    <2>1. <<"favorite", e>> # d
      OBVIOUS
    <2> HIDE DEF d
    <2> QED
      BY <1>1, <2>1, OtherDecision
  <1>3. CASE Unlist(c)
    BY <1>1, <1>2, <1>3, UnlistInv
  <1>4. CASE UNCHANGED <<list, gone, current>>
    <2>1. \A o : (Undisturbed(o)' <=> Undisturbed(o)) /\ (Agrees(o)' <=> Agrees(o))
      BY <1>1, <1>2, <1>4 DEF Undisturbed, Agrees, Favorite
    <2>2. Unique' /\ InOrder' /\ RowsListed'
      BY <1>1, <1>4 DEF ListInv, Unique, InOrder, RowsListed
    <2>3. MarksAgree'
      BY <1>1, <1>4, <2>1 DEF ListInv, MarksAgree
    <2>4. AddedAgree'
      BY <1>1, <1>4, <2>1 DEF ListInv, AddedAgree, Fits, InList
    <2> QED
      BY <2>2, <2>3, <2>4 DEF ListInv
  <1> QED
    BY <1>1, <1>3, <1>4

LEMMA RestartInv ==
    ASSUME TypeOK', Restart
    PROVE  ListInv'
  <1>1. list' = <<>> /\ rows' = {} /\ current' = None /\ made' = 0
    BY DEF Restart
  <1>2. DOMAIN list' = {} /\ Listed(list') = {} /\ 1..made' = {}
    BY <1>1 DEF Listed
  <1> QED
    BY <1>1, <1>2 DEF ListInv, Unique, RowsListed, MarksAgree, AddedAgree, InOrder

LEMMA ListInvStep == ListInv /\ [Next]_vars => ListInv'
  <1> SUFFICES ASSUME ListInv, [Next]_vars PROVE ListInv'
    OBVIOUS
  <1>1. TypeOK'
    BY TypeStep DEF ListInv
  <1>2. CASE Goroutines
    BY <1>1, <1>2, MakeInv, AddChannelInv, AddWhileFlagInv DEF Goroutines
  <1>3. CASE Window
    BY <1>1, <1>3, PagesInv, MarkFavoriteInv, FlagInv, SortChannelsInv, DeleteChatInv,
       BlockParticipantInv DEF Window
  <1>4. CASE Restart
    BY <1>1, <1>4, RestartInv
  <1>5. CASE UNCHANGED vars
    <2>1. UNCHANGED <<made, chan, fav, ld, failed, gone, list, adding, rows, current,
                      doing, long>>
      BY <1>5 DEF vars, data, entries
    <2>2. Unique' /\ InOrder' /\ RowsListed'
      BY <2>1 DEF ListInv, Unique, InOrder, RowsListed
    <2>3. MarksAgree' /\ AddedAgree'
      BY <2>1, SameMarks DEF ListInv, MarksAgree, AddedAgree, Fits, InList
    <2> QED
      BY <1>1, <2>2, <2>3 DEF ListInv
  <1> QED
    BY <1>2, <1>3, <1>4, <1>5 DEF Next

\* The page has a channel once, favourites first and then by time, however
\* goroutines add and dialogs mark, delete and sort (channels.go:47-118,
\* windows_render.go:79-129).
THEOREM ListInOrderAlways == Spec => []ListInOrder
  <1>1. ListInv => ListInOrder
    <2> SUFFICES ASSUME ListInv, doing = "idle",
                        NEW i \in DOMAIN list, NEW j \in DOMAIN list, i < j
                 PROVE  /\ chan[list[i]] # chan[list[j]]
                        /\ (Undisturbed(list[i]) /\ Undisturbed(list[j])) =>
                              /\ Favorite(list[j]) => Favorite(list[i])
                              /\ (Favorite(list[i]) <=> Favorite(list[j])) /\ ~long
                                    => list[i] < list[j]
      BY DEF ListInOrder
    <2>1. i # j /\ list[i] \in Listed(list) /\ list[j] \in Listed(list)
      BY ListedMade DEF ListInv, Listed
    <2>2. chan[list[i]] # chan[list[j]]
      BY <2>1 DEF ListInv, Unique
    <2>3. /\ Undisturbed(list[i]) => Agrees(list[i])
          /\ Undisturbed(list[j]) => Agrees(list[j])
      BY <2>1 DEF ListInv, MarksAgree
    <2>4. /\ fav[list[j]] => fav[list[i]]
          /\ (fav[list[i]] <=> fav[list[j]]) /\ ~long => list[i] < list[j]
      BY DEF ListInv, InOrder
    <2> QED
      BY <2>2, <2>3, <2>4 DEF Agrees
  <1> QED
    BY <1>1, ListInvInit, ListInvStep, PTL DEF Spec
=============================================================================
