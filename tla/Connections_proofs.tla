------------------------- MODULE Connections_proofs -------------------------
(***************************************************************************)
(* Proofs about Connections, for any identifiers and any number of         *)
(* objects, failed saves and restarts.                                     *)
(***************************************************************************)
EXTENDS Connections, TLAPS

USE ConnectionsAssumption

-----------------------------------------------------------------------------
(* The list. *)

\* A start makes the first object of each connection.
LEMMA FirstObjects ==
    ASSUME NEW ids \in SUBSET Ids
    PROVE  /\ First(ids) \in [Ids -> Objects \cup {None}]
           /\ \A id \in Ids : /\ id \in ids <=> First(ids)[id] # None
                              /\ First(ids)[id] \in Nat
  BY DEF First, Objects, None

\* A list that is built again has an object for each connection and for
\* nothing else, and keeps those it had.
LEMMA ListBuilt ==
    ASSUME TypeOK, NEW ids \in SUBSET Ids, MapConnectsToList(ids)
    PROVE  /\ list' \in [Ids -> Objects \cup {None}]
           /\ made' \in [Ids -> Objects \cup {0}]
           /\ \A id \in Ids :
                 /\ list'[id] <= made'[id]
                 /\ id \in ids <=> list'[id] # None
                 /\ id \in ids /\ list[id] # None => list'[id] = list[id]
  <1>1. /\ list \in [Ids -> Objects \cup {None}] /\ made \in [Ids -> Objects \cup {0}]
        /\ \A id \in Ids : list[id] <= made[id]
    BY DEF TypeOK
  <1>2. ASSUME NEW id \in Ids, id \in ids, list[id] = None
        PROVE  /\ made'[id] \in Objects /\ list'[id] = made'[id]
               /\ list'[id] \in Nat /\ list'[id] # None
    BY <1>1, <1>2 DEF MapConnectsToList, Objects, None
  <1>3. ASSUME NEW id \in Ids, id \notin ids \/ list[id] # None
        PROVE  /\ made'[id] = made[id]
               /\ list'[id] = IF id \in ids THEN list[id] ELSE None
    BY <1>3 DEF MapConnectsToList
  <1>4. /\ DOMAIN list' = Ids /\ list' = [id \in Ids |-> list'[id]]
        /\ DOMAIN made' = Ids /\ made' = [id \in Ids |-> made'[id]]
    BY DEF MapConnectsToList
  <1>5. \A id \in Ids :
           /\ list'[id] \in Objects \cup {None} /\ made'[id] \in Objects \cup {0}
           /\ list'[id] <= made'[id]
           /\ id \in ids <=> list'[id] # None
           /\ id \in ids /\ list[id] # None => list'[id] = list[id]
    <2> TAKE id \in Ids
    <2>1. CASE id \in ids /\ list[id] = None
      BY <1>2, <2>1
    <2>2. CASE id \notin ids \/ list[id] # None
      BY <1>1, <1>3, <2>2 DEF Objects, None
    <2> QED
      BY <2>1, <2>2
  <1> QED
    BY <1>4, <1>5

-----------------------------------------------------------------------------
(* Types. *)

\* What a change of the connections does to the copies and the histories.
LEMMA TypeSave ==
    ASSUME TypeOK, NEW id \in Ids, ld' \subseteq Ids, SaveAndList \/ SaveFails(id)
    PROVE  /\ saved' \subseteq Ids /\ faults' \in 0..MaxFaults
           /\ list' \in [Ids -> Objects \cup {None}]
           /\ made' \in [Ids -> Objects \cup {0}]
           /\ \A i \in Ids : list'[i] <= made'[i]
           /\ unsaved' \subseteq Ids /\ unlisted' \subseteq Ids
  <1>1. CASE SaveAndList
    BY <1>1, ListBuilt DEF SaveAndList, TypeOK
  <1>2. CASE SaveFails(id)
    BY <1>2 DEF SaveFails, TypeOK
  <1> QED
    BY <1>1, <1>2

\* The steps of the window keep the types.
LEMMA TypeWindow == ASSUME TypeOK, Window PROVE TypeOK'
  <1>1. ASSUME NEW id \in Ids, AddConnection(id) PROVE TypeOK'
    <2>1. ld' \subseteq Ids /\ id \in ld'
      BY <1>1 DEF AddConnection, TypeOK
    <2>2. authed' \subseteq Ids \X Objects
      <3>1. CASE SaveAndList /\ Authorize(id)
        <4>1. list'[id] \in Objects
          BY <2>1, <3>1, ListBuilt DEF SaveAndList
        <4>2. authed \subseteq Ids \X Objects
          BY DEF TypeOK
        <4> QED
          BY <3>1, <4>1, <4>2 DEF Authorize
      <3> QED
        BY <1>1, <3>1 DEF AddConnection, TypeOK
    <2>3. SaveAndList \/ SaveFails(id)
      BY <1>1 DEF AddConnection
    <2> QED
      BY <1>1, <2>1, <2>2, <2>3, TypeSave DEF AddConnection, TypeOK, loops
  <1>2. ASSUME NEW id \in Ids, FindConnection(id) PROVE TypeOK'
    <2>1. list'[id] \in Objects /\ authed \subseteq Ids \X Objects
      BY <1>2 DEF FindConnection, TypeOK
    <2>2. authed' \subseteq Ids \X Objects
      BY <1>2, <2>1 DEF FindConnection, Authorize
    <2> QED
      BY <1>2, <2>2 DEF FindConnection, TypeOK, loops, history
  <1>3. ASSUME NEW id \in Ids, DelConnection(id) PROVE TypeOK'
    <2>1. ld' \subseteq Ids /\ deleted' \subseteq Ids
      BY <1>3 DEF DelConnection, TypeOK
    <2>2. SaveAndList \/ SaveFails(id)
      BY <1>3 DEF DelConnection
    <2> QED
      BY <1>3, <2>1, <2>2, TypeSave DEF DelConnection, TypeOK, loops
  <1>4. CASE SaveOther
    BY <1>4 DEF SaveOther, TypeOK, loops
  <1> QED
    BY <1>1, <1>2, <1>3, <1>4 DEF Window

\* Those of the loops and their goroutines do.
LEMMA TypeGoroutines == ASSUME TypeOK, Goroutines PROVE TypeOK'
  <1>0. /\ gos \subseteq Loops \X Ids \X Objects \X {"head", "busy"}
        /\ authed \subseteq Ids \X Objects
        /\ mapper \in [Loops -> SUBSET Ids]
        /\ list \in [Ids -> Objects \cup {None}]
    BY DEF TypeOK
  <1>1. ASSUME gos' \subseteq Loops \X Ids \X Objects \X {"head", "busy"},
               authed' \subseteq Ids \X Objects,
               mapper' \in [Loops -> SUBSET Ids],
               UNCHANGED <<copies, faults, restarts, history>>
        PROVE  TypeOK'
    BY <1>1 DEF TypeOK, copies, history
  <1>2. ASSUME NEW l \in Loops, StartGoroutines(l) PROVE TypeOK'
    <2> DEFINE new == { id \in Ids \ mapper[l] : list[id] # None }
    <2>1. \A id \in new : <<l, id, list[id], "head">> \in Loops \X Ids \X Objects \X {"head", "busy"}
      BY <1>0
    <2>2. /\ gos' = gos \cup { <<l, id, list[id], "head">> : id \in new }
          /\ mapper' = [mapper EXCEPT ![l] = @ \cup new]
          /\ UNCHANGED <<copies, authed, faults, restarts, history>>
      BY <1>2 DEF StartGoroutines
    <2>3. mapper' \in [Loops -> SUBSET Ids]
      BY <1>0, <2>2
    <2> QED
      BY <1>0, <1>1, <2>1, <2>2, <2>3
  <1>3. ASSUME NEW id \in Ids, NEW o \in Objects, Check(id, o) \/ NextRound(id, o)
        PROVE  TypeOK'
    <2>1. \A p \in {"head", "busy"} : <<"channels", id, o, p>> \in Loops \X Ids \X Objects \X {"head", "busy"}
      BY DEF Loops
    <2>2. gos' \subseteq gos \cup { <<"channels", id, o, p>> : p \in {"head", "busy"} }
      BY <1>3 DEF Check, NextRound
    <2>3. UNCHANGED <<copies, mapper, authed, faults, restarts, history>>
      BY <1>3 DEF Check, NextRound
    <2> QED
      BY <1>0, <1>1, <2>1, <2>2, <2>3
  <1>4. ASSUME NEW id \in Ids, NEW o \in Objects, Register(id, o) PROVE TypeOK'
    BY <1>0, <1>1, <1>4 DEF Register
  <1> QED
    BY <1>2, <1>3, <1>4 DEF Goroutines

LEMMA TypeRestart == ASSUME TypeOK, Restart PROVE TypeOK'
  <1>0. \A x \in Nat : x <= x
    OBVIOUS
  <1>1. /\ list' \in [Ids -> Objects \cup {None}] /\ made' \in [Ids -> Objects \cup {0}]
        /\ \A id \in Ids : list'[id] <= made'[id]
    BY <1>0, FirstObjects DEF Restart, TypeOK, None
  <1>2. mapper' \in [Loops -> SUBSET Ids]
    BY DEF Restart
  <1>3. restarts' \in 0..MaxRestarts
    BY DEF Restart, TypeOK
  <1>4. /\ saved' \subseteq Ids /\ ld' \subseteq Ids /\ gos' = {} /\ authed' = {}
        /\ faults' \in 0..MaxFaults /\ unsaved' = {} /\ unlisted' = {} /\ deleted' = {}
    BY DEF Restart, TypeOK
  <1> QED
    BY <1>1, <1>2, <1>3, <1>4 DEF TypeOK

LEMMA TypeStep == TypeOK /\ [Next]_vars => TypeOK'
  <1>1. ASSUME TypeOK, UNCHANGED vars PROVE TypeOK'
    BY <1>1 DEF TypeOK, vars, copies, loops, history
  <1> QED
    BY <1>1, TypeWindow, TypeGoroutines, TypeRestart DEF Next

LEMMA TypeInit == Init => TypeOK
  <1> SUFFICES ASSUME Init PROVE TypeOK
    OBVIOUS
  <1>0. \A x \in Nat : x <= x
    OBVIOUS
  <1>1. /\ list \in [Ids -> Objects \cup {None}] /\ made \in [Ids -> Objects \cup {0}]
        /\ \A id \in Ids : list[id] <= made[id]
    BY <1>0, FirstObjects DEF Init, None
  <1> QED
    BY <1>1 DEF Init, TypeOK

\* Every variable has its type in every behaviour, and every goroutine and
\* token belongs to an object that was made.
THEOREM TypeCorrect == Spec => []TypeOK
  BY TypeInit, TypeStep, PTL DEF Spec

-----------------------------------------------------------------------------
(* File, memory and list. *)

LEMMA CopiesStep == TypeOK /\ CopiesAgree /\ [Next]_vars => CopiesAgree'
  <1> SUFFICES ASSUME TypeOK, CopiesAgree, [Next]_vars PROVE CopiesAgree'
    OBVIOUS
  <1>1. ASSUME ld' \subseteq Ids, SaveAndList PROVE CopiesAgree'
    BY <1>1, ListBuilt DEF SaveAndList, CopiesAgree
  <1>2. ASSUME NEW id \in Ids, SaveFails(id), \A j \in Ids \ {id} : j \in ld' <=> j \in ld
        PROVE  CopiesAgree'
    BY <1>2 DEF SaveFails, CopiesAgree
  <1>3. ASSUME NEW id \in Ids, AddConnection(id) \/ DelConnection(id) PROVE CopiesAgree'
    <2>1. ld' \subseteq Ids /\ \A j \in Ids \ {id} : j \in ld' <=> j \in ld
      BY <1>3 DEF AddConnection, DelConnection, TypeOK
    <2> QED
      BY <1>1, <1>2, <1>3, <2>1 DEF AddConnection, DelConnection
  <1>4. CASE SaveOther
    BY <1>4 DEF SaveOther, CopiesAgree
  <1>5. CASE Restart
    BY <1>5, FirstObjects DEF Restart, CopiesAgree, TypeOK
  <1>6. ASSUME UNCHANGED <<ld, saved, list, unsaved, unlisted>> PROVE CopiesAgree'
    BY <1>6 DEF CopiesAgree
  <1>7. ASSUME NEW id \in Ids, FindConnection(id) PROVE CopiesAgree'
    BY <1>6, <1>7 DEF FindConnection, history
  <1>8. CASE Goroutines \/ UNCHANGED vars
    BY <1>6, <1>8 DEF Goroutines, StartGoroutines, Check, NextRound, Register, vars,
       copies, history
  <1> QED
    BY <1>3, <1>4, <1>5, <1>7, <1>8 DEF Next, Window

\* The three copies differ only in what could not be saved, in every
\* behaviour.
THEOREM CopiesAgreeAlways == Spec => []CopiesAgree
  <1>1. Init => CopiesAgree
    BY FirstObjects DEF Init, CopiesAgree
  <1> QED
    BY <1>1, TypeInit, TypeStep, CopiesStep, PTL DEF Spec

-----------------------------------------------------------------------------
(* Goroutines. *)

\* What the list has and was not deleted, memory has; so the next list has it
\* too.
KeptInv == \A id \in Ids : list[id] # None /\ id \notin deleted => id \in ld

LEMMA KeptStep == TypeOK /\ KeptInv /\ [Next]_vars => KeptInv'
  <1> SUFFICES ASSUME TypeOK, KeptInv, [Next]_vars PROVE KeptInv'
    OBVIOUS
  <1>1. ASSUME ld' \subseteq Ids, SaveAndList PROVE KeptInv'
    BY <1>1, ListBuilt DEF SaveAndList, KeptInv
  <1>2. ASSUME NEW id \in Ids, AddConnection(id) PROVE KeptInv'
    <2>1. ld' \subseteq Ids /\ ld \subseteq ld' /\ UNCHANGED deleted
      BY <1>2 DEF AddConnection, TypeOK
    <2> QED
      BY <1>1, <1>2, <2>1 DEF AddConnection, SaveFails, KeptInv
  <1>3. ASSUME NEW id \in Ids, DelConnection(id) PROVE KeptInv'
    <2>1. ld' = ld \ {id} /\ ld' \subseteq Ids /\ deleted' = deleted \cup {id}
      BY <1>3 DEF DelConnection, TypeOK
    <2> QED
      BY <1>1, <1>3, <2>1 DEF DelConnection, SaveFails, KeptInv
  <1>4. CASE Restart
    BY <1>4, FirstObjects DEF Restart, KeptInv, TypeOK
  <1>5. ASSUME UNCHANGED <<ld, list, deleted>> PROVE KeptInv'
    BY <1>5 DEF KeptInv
  <1>6. ASSUME NEW id \in Ids, FindConnection(id) PROVE KeptInv'
    BY <1>5, <1>6 DEF FindConnection, history
  <1>7. CASE SaveOther \/ Goroutines \/ UNCHANGED vars
    BY <1>5, <1>7 DEF SaveOther, Goroutines, StartGoroutines, Check, NextRound, Register,
       vars, copies, history
  <1> QED
    BY <1>2, <1>3, <1>4, <1>6, <1>7 DEF Next, Window

\* A loop knows the identifiers it has goroutines for.
KnownInv == \A g \in gos : g[2] \in mapper[g[1]]

\* Goroutines only move or end, or start for identifiers the loop did not know.
LEMMA GoroutineStep ==
    ASSUME TypeOK, KeptInv, KnownInv, OneGoroutineEach, Goroutines
    PROVE  KnownInv' /\ OneGoroutineEach'
  <1>0. /\ gos \subseteq Loops \X Ids \X Objects \X {"head", "busy"}
        /\ mapper \in [Loops -> SUBSET Ids]
    BY DEF TypeOK
  <1>1. ASSUME NEW l \in Loops, StartGoroutines(l)
        PROVE  KnownInv' /\ OneGoroutineEach'
    <2> DEFINE new == { id \in Ids \ mapper[l] : list[id] # None }
               start == { <<l, id, list[id], "head">> : id \in new }
    <2>1. /\ gos' = gos \cup start /\ mapper' = [mapper EXCEPT ![l] = @ \cup new]
          /\ UNCHANGED <<list, deleted>>
      BY <1>1 DEF StartGoroutines, copies, history
    <2>2. \A g \in start : g[1] = l /\ g[2] \in new /\ g[3] = list[g[2]] /\ g[4] = "head"
                           /\ g = <<g[1], g[2], g[3], g[4]>>
      OBVIOUS
    <2>3. \A j \in Loops : mapper[j] \subseteq mapper'[j]
      BY <1>0, <2>1
    <2>4. mapper'[l] = mapper[l] \cup new
      BY <1>0, <2>1
    <2>5. KnownInv'
      BY <1>0, <2>1, <2>2, <2>3, <2>4 DEF KnownInv
    <2>6. \A g \in gos, h \in start : ~ (g[1] = h[1] /\ g[2] = h[2])
      BY <2>2 DEF KnownInv
    <2>7. \A g, h \in start : g[1] = h[1] /\ g[2] = h[2] => g = h
      BY <2>2
    <2>8. OneGoroutineEach'
      <3> SUFFICES ASSUME NEW g \in gos \cup start
                   PROVE  /\ \A h \in gos \cup start : g[1] = h[1] /\ g[2] = h[2] => g = h
                          /\ g[2] \notin deleted => g[3] = list[g[2]]
        BY <2>1 DEF OneGoroutineEach
      <3>1. CASE g \in gos
        BY <2>6, <3>1 DEF OneGoroutineEach
      <3>2. CASE g \in start
        BY <2>2, <2>6, <2>7, <3>2
      <3> QED
        BY <3>1, <3>2
    <2> QED
      BY <2>5, <2>8
  <1>2. ASSUME NEW g \in gos, NEW h, h[1] = g[1], h[2] = g[2], h[3] = g[3],
               gos' \subseteq (gos \ {g}) \cup {h}, UNCHANGED <<mapper, list, deleted>>
        PROVE  KnownInv' /\ OneGoroutineEach'
    <2>1. KnownInv'
      BY <1>2 DEF KnownInv
    <2>2. \A i \in gos \ {g} : ~ (i[1] = h[1] /\ i[2] = h[2])
      BY <1>2 DEF OneGoroutineEach
    <2>3. h[2] \notin deleted => h[3] = list[h[2]]
      BY <1>2 DEF OneGoroutineEach
    <2>4. OneGoroutineEach'
      BY <1>2, <2>2, <2>3 DEF OneGoroutineEach
    <2> QED
      BY <2>1, <2>4
  <1>3. ASSUME NEW id \in Ids, NEW o \in Objects, Check(id, o) \/ NextRound(id, o)
        PROVE  KnownInv' /\ OneGoroutineEach'
    <2>1. UNCHANGED <<mapper, list, deleted>>
      BY <1>3 DEF Check, NextRound, copies, history
    <2>2. PICK p, q \in {"head", "busy"} :
             /\ <<"channels", id, o, p>> \in gos
             /\ gos' \subseteq (gos \ {<<"channels", id, o, p>>}) \cup {<<"channels", id, o, q>>}
      BY <1>3 DEF Check, NextRound
    <2> QED
      BY <1>2, <2>1, <2>2
  <1>4. ASSUME NEW id \in Ids, NEW o \in Objects, Register(id, o)
        PROVE  KnownInv' /\ OneGoroutineEach'
    BY <1>4 DEF Register, KnownInv, OneGoroutineEach, copies, history
  <1> QED
    BY <1>1, <1>3, <1>4 DEF Goroutines

\* A change of the connections keeps the objects of all that were not deleted.
LEMMA WindowKeeps ==
    ASSUME TypeOK, KeptInv, Window, NEW id \in Ids, list[id] # None, id \notin deleted'
    PROVE  list'[id] = list[id] /\ id \notin deleted
  <1>1. ASSUME ld' \subseteq Ids, SaveAndList, id \in ld' PROVE list'[id] = list[id]
    BY <1>1, ListBuilt DEF SaveAndList
  <1>2. ASSUME NEW j \in Ids, AddConnection(j) PROVE list'[id] = list[id] /\ id \notin deleted
    <2>1. ld' \subseteq Ids /\ ld \subseteq ld' /\ UNCHANGED deleted
      BY <1>2 DEF AddConnection, TypeOK
    <2> QED
      BY <1>1, <1>2, <2>1 DEF AddConnection, SaveFails, KeptInv
  <1>3. ASSUME NEW j \in Ids, DelConnection(j) PROVE list'[id] = list[id] /\ id \notin deleted
    <2>1. ld' = ld \ {j} /\ ld' \subseteq Ids /\ deleted' = deleted \cup {j}
      BY <1>3 DEF DelConnection, TypeOK
    <2>2. id \notin deleted /\ id \in ld'
      BY <2>1 DEF KeptInv
    <2> QED
      BY <1>1, <1>3, <2>1, <2>2 DEF DelConnection, SaveFails
  <1>4. ASSUME NEW j \in Ids, FindConnection(j) PROVE list'[id] = list[id] /\ id \notin deleted
    BY <1>4 DEF FindConnection, history
  <1>5. CASE SaveOther
    BY <1>5 DEF SaveOther
  <1> QED
    BY <1>2, <1>3, <1>4, <1>5 DEF Window

LEMMA OneStep ==
    TypeOK /\ KeptInv /\ KnownInv /\ OneGoroutineEach /\ [Next]_vars
        => KnownInv' /\ OneGoroutineEach'
  <1> SUFFICES ASSUME TypeOK, KeptInv, KnownInv, OneGoroutineEach, [Next]_vars
               PROVE  KnownInv' /\ OneGoroutineEach'
    OBVIOUS
  <1>1. CASE Window
    <2>1. UNCHANGED <<mapper, gos>>
      BY <1>1 DEF Window, AddConnection, FindConnection, DelConnection, SaveOther, loops
    <2>2. \A g \in gos : g[2] \in Ids /\ g[3] \in Objects
      BY DEF TypeOK
    <2>3. \A g \in gos : g[2] \notin deleted' => g[3] = list'[g[2]]
      <3> SUFFICES ASSUME NEW g \in gos, g[2] \notin deleted' PROVE g[3] = list'[g[2]]
        OBVIOUS
      <3>1. deleted \subseteq deleted'
        BY <1>1 DEF Window, AddConnection, FindConnection, DelConnection, SaveOther, history
      <3>2. g[3] = list[g[2]] /\ list[g[2]] # None
        BY <2>2, <3>1 DEF OneGoroutineEach, Objects, None
      <3> QED
        BY <1>1, <2>2, <3>2, WindowKeeps
    <2> QED
      BY <2>1, <2>3 DEF KnownInv, OneGoroutineEach
  <1>2. CASE Goroutines
    BY <1>2, GoroutineStep
  <1>3. CASE Restart
    BY <1>3 DEF Restart, KnownInv, OneGoroutineEach
  <1>4. CASE UNCHANGED vars
    BY <1>4 DEF vars, copies, loops, history, KnownInv, OneGoroutineEach
  <1> QED
    BY <1>1, <1>2, <1>3, <1>4 DEF Next

\* A loop never has two goroutines for a connection, and a goroutine of one
\* that was not deleted works with the object that is in use.
THEOREM OneGoroutineEachAlways == Spec => []OneGoroutineEach
  <1>1. Init => KeptInv /\ KnownInv /\ OneGoroutineEach
    BY FirstObjects DEF Init, KeptInv, KnownInv, OneGoroutineEach
  <1> QED
    BY <1>1, TypeInit, TypeStep, KeptStep, OneStep, PTL DEF Spec
=============================================================================
