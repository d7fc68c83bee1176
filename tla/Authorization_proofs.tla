------------------------ MODULE Authorization_proofs ------------------------
(***************************************************************************)
(* Proofs about Authorization, for any number of sessions, users, tasks    *)
(* and faults: a session that is in has a token, the server accepts it     *)
(* until it expires, and it is written once.                               *)
(***************************************************************************)
EXTENDS Authorization, FiniteSetTheorems, TLAPS

Places  == {"register", "idle", "auth", "get", "post", "in"}
Methods == {"GET", "POST"}

-----------------------------------------------------------------------------
(* There is always a task that nobody remembers. *)

\* The tasks that goroutines have are those of the mutex holders: one in each
\* session.
LEMMA InUseFinite ==
    ASSUME TypeOK
    PROVE  /\ IsFiniteSet(InUse \ {None})
           /\ Cardinality(InUse \ {None}) <= 2 * Cardinality(Sessions)
  <1> DEFINE held  == [k \in Sessions |-> IF mtx[k] = None THEN None ELSE task[k][mtx[k]]]
             asked == [k \in Sessions |-> pending[Owner[k]]]
             H == { held[k] : k \in Sessions }
             A == { asked[k] : k \in Sessions }
  <1>1. InUse \ {None} \subseteq H \cup A
    <2> SUFFICES ASSUME NEW t \in InUse, t # None PROVE t \in H \cup A
      OBVIOUS
    <2>1. CASE t \in { pending[u] : u \in Users }
      BY <2>1 DEF Users
    <2>2. ASSUME NEW k \in Sessions, NEW g \in Kinds, t = task[k][g] PROVE t \in H
      <3>1. mtx[k] = g
        BY <2>2 DEF TypeOK, Exchanging
      <3>2. held[k] = t
        BY <3>1, <2>2, NoneAssumption DEF Kinds
      <3> QED
        BY <3>2
    <2> QED
      BY <2>1, <2>2 DEF InUse
  <1>2. IsFiniteSet(Sessions) /\ Cardinality(Sessions) \in Nat
    BY TasksAssumption, FS_CardinalityType
  <1>3. IsFiniteSet(H) /\ Cardinality(H) <= Cardinality(Sessions)
    <2>1. held \in Surjection(Sessions, H)
      BY DEF Surjection, Range
    <2> HIDE DEF held, H
    <2> QED
      BY <1>2, <2>1, FS_Surjection
  <1>4. IsFiniteSet(A) /\ Cardinality(A) <= Cardinality(Sessions)
    <2>1. asked \in Surjection(Sessions, A)
      BY DEF Surjection, Range
    <2> HIDE DEF asked, A
    <2> QED
      BY <1>2, <2>1, FS_Surjection
  <1> HIDE DEF H, A
  <1>5. /\ IsFiniteSet(H \cup A) /\ Cardinality(H \cup A) \in Nat
        /\ Cardinality(H \cup A) <= Cardinality(H) + Cardinality(A)
    <2>1. IsFiniteSet(H \cap A)
      BY <1>3, FS_Intersection
    <2>2. /\ Cardinality(H) \in Nat /\ Cardinality(A) \in Nat
          /\ Cardinality(H \cap A) \in Nat
      BY <1>3, <1>4, <2>1, FS_CardinalityType
    <2>3. /\ IsFiniteSet(H \cup A)
          /\ Cardinality(H \cup A) = Cardinality(H) + Cardinality(A) - Cardinality(H \cap A)
      BY <1>3, <1>4, FS_Union
    <2>4. Cardinality(H \cup A) \in Nat
      BY <2>3, FS_CardinalityType
    <2> QED
      BY <2>2, <2>3, <2>4
  <1>6. /\ IsFiniteSet(InUse \ {None})
        /\ Cardinality(InUse \ {None}) <= Cardinality(H \cup A)
    BY <1>1, <1>5, FS_Subset
  <1> QED
    BY <1>2, <1>3, <1>4, <1>5, <1>6, FS_CardinalityType

LEMMA FreshIsTask == TypeOK => Fresh \in Tasks
  <1> SUFFICES ASSUME TypeOK PROVE \E t \in Tasks : t \notin InUse
    BY DEF Fresh
  <1> SUFFICES ASSUME Tasks \subseteq InUse PROVE FALSE
    OBVIOUS
  <1>1. Tasks \subseteq InUse \ {None}
    BY NoneAssumption
  <1>2. IsFiniteSet(Tasks) /\ Cardinality(Tasks) <= Cardinality(InUse \ {None})
    BY <1>1, InUseFinite, FS_Subset
  <1> QED
    BY <1>2, InUseFinite, TasksAssumption, FS_CardinalityType

-----------------------------------------------------------------------------
(* Types. *)

\* What a request without an answer does to the server and the network.
LEMMA NoAnswerType ==
    ASSUME TypeOK, NEW u \in Users, NEW m \in Methods, NoAnswer(u, m)
    PROVE  /\ pending' \in [Users -> Tasks \cup {None}]
           /\ late' \in [Users -> [{"GET", "POST"} -> Nat]]
           /\ faults' \in 0..MaxFaults
  <1>1. ASSUME HandleGet(u) \/ HandlePost(u) \/ UNCHANGED pending
        PROVE  pending' \in [Users -> Tasks \cup {None}]
    BY <1>1, FreshIsTask DEF HandleGet, HandlePost, TypeOK
  <1>2. ASSUME late' = [late EXCEPT ![u][m] = @ + 1] \/ UNCHANGED late
        PROVE  late' \in [Users -> [{"GET", "POST"} -> Nat]]
    BY <1>2 DEF Methods, TypeOK
  <1>3. ASSUME Fault \/ UNCHANGED faults PROVE faults' \in 0..MaxFaults
    BY <1>3, MaxFaultsAssumption DEF Fault, TypeOK
  <1> QED
    BY <1>1, <1>2, <1>3 DEF NoAnswer

\* A goroutine that leaves Auth with an error leaves the mutex free.
LEMMA FailType ==
    ASSUME TypeOK, NEW k \in Sessions, NEW g \in Kinds, Exchanging(k, g), Fail(k, g),
           UNCHANGED <<keyFile, key, registered>>,
           pending' \in [Users -> Tasks \cup {None}],
           late' \in [Users -> [{"GET", "POST"} -> Nat]],
           faults' \in 0..MaxFaults
    PROVE  TypeOK'
  <1>1. First(g) \in {"register", "idle"}
    BY DEF First
  <1>2. \A j \in Sessions, h \in Kinds :
            /\ pc'[j][h] = IF j = k /\ h = g THEN First(g) ELSE pc[j][h]
            /\ task'[j][h] = IF j = k /\ h = g THEN None ELSE task[j][h]
            /\ mtx'[j] = IF j = k THEN None ELSE mtx[j]
    BY DEF Fail, Goto, TypeOK
  <1>3. /\ mtx' \in [Sessions -> Kinds \cup {None}]
        /\ pc' \in [Sessions -> [Kinds -> {"register", "idle", "auth", "get", "post", "in"}]]
        /\ task' \in [Sessions -> [Kinds -> Tasks \cup {None}]]
    BY <1>1 DEF Fail, Goto, TypeOK
  <1>4. \A j \in Sessions, h \in Kinds :
            /\ Exchanging(j, h)' <=> mtx'[j] = h
            /\ pc'[j][h] = "post" <=> task'[j][h] # None
    BY <1>1, <1>2, NoneAssumption DEF TypeOK, Exchanging, Kinds
  <1> QED
    BY <1>3, <1>4 DEF Fail, TypeOK

LEMMA GetTaskType ==
    ASSUME TypeOK, NEW k \in Sessions, NEW g \in Kinds, GetTask(k, g)
    PROVE  TypeOK'
  <1>0. Owner[k] \in Users /\ Exchanging(k, g)
    BY DEF Users, GetTask, Exchanging
  <1>1. CASE NoAnswer(Owner[k], "GET") /\ Fail(k, g)
    BY <1>0, <1>1, NoAnswerType, FailType DEF GetTask, Methods
  <1>2. CASE /\ HandleGet(Owner[k]) /\ task' = [task EXCEPT ![k][g] = Fresh]
             /\ Goto(k, g, "post") /\ UNCHANGED <<mtx, token, expired, late, faults>>
    <2>1. \A j \in Sessions, h \in Kinds :
              /\ pc'[j][h] = IF j = k /\ h = g THEN "post" ELSE pc[j][h]
              /\ task'[j][h] = IF j = k /\ h = g THEN Fresh ELSE task[j][h]
      BY <1>2 DEF Goto, TypeOK
    <2>2. \A j \in Sessions, h \in Kinds :
              /\ Exchanging(j, h)' <=> mtx'[j] = h
              /\ pc'[j][h] = "post" <=> task'[j][h] # None
      BY <1>0, <1>2, <2>1, FreshIsTask, NoneAssumption DEF TypeOK, Exchanging
    <2> QED
      BY <1>0, <1>2, <2>2, FreshIsTask DEF GetTask, HandleGet, Goto, TypeOK
  <1> QED
    BY <1>1, <1>2 DEF GetTask

LEMMA PostTaskType ==
    ASSUME TypeOK, NEW k \in Sessions, NEW g \in Kinds, PostTask(k, g)
    PROVE  TypeOK'
  <1>0. Owner[k] \in Users /\ Exchanging(k, g)
    BY DEF Users, PostTask, Exchanging
  <1>1. CASE NoAnswer(Owner[k], "POST") /\ Fail(k, g)
    BY <1>0, <1>1, NoAnswerType, FailType DEF PostTask, Methods
  <1>2. CASE HandlePost(Owner[k]) /\ Fail(k, g) /\ UNCHANGED <<late, faults>>
    <2>1. pending' \in [Users -> Tasks \cup {None}]
      BY <1>2 DEF HandlePost, TypeOK
    <2> QED
      BY <1>0, <1>2, <2>1, FailType DEF PostTask, TypeOK
  <1>3. CASE /\ HandlePost(Owner[k])
             /\ token' = [token EXCEPT ![k] = key] /\ mtx' = [mtx EXCEPT ![k] = None]
             /\ task' = [task EXCEPT ![k][g] = None] /\ Goto(k, g, "in")
             /\ UNCHANGED <<expired, late, faults>>
    <2>1. \A j \in Sessions, h \in Kinds :
              /\ pc'[j][h] = IF j = k /\ h = g THEN "in" ELSE pc[j][h]
              /\ task'[j][h] = IF j = k /\ h = g THEN None ELSE task[j][h]
              /\ mtx'[j] = IF j = k THEN None ELSE mtx[j]
      BY <1>3 DEF Goto, TypeOK
    <2>2. \A j \in Sessions, h \in Kinds :
              /\ Exchanging(j, h)' <=> mtx'[j] = h
              /\ pc'[j][h] = "post" <=> task'[j][h] # None
      BY <1>0, <2>1, NoneAssumption DEF TypeOK, Exchanging, Kinds
    <2> QED
      BY <1>0, <1>3, <2>2 DEF PostTask, HandlePost, Goto, TypeOK
  <1> QED
    BY <1>1, <1>2, <1>3 DEF PostTask

LEMMA TryAuthType ==
    ASSUME TypeOK, NEW k \in Sessions, NEW g \in Kinds, TryAuth(k, g)
    PROVE  TypeOK'
  <1>1. PICK l \in {"register", "in", "get"} :
            /\ Goto(k, g, l)
            /\ mtx' = IF l = "get" THEN [mtx EXCEPT ![k] = g] ELSE mtx
            /\ l = "get" => mtx[k] = None
    BY DEF TryAuth
  <1>2. \A j \in Sessions, h \in Kinds :
            /\ pc'[j][h] = IF j = k /\ h = g THEN l ELSE pc[j][h]
            /\ mtx'[j] = IF j = k /\ l = "get" THEN g ELSE mtx[j]
    BY <1>1 DEF Goto, TypeOK
  <1>3. \A j \in Sessions, h \in Kinds :
            /\ Exchanging(j, h)' <=> mtx'[j] = h
            /\ pc'[j][h] = "post" <=> task[j][h] # None
    BY <1>1, <1>2, NoneAssumption DEF TypeOK, Exchanging, Kinds, TryAuth
  <1>4. /\ pc' \in [Sessions -> [Kinds -> {"register", "idle", "auth", "get", "post", "in"}]]
        /\ mtx' \in [Sessions -> Kinds \cup {None}]
    BY <1>1 DEF Goto, TypeOK
  <1> QED
    BY <1>3, <1>4 DEF TryAuth, server, TypeOK

\* A step of a goroutine outside the exchange.
LEMMA GotoType ==
    ASSUME TypeOK, NEW k \in Sessions, NEW g \in Kinds, NEW l \in Places,
           l \notin {"get", "post"}, ~ Exchanging(k, g), Goto(k, g, l),
           UNCHANGED <<keyFile, key, pending, mtx, token, expired, task, late>>,
           registered' \subseteq Users, Fault \/ UNCHANGED faults
    PROVE  TypeOK'
  <1>1. \A j \in Sessions, h \in Kinds :
            pc'[j][h] = IF j = k /\ h = g THEN l ELSE pc[j][h]
    BY DEF Goto, TypeOK
  <1>2. \A j \in Sessions, h \in Kinds :
            /\ Exchanging(j, h)' <=> mtx[j] = h
            /\ pc'[j][h] = "post" <=> task[j][h] # None
    BY <1>1 DEF TypeOK, Exchanging, Places
  <1> QED
    BY <1>2, MaxFaultsAssumption DEF Goto, TypeOK, Fault, Places

LEMMA RegisterType == ASSUME TypeOK, NEW k \in Sessions, Register(k) PROVE TypeOK'
  <1>0. registered' \subseteq Users /\ "client" \in Kinds /\ ~ Exchanging(k, "client")
    BY DEF Register, Users, Kinds, Exchanging, TypeOK
  <1>1. CASE Goto(k, "client", "auth") /\ UNCHANGED faults
    BY <1>0, <1>1, GotoType DEF Register, Places
  <1>2. CASE Fault /\ UNCHANGED pc
    BY <1>0, <1>2, MaxFaultsAssumption DEF Register, Fault, TypeOK, Exchanging
  <1> QED
    BY <1>1, <1>2 DEF Register

LEMMA RestartClientType == ASSUME TypeOK, NEW k \in Sessions, RestartClient(k) PROVE TypeOK'
  <1>1. \A g \in Kinds : First(g) \in {"register", "idle"}
    BY DEF First
  <1>2. \A j \in Sessions, h \in Kinds :
            /\ pc'[j][h] = IF j = k THEN First(h) ELSE pc[j][h]
            /\ task'[j][h] = IF j = k THEN None ELSE task[j][h]
            /\ mtx'[j] = IF j = k THEN None ELSE mtx[j]
    BY DEF RestartClient, TypeOK
  <1>3. \A j \in Sessions, h \in Kinds :
            /\ Exchanging(j, h)' <=> mtx'[j] = h
            /\ pc'[j][h] = "post" <=> task'[j][h] # None
    BY <1>1, <1>2, NoneAssumption DEF TypeOK, Exchanging, Kinds
  <1> QED
    BY <1>1, <1>3, MaxFaultsAssumption DEF RestartClient, Fault, server, TypeOK

LEMMA ServerType ==
    ASSUME TypeOK, \/ StartServer \/ StopServer
                   \/ \E u \in Users, m \in Methods : HandleLate(u, m)
    PROVE  TypeOK'
  <1>1. CASE StartServer
    BY <1>1, MaxFaultsAssumption DEF StartServer, Fault, session, TypeOK, Exchanging
  <1>2. CASE StopServer
    BY <1>2, MaxFaultsAssumption DEF StopServer, Fault, session, TypeOK, Exchanging
  <1>3. ASSUME NEW u \in Users, NEW m \in Methods, HandleLate(u, m) PROVE TypeOK'
    <2>1. pending' \in [Users -> Tasks \cup {None}]
      <3>1. HandleGet(u) \/ HandlePost(u)
        BY <1>3 DEF HandleLate
      <3> QED
        BY <3>1, FreshIsTask DEF HandleGet, HandlePost, TypeOK
    <2>2. late' \in [Users -> [{"GET", "POST"} -> Nat]]
      BY <1>3 DEF HandleLate, Methods, TypeOK
    <2> QED
      BY <1>3, <2>1, <2>2 DEF HandleLate, session, TypeOK, Exchanging
  <1> QED
    BY <1>1, <1>2, <1>3

LEMMA TypeInit == Init => TypeOK
  <1> SUFFICES ASSUME Init PROVE TypeOK
    OBVIOUS
  <1>1. \A g \in Kinds : First(g) \in {"register", "idle"}
    BY DEF First
  <1>2. /\ pc \in [Sessions -> [Kinds -> {"register", "idle", "auth", "get", "post", "in"}]]
        /\ task \in [Sessions -> [Kinds -> Tasks \cup {None}]]
    BY <1>1 DEF Init
  <1>3. \A k \in Sessions, g \in Kinds :
            /\ Exchanging(k, g) <=> mtx[k] = g
            /\ pc[k][g] = "post" <=> task[k][g] # None
    BY <1>1, NoneAssumption DEF Init, Exchanging
  <1> QED
    BY <1>2, <1>3, MaxFaultsAssumption DEF Init, TypeOK

LEMMA TypeStep == TypeOK /\ [Next]_vars => TypeOK'
  <1> SUFFICES ASSUME TypeOK, [Next]_vars PROVE TypeOK'
    OBVIOUS
  <1>0. Kinds = {"client", "channel"}
    BY DEF Kinds
  <1>1. CASE \/ StartServer \/ StopServer
             \/ \E u \in Users, m \in {"GET", "POST"} : HandleLate(u, m)
    BY <1>1, ServerType DEF Methods
  <1>2. ASSUME NEW k \in Sessions, NEW g \in Kinds,
               TryAuth(k, g) \/ GetTask(k, g) \/ PostTask(k, g)
        PROVE  TypeOK'
    BY <1>2, TryAuthType, GetTaskType, PostTaskType
  <1>3. ASSUME NEW k \in Sessions, Register(k) \/ RestartClient(k) PROVE TypeOK'
    BY <1>3, RegisterType, RestartClientType
  <1>4. ASSUME NEW k \in Sessions, CallInitChannel(k) \/ SendChannel(k) PROVE TypeOK'
    <2>1. registered' \subseteq Users /\ ~ Exchanging(k, "channel")
      BY <1>4 DEF CallInitChannel, SendChannel, server, Exchanging, TypeOK
    <2> QED
      BY <1>0, <1>4, <2>1, GotoType DEF CallInitChannel, SendChannel, server, Places
  <1>5. ASSUME NEW k \in Sessions, Expire(k) PROVE TypeOK'
    BY <1>5 DEF Expire, server, TypeOK, Exchanging
  <1>6. CASE UNCHANGED vars
    BY <1>6 DEF vars, server, session, TypeOK, Exchanging
  <1> QED
    BY <1>0, <1>1, <1>2, <1>3, <1>4, <1>5, <1>6 DEF Next, Client, Channel

\* Every variable has its type, and a goroutine is inside an exchange exactly
\* while it holds the mutex of its session.
THEOREM TypeCorrect == Spec => []TypeOK
  BY TypeInit, TypeStep, PTL DEF Spec

-----------------------------------------------------------------------------
(* Tokens. *)

\* A session has the token of the only key there is, and only while none of its
\* goroutines is in an exchange; a goroutine that is in has one.
TokenInv ==
    \A k \in Sessions :
        /\ token[k] # None =>
              token[k] = keyFile /\ keyFile # 0 /\ \A g \in Kinds : ~ Exchanging(k, g)
        /\ \A g \in Kinds : pc[k][g] = "in" => token[k] # None

\* Steps that keep token and key, and put goroutines only where they may be.
LEMMA TokenFrame ==
    ASSUME TokenInv, UNCHANGED <<token, keyFile>>,
           \A k \in Sessions, g \in Kinds :
               \/ pc'[k][g] = pc[k][g]
               \/ pc'[k][g] \in {"register", "idle", "auth"}
               \/ pc'[k][g] \in {"get", "post"} /\ token[k] = None
               \/ pc'[k][g] = "in" /\ token[k] # None
    PROVE  TokenInv'
  BY DEF TokenInv, Exchanging

LEMMA TokenGoroutine ==
    ASSUME TypeOK, TokenInv, NEW k \in Sessions, NEW g \in Kinds,
           TryAuth(k, g) \/ GetTask(k, g) \/ PostTask(k, g)
    PROVE  TokenInv'
  <1>1. ASSUME NEW l, Goto(k, g, l)
        PROVE  \A j \in Sessions, h \in Kinds :
                   pc'[j][h] = IF j = k /\ h = g THEN l ELSE pc[j][h]
    BY <1>1 DEF Goto, TypeOK
  <1>2. First(g) \in {"register", "idle"}
    BY DEF First
  <1>3. CASE TryAuth(k, g)
    <2>1. PICK l \in {"register", "in", "get"} :
              /\ Goto(k, g, l)
              /\ l = "in" => token[k] # None
              /\ l = "get" => token[k] = None
      BY <1>3 DEF TryAuth
    <2> QED
      BY <1>1, <1>3, <2>1, TokenFrame DEF TryAuth, server
  <1>4. ASSUME Fail(k, g), UNCHANGED keyFile PROVE TokenInv'
    BY <1>1, <1>2, <1>4, TokenFrame DEF Fail
  <1>5. CASE GetTask(k, g)
    <2>1. token[k] = None
      BY <1>5 DEF GetTask, TokenInv, Exchanging
    <2> QED
      BY <1>1, <1>4, <1>5, <2>1, TokenFrame DEF GetTask
  <1>6. CASE PostTask(k, g)
    <2>1. CASE /\ Up /\ token' = [token EXCEPT ![k] = key]
               /\ mtx' = [mtx EXCEPT ![k] = None] /\ Goto(k, g, "in")
      <3>1. key = keyFile /\ keyFile # 0 /\ keyFile \in Nat /\ UNCHANGED keyFile
        BY <1>6, <2>1 DEF Up, TypeOK, PostTask
      <3>2. \A h \in Kinds : h # g => ~ Exchanging(k, h)
        BY <1>6 DEF PostTask, TypeOK, Exchanging
      <3>3. token'[k] = keyFile /\ \A j \in Sessions : j # k => token'[j] = token[j]
        BY <2>1, <3>1 DEF TypeOK
      <3>4. keyFile # None
        BY <3>1, NoneAssumption
      <3> QED
        BY <1>1, <2>1, <3>1, <3>2, <3>3, <3>4 DEF TokenInv, Exchanging
    <2> QED
      BY <1>4, <1>6, <2>1 DEF PostTask
  <1> QED
    BY <1>3, <1>5, <1>6

LEMMA TokenStep == TypeOK /\ TokenInv /\ [Next]_vars => TokenInv'
  <1> SUFFICES ASSUME TypeOK, TokenInv, [Next]_vars PROVE TokenInv'
    OBVIOUS
  <1>0. Kinds = {"client", "channel"}
    BY DEF Kinds
  <1>1. CASE StartServer
    \* A server that has a key keeps it.
    <2>1. keyFile # 0 => keyFile' = keyFile
      BY <1>1 DEF StartServer
    <2> QED
      BY <1>1, <2>1 DEF StartServer, session, TokenInv, Exchanging
  <1>2. CASE StopServer \/ \E u \in Users, m \in {"GET", "POST"} : HandleLate(u, m)
    BY <1>2, TokenFrame DEF StopServer, HandleLate, session
  <1>3. ASSUME NEW k \in Sessions, NEW g \in Kinds,
               TryAuth(k, g) \/ GetTask(k, g) \/ PostTask(k, g)
        PROVE  TokenInv'
    BY <1>3, TokenGoroutine
  <1>4. ASSUME NEW k \in Sessions, NEW g \in Kinds, NEW l \in {"auth", "idle"},
               Goto(k, g, l), UNCHANGED <<token, keyFile>>
        PROVE  TokenInv'
    <2>1. \A j \in Sessions, h \in Kinds :
              pc'[j][h] = IF j = k /\ h = g THEN l ELSE pc[j][h]
      BY <1>4 DEF Goto, TypeOK
    <2> QED
      BY <1>4, <2>1, TokenFrame
  <1>5. ASSUME NEW k \in Sessions, Register(k) \/ CallInitChannel(k) \/ SendChannel(k)
        PROVE  TokenInv'
    <2>1. CASE UNCHANGED <<pc, token, keyFile>>
      BY <2>1, TokenFrame
    <2> QED
      BY <1>0, <1>4, <1>5, <2>1 DEF Register, CallInitChannel, SendChannel, server
  <1>6. ASSUME NEW k \in Sessions, RestartClient(k) PROVE TokenInv'
    <2>1. \A g \in Kinds : First(g) \in {"register", "idle"}
      BY DEF First
    <2>2. \A j \in Sessions : /\ token'[j] = IF j = k THEN None ELSE token[j]
                              /\ \A h \in Kinds :
                                    pc'[j][h] = IF j = k THEN First(h) ELSE pc[j][h]
      BY <1>6 DEF RestartClient, TypeOK
    <2> QED
      BY <1>6, <2>1, <2>2 DEF RestartClient, server, TokenInv, Exchanging
  <1>7. ASSUME \/ UNCHANGED vars
               \/ \E k \in Sessions : Expire(k)
        PROVE  TokenInv'
    BY <1>7, TokenFrame DEF Expire, vars, server, session
  <1> QED
    BY <1>0, <1>1, <1>2, <1>3, <1>5, <1>6, <1>7 DEF Next, Client, Channel

LEMMA TokenAlways == Spec => [](TypeOK /\ TokenInv)
  <1>1. Init => TokenInv
    BY DEF Init, TokenInv, First
  <1> QED
    BY <1>1, TypeInit, TypeStep, TokenStep, PTL DEF Spec

\* A goroutine that got through Auth has a token, and a running server accepts
\* it until it expires, however often the server was started.
THEOREM InWithValidTokenAlways == Spec => []InWithValidToken
  <1>1. TypeOK /\ TokenInv => InWithValidToken
    BY DEF TypeOK, TokenInv, InWithValidToken, Up
  <1> QED
    BY <1>1, TokenAlways, PTL

\* Once a session has a token none of its goroutines is in an exchange that
\* would write it again.
THEOREM TokenWrittenOnceAlways == Spec => []TokenWrittenOnce
  <1>1. TokenInv => TokenWrittenOnce
    BY DEF TokenInv, TokenWrittenOnce
  <1> QED
    BY <1>1, TokenAlways, PTL
=============================================================================
