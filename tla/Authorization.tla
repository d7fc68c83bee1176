---------------------------- MODULE Authorization ----------------------------
(***************************************************************************)
(* How the sessions of clients register with a server and get the token    *)
(* that every other request carries.                                       *)
(*                                                                         *)
(* A session is a connection object (internal/client) of a running         *)
(* application.  Its goroutines share one token: initRemoteClient, which   *)
(* registers the user and then authorises the session, and                 *)
(* initRemoteChannel, which authorises it too before it sends a channel.   *)
(* An exchange takes two requests: GET /auth answers with a random task,   *)
(* POST /auth with the signed task is answered with the token.  The server *)
(* keeps the last task of every USER in memory, so two sessions of one     *)
(* user, a late request or a restart of the server can spoil an exchange.  *)
(***************************************************************************)
EXTENDS Naturals, FiniteSets

CONSTANTS
    Sessions,    \* connection objects of applications to this server
    Owner,       \* Owner[k] : the user whose key session k has
    Tasks,       \* the random tasks
    None,        \* no task, no key, no goroutine
    MaxFaults    \* bound on lost requests and answers, crashes, failed writes

Users == { Owner[k] : k \in Sessions }

\* The goroutines of a session, named by what they run.
Kinds == {"client", "channel"}
First(g) == IF g = "client" THEN "register" ELSE "idle"

ASSUME NoneAssumption == None \notin Tasks \cup Nat \cup Kinds
\* There are always tasks that nobody remembers.
ASSUME TasksAssumption ==
    /\ IsFiniteSet(Sessions)
    /\ IsFiniteSet(Tasks) => Cardinality(Tasks) > 2 * Cardinality(Sessions)
ASSUME MaxFaultsAssumption == MaxFaults \in Nat

VARIABLES
    \* the server
    keyFile,     \* the secret key in its file (0 : none yet)
    key,         \* the key in memory (0 : the server is down)
    registered,  \* the users it knows
    pending,     \* pending[u] : the task of user u (mapAuthTasks)
    \* the sessions
    mtx,         \* mtx[k] : the goroutine inside Auth
    token,       \* token[k] : the key the token was made with, or None
    expired,     \* expired[k] : the token is older than a day
    pc,          \* pc[k][g]   : where goroutine g of session k is
    task,        \* task[k][g] : the task it has received
    \* the network
    late,        \* late[u][m] : requests to /auth that a client of u has given
                 \*              up and that the server may still handle
    faults

server  == <<keyFile, key, registered, pending>>
session == <<mtx, token, expired, pc, task>>
vars    == <<server, session, late, faults>>

Init ==
    /\ keyFile = 0 /\ key = 0 /\ registered = {}
    /\ pending = [u \in Users |-> None]
    /\ mtx = [k \in Sessions |-> None]
    /\ token = [k \in Sessions |-> None]
    /\ expired = [k \in Sessions |-> FALSE]
    /\ pc = [k \in Sessions |-> [g \in Kinds |-> First(g)]]
    /\ task = [k \in Sessions |-> [g \in Kinds |-> None]]
    /\ late = [u \in Users |-> [m \in {"GET", "POST"} |-> 0]]
    /\ faults = 0

Fault == faults < MaxFaults /\ faults' = faults + 1
Up == key # 0
Goto(k, g, label) == pc' = [pc EXCEPT ![k][g] = label]

\* Two tasks are never equal: one that nobody remembers may be used again.
InUse == { pending[u] : u \in Users } \cup { task[k][g] : k \in Sessions, g \in Kinds }
Fresh == CHOOSE t \in Tasks : t \notin InUse

-----------------------------------------------------------------------------
(* The server. *)

\* Mutant: a new key at every start.
StartServerAnew ==
    /\ ~ Up
    /\ \/ keyFile' = keyFile + 1 /\ key' = keyFile' /\ UNCHANGED faults
       \/ Fault /\ UNCHANGED <<keyFile, key>>
    /\ UNCHANGED <<registered, pending, session, late>>

\* GetSecretKey: the first start makes the key, and fails if it cannot save it.
StartServer ==
    /\ ~ Up
    /\ \/ keyFile' = (IF keyFile = 0 THEN 1 ELSE keyFile) /\ key' = keyFile'
          /\ UNCHANGED faults
       \/ Fault /\ UNCHANGED <<keyFile, key>>
    /\ UNCHANGED <<registered, pending, session, late>>

\* Only the file survives.
StopServer ==
    /\ Up /\ Fault
    /\ key' = 0 /\ pending' = [u \in Users |-> None]
    /\ UNCHANGED <<keyFile, registered, session, late>>

\* handleAuth: GET replaces the task of the user, POST takes it off the map,
\* and is answered with a token if it is the task that was signed.
HandleGet(u)  == pending' = [pending EXCEPT ![u] = Fresh]
HandlePost(u) == pending' = [pending EXCEPT ![u] = None]

HandleLate(u, m) ==
    /\ Up /\ u \in registered /\ late[u][m] > 0
    /\ late' = [late EXCEPT ![u][m] = @ - 1]
    /\ IF m = "GET" THEN HandleGet(u) ELSE HandlePost(u)
    /\ UNCHANGED <<keyFile, key, registered, session, faults>>

-----------------------------------------------------------------------------
(* Goroutine g of session k. *)

\* Mutant: an error leaves the mutex locked.
FailLocked(k, g) ==
    /\ Goto(k, g, First(g))
    /\ task' = [task EXCEPT ![k][g] = None]
    /\ UNCHANGED <<mtx, token, expired>>

\* An error of Auth: initRemoteClient starts again, initRemoteChannel ends.
Fail(k, g) ==
    /\ Goto(k, g, First(g))
    /\ mtx' = [mtx EXCEPT ![k] = None]
    /\ task' = [task EXCEPT ![k][g] = None]
    /\ UNCHANGED <<token, expired>>

\* A request to /auth has no answer: the server is down, does not know the user
\* or never gets it, or the answer is lost, or the request arrives too late.
NoAnswer(u, m) ==
    \/ ~ Up /\ UNCHANGED <<pending, late, faults>>
    \/ u \notin registered /\ UNCHANGED <<pending, late, faults>>
    \/ Fault /\ UNCHANGED <<pending, late>>
    \/ /\ Up /\ u \in registered /\ Fault
       /\ IF m = "GET" THEN HandleGet(u) ELSE HandlePost(u)
       /\ UNCHANGED late
    \/ Fault /\ late' = [late EXCEPT ![u][m] = @ + 1] /\ UNCHANGED pending

\* initRemoteClient: POST /client/init, again until it is answered.
Register(k) ==
    /\ pc[k]["client"] = "register" /\ Up
    /\ registered' = registered \cup {Owner[k]}
    /\ \/ Goto(k, "client", "auth") /\ UNCHANGED faults
       \/ Fault /\ UNCHANGED pc
    /\ UNCHANGED <<keyFile, key, pending, mtx, token, expired, task, late>>

\* initRemoteChannel is called.
CallInitChannel(k) ==
    /\ pc[k]["channel"] = "idle"
    /\ Goto(k, "channel", "auth")
    /\ UNCHANGED <<server, mtx, token, expired, task, late, faults>>

\* Mutant: the mutex is not taken.
TryAuthUnlocked(k, g) ==
    /\ pc[k][g] = "auth"
    /\ Goto(k, g, IF token[k] # None THEN "in" ELSE "get")
    /\ UNCHANGED <<server, mtx, token, expired, task, late, faults>>

\* Mutant: ErrInProcess counts as success.
TryAuthInProcess(k, g) ==
    /\ pc[k][g] = "auth"
    /\ \/ /\ mtx[k] # None \/ token[k] # None
          /\ Goto(k, g, "in") /\ UNCHANGED mtx
       \/ /\ mtx[k] = None /\ token[k] = None
          /\ mtx' = [mtx EXCEPT ![k] = g] /\ Goto(k, g, "get")
    /\ UNCHANGED <<server, token, expired, task, late, faults>>

\* While another goroutine is inside, Auth returns ErrInProcess:
\* initRemoteClient starts again, initRemoteChannel calls it again.
TryAuth(k, g) ==
    /\ pc[k][g] = "auth"
    /\ \/ /\ mtx[k] # None /\ g = "client"
          /\ Goto(k, g, "register") /\ UNCHANGED mtx
       \/ /\ mtx[k] = None /\ token[k] # None
          /\ Goto(k, g, "in") /\ UNCHANGED mtx
       \/ /\ mtx[k] = None /\ token[k] = None
          /\ mtx' = [mtx EXCEPT ![k] = g] /\ Goto(k, g, "get")
    /\ UNCHANGED <<server, token, expired, task, late, faults>>

\* getAuthTask
GetTask(k, g) ==
    LET u == Owner[k] IN
    /\ pc[k][g] = "get"
    /\ \/ /\ Up /\ u \in registered /\ HandleGet(u)
          /\ task' = [task EXCEPT ![k][g] = Fresh] /\ Goto(k, g, "post")
          /\ UNCHANGED <<mtx, token, expired, late, faults>>
       \/ NoAnswer(u, "GET") /\ Fail(k, g)
    /\ UNCHANGED <<keyFile, key, registered>>

\* signAuthRandBytes
PostTask(k, g) ==
    LET u == Owner[k] IN
    /\ pc[k][g] = "post"
    /\ \/ /\ Up /\ pending[u] = task[k][g] /\ HandlePost(u)
          /\ token' = [token EXCEPT ![k] = key]
          /\ mtx' = [mtx EXCEPT ![k] = None]
          /\ task' = [task EXCEPT ![k][g] = None] /\ Goto(k, g, "in")
          /\ UNCHANGED <<expired, late, faults>>
       \/ /\ Up /\ pending[u] # task[k][g] /\ HandlePost(u)        \* 403
          /\ Fail(k, g) /\ UNCHANGED <<late, faults>>
       \/ NoAnswer(u, "POST") /\ Fail(k, g)
    /\ UNCHANGED <<keyFile, key, registered>>

\* initRemoteChannel sends the channel, whatever comes of it.
SendChannel(k) ==
    /\ pc[k]["channel"] = "in"
    /\ Goto(k, "channel", "idle")
    /\ UNCHANGED <<server, mtx, token, expired, task, late, faults>>

\* A day later (createToken).
Expire(k) ==
    /\ token[k] # None /\ ~ expired[k]
    /\ expired' = [expired EXCEPT ![k] = TRUE]
    /\ UNCHANGED <<server, mtx, token, pc, task, late, faults>>

\* The application stops and is started again.
RestartClient(k) ==
    /\ Fault
    /\ mtx' = [mtx EXCEPT ![k] = None]
    /\ token' = [token EXCEPT ![k] = None]
    /\ expired' = [expired EXCEPT ![k] = FALSE]
    /\ pc' = [pc EXCEPT ![k] = [g \in Kinds |-> First(g)]]
    /\ task' = [task EXCEPT ![k] = [g \in Kinds |-> None]]
    /\ UNCHANGED <<server, late>>

-----------------------------------------------------------------------------
Client(k)  == Register(k) \/ TryAuth(k, "client") \/ GetTask(k, "client")
                 \/ PostTask(k, "client")
Channel(k) == TryAuth(k, "channel") \/ GetTask(k, "channel") \/ PostTask(k, "channel")
                 \/ SendChannel(k)

Next ==
    \/ StartServer \/ StopServer
    \/ \E u \in Users, m \in {"GET", "POST"} : HandleLate(u, m)
    \/ \E k \in Sessions : \/ Client(k) \/ Channel(k) \/ CallInitChannel(k)
                           \/ Expire(k) \/ RestartClient(k)

Spec == Init /\ [][Next]_vars

\* The goroutines run, and somebody starts the server again.
Fairness ==
    /\ WF_vars(StartServer)
    /\ \A k \in Sessions : WF_vars(Client(k)) /\ WF_vars(Channel(k))

FairSpec == Spec /\ Fairness

-----------------------------------------------------------------------------
(* Properties.                                                             *)

Exchanging(k, g) == pc[k][g] \in {"get", "post"}

\* Every variable has its type, and a goroutine is inside an exchange with the
\* server exactly while it holds the mutex of its session.
TypeOK ==
    /\ keyFile \in Nat /\ key \in {0, keyFile} /\ registered \subseteq Users
    /\ pending \in [Users -> Tasks \cup {None}]
    /\ mtx \in [Sessions -> Kinds \cup {None}]
    /\ token \in [Sessions -> Nat \cup {None}]
    /\ expired \in [Sessions -> BOOLEAN]
    /\ pc \in [Sessions -> [Kinds -> {"register", "idle", "auth", "get", "post", "in"}]]
    /\ task \in [Sessions -> [Kinds -> Tasks \cup {None}]]
    /\ late \in [Users -> [{"GET", "POST"} -> Nat]]
    /\ faults \in 0..MaxFaults
    /\ \A k \in Sessions, g \in Kinds :
          /\ Exchanging(k, g) <=> mtx[k] = g
          /\ pc[k][g] = "post" <=> task[k][g] # None

\* A session whose Auth has returned without an error has a token, and until
\* the token expires the server accepts it, after a restart of the server too.
InWithValidToken ==
    \A k \in Sessions :
        /\ \A g \in Kinds : pc[k][g] = "in" => token[k] # None
        /\ token[k] # None /\ ~ expired[k] /\ Up => token[k] = key

\* The token is written once in the life of a session: when it has one, no other
\* goroutine is still in an exchange that would write it again, under the eyes of
\* all the other requests, which read it without the mutex.
TokenWrittenOnce ==
    \A k \in Sessions, g \in Kinds : token[k] # None => ~ Exchanging(k, g)

\* A session gets its token in the end, whatever is lost and however often the
\* goroutines find each other in Auth, if from some time on no other session of
\* its user is in an exchange (two that go on for ever may spoil each other's).
Rivals(k) == { j \in Sessions \ {k} : Owner[j] = Owner[k] }
GetsIn ==
    \A k \in Sessions :
        <>[](\A j \in Rivals(k), g \in Kinds : ~ Exchanging(j, g)) => <>[](token[k] # None)
=============================================================================
