--------------------------- MODULE SessionsProofs ---------------------------
(***************************************************************************)
(* In the orderly workload the table of connected users implements         *)
(* Sessions, for any number of entries, clients, accounts and descriptors: *)
(* every step of a client or of a thread is a step of Sessions or leaves   *)
(* the sessions, the clients on their way out and the server as they are.  *)
(***************************************************************************)
EXTENDS OrderlyProofs

\* What Promise puts for the variables of Sessions.
Taken        == {i \in Slots : token[i] # None}
Entry(i)     == [client |-> token[i], user |-> username[i]]
OpenSessions == {Entry(i) : i \in Taken}
Leavers      == {c \in Clients : client[c] \in {"logout", "gone"}}

-----------------------------------------------------------------------------
(* The steps of Sessions, in the words of the table.                       *)

LEMMA AsInit ==
  ASSUME OpenSessions = {}, Leavers = {}, alive = TRUE
  PROVE  Promise!Init
BY DEF Promise!Init, OpenSessions, Taken, Entry, Leavers

LEMMA AsStutter ==
  ASSUME OpenSessions' = OpenSessions, Leavers' = Leavers, alive' = alive
  PROVE  UNCHANGED Promise!vars
BY DEF Promise!vars, OpenSessions, Taken, Entry, Leavers

LEMMA AsLogin ==
  ASSUME NEW c \in Clients, NEW u \in Users, c \notin Leavers,
         \A s \in OpenSessions : s.client # c /\ s.user # u,
         Cardinality(OpenSessions) < MAX_USERS_CONNECTED,
         OpenSessions' = OpenSessions \cup {[client |-> c, user |-> u]},
         Leavers' = Leavers, alive' = alive
  PROVE  Promise!Login(c, u)
<1>1. Promise!Cardinality(OpenSessions) = Cardinality(OpenSessions)
  BY DEF Promise!Cardinality, Cardinality
<1>2. Promise!Cardinality(OpenSessions) < MAX_USERS_CONNECTED
  BY <1>1
<1> QED BY <1>2 DEF Promise!Login, OpenSessions, Taken, Entry, Leavers

LEMMA AsLeave ==
  ASSUME NEW c \in Clients, c \notin Leavers, Leavers' = Leavers \cup {c},
         OpenSessions' = OpenSessions, alive' = alive
  PROVE  Promise!Leave(c)
BY DEF Promise!Leave, OpenSessions, Taken, Entry, Leavers

LEMMA AsLogout ==
  ASSUME NEW c \in Clients, alive, c \in Leavers, NEW s \in OpenSessions, s.client = c,
         OpenSessions' = {t \in OpenSessions : t.client # c}, Leavers' = Leavers, alive' = alive
  PROVE  Promise!Logout(c)
<1>1. OpenSessions' = OpenSessions \ {t \in OpenSessions : t.client = c} /\ {t \in OpenSessions : t.client = c} # {}
  OBVIOUS
<1> HIDE DEF OpenSessions
<1> QED BY <1>1 DEF Promise!Logout, Promise!SessionOf, OpenSessions, Taken, Entry, Leavers

LEMMA AsStop ==
  ASSUME alive = TRUE, alive' = FALSE, OpenSessions' = OpenSessions, Leavers' = Leavers
  PROVE  Promise!Stop
BY DEF Promise!Stop, OpenSessions, Taken, Entry, Leavers

-----------------------------------------------------------------------------
(* Which steps touch the sessions, and which the clients on their way out. *)

\* Sessions are opened by StoreToken and closed by RemoveToken and ClearToken:
\* an entry that has a token keeps its token and its name in any other step.
LEMMA SessionsLeft ==
  ASSUME OrderlyInv, NEW c \in Clients,
         ClientStep(c) \/ RequestStep(c) \/ ConnStep(c),
         ~StoreToken(c), ~RemoveToken(c), ~ClearToken(c)
  PROVE  OpenSessions' = OpenSessions
<1>0. TypeOK /\ Asks(c) /\ Seat(c) /\ Manners(c)
  BY Known
<1>1. token' = token
  <2>1. CASE ClientStep(c)
    BY <2>1 DEF ClientStep, Connect, AskLogin, AskLogout, LoginAnswered, LogoutAnswered,
       TypeLine, Leave, Exit, Killed, table
  <2>2. CASE RequestStep(c)
    BY <2>2 DEF RequestStep, Credentials, CheckUnique, FindFree, StoreName, Find,
       RemoveName, RemoveSock, table
  <2>3. CASE ConnStep(c)
    BY <2>3 DEF ConnStep, Recv, RecvEnd, Match, Attach, Broadcast, Close, CheckSock,
       ClearSock, ClearName, table
  <2> QED BY <2>1, <2>2, <2>3
<1>2. ASSUME NEW i \in Slots, username'[i] # username[i] PROVE token[i] = None
  <2>1. SUFFICES ASSUME NEW d \in Clients, token[i] = d PROVE FALSE
    BY <1>0 DEF TypeOK, TableType
  <2>2. Occupies(d, i) BY <2>1 DEF Occupies
  <2>3. d = c BY <1>2, <2>2, OthersLeft
  <2>4. ~StoreName(c)
    <3>1. SUFFICES ASSUME StoreName(c) PROVE FALSE OBVIOUS
    <3>2. ri[c] = i /\ request[c] = "storeName"
      BY <1>0, <1>2, <3>1 DEF StoreName, RequestIn, TypeOK, TableType
    <3> QED BY <2>2, <3>2, FreeEntry
  <2>5. CASE RemoveName(c)
    BY <1>0, <2>1, <2>3, <2>5 DEF RemoveName, RequestIn, Seat
  <2>6. CASE ClearName(c)
    BY <1>0, <2>1, <2>3, <2>6 DEF ClearName, ConnIn, Seat, Manners
  <2>7. CASE ~RemoveName(c) /\ ~ClearName(c)
    <3>1. username' = username
      <4>1. CASE ClientStep(c)
        BY <4>1 DEF ClientStep, Connect, AskLogin, AskLogout, LoginAnswered,
           LogoutAnswered, TypeLine, Leave, Exit, Killed, table
      <4>2. CASE RequestStep(c)
        BY <2>4, <2>7, <4>2 DEF RequestStep, Credentials, CheckUnique, FindFree, Find,
           RemoveSock, table
      <4>3. CASE ConnStep(c)
        BY <2>7, <4>3 DEF ConnStep, Recv, RecvEnd, Match, Attach, Broadcast, Close,
           CheckSock, ClearSock, table
      <4> QED BY <4>1, <4>2, <4>3
    <3> QED BY <1>2, <3>1
  <2> QED BY <2>5, <2>6, <2>7
<1>3. Taken' = Taken BY <1>1 DEF Taken
<1>4. \A i \in Taken : Entry(i)' = Entry(i) BY <1>1, <1>2 DEF Taken, Entry
<1> QED BY <1>3, <1>4 DEF OpenSessions

\* A client is on its way out when it asks to log out or leaves, and stays so.
LEMMA LeaversLeft ==
  ASSUME OrderlyInv, NEW c \in Clients,
         ClientStep(c) \/ RequestStep(c) \/ ConnStep(c),
         ~AskLogout(c), ~Exit(c), ~Killed(c)
  PROVE  Leavers' = Leavers
<1>0. TypeOK /\ Asks(c) /\ Course(c) /\ client[c] \in ClientPc /\ request[c] \in RequestPc
  BY Known, LocalTypes
<1>1. \A d \in Clients \ {c} : client'[d] = client[d]
  BY <1>0, Locality DEF Locals
<1>2. client'[c] \in {"logout", "gone"} <=> client[c] \in {"logout", "gone"}
  <2> USE <1>0 DEF TypeOK, ClientType
  <2>1. CASE LogoutAnswered(c)
    <3>1. client[c] = "logout" /\ reply[c] # "none"
      BY <2>1 DEF LogoutAnswered
    <3>2. request[c] = "none"
      BY <3>1 DEF Course, RequestPc, LoginPcs, LogoutPcs
    <3>3. reply[c] = "ok" BY <3>1, <3>2 DEF Asks
    <3> QED BY <2>1, <3>1, <3>3 DEF LogoutAnswered
  <2>2. CASE ClientStep(c) /\ ~LogoutAnswered(c)
    BY <2>2 DEF ClientStep, Connect, AskLogin, LoginAnswered, TypeLine, AtPrompt
  <2>3. CASE RequestStep(c)
    BY <2>3 DEF RequestStep, Credentials, CheckUnique, FindFree, StoreName, StoreToken,
       Find, RemoveToken, RemoveName, RemoveSock, clientVars
  <2>4. CASE ConnStep(c)
    BY <2>4 DEF ConnStep, Recv, RecvEnd, Match, Attach, Broadcast, Close, CheckSock,
       ClearSock, ClearToken, ClearName, ConnAt, clientVars
  <2> QED BY <2>1, <2>2, <2>3, <2>4
<1> QED BY <1>1, <1>2 DEF Leavers

\* Only message_receiver threads, which write to connections, end the server.
LEMMA AliveLeft ==
  ASSUME NEW c \in Clients, ClientStep(c) \/ RequestStep(c) \/ ConnStep(c)
  PROVE  /\ alive
         /\ ClientStep(c) \/ RequestStep(c) \/ ClearToken(c) => alive' = alive
<1>1. ClientStep(c) => alive /\ alive' = alive
  BY DEF ClientStep, Connect, AskLogin, AskLogout, LoginAnswered, LogoutAnswered,
     TypeLine, Leave, Exit, Killed, AtPrompt, net
<1>2. RequestStep(c) => alive /\ alive' = alive
  BY DEF RequestStep, Credentials, CheckUnique, FindFree, StoreName, StoreToken,
     Find, RemoveToken, RemoveName, RemoveSock, RequestIn, net
<1>3. ConnStep(c) => alive
  BY DEF ConnStep, Recv, RecvEnd, Match, Attach, Broadcast, Close, CheckSock,
     ClearSock, ClearToken, ClearName, ConnIn
<1>4. ClearToken(c) => alive' = alive
  BY DEF ClearToken, ConnAt, net
<1> QED BY <1>1, <1>2, <1>3, <1>4

-----------------------------------------------------------------------------
(* Each step is a step of Sessions.                                        *)

\* While one entry is without a token there is room for a session.
LEMMA RoomLeft ==
  ASSUME NEW i \in Slots, token[i] = None
  PROVE  Cardinality(OpenSessions) < MAX_USERS_CONNECTED
<1>1. IsFiniteSet(Slots) /\ Cardinality(Slots) = MAX_USERS_CONNECTED
  BY SlotsAssumption, FS_Interval DEF Slots
<1>2. /\ IsFiniteSet(Slots \ {i})
      /\ Cardinality(Slots \ {i}) = MAX_USERS_CONNECTED - 1
  BY <1>1, FS_RemoveElement
<1>3. Taken \in SUBSET (Slots \ {i})
  BY DEF Taken
<1>4. IsFiniteSet(Taken) /\ Cardinality(Taken) <= MAX_USERS_CONNECTED - 1
  BY <1>2, <1>3, FS_Subset
<1> DEFINE f == [j \in Taken |-> Entry(j)]
<1>5. f \in Surjection(Taken, OpenSessions)
  BY DEF Surjection, OpenSessions
<1> HIDE DEF f
<1>6. IsFiniteSet(OpenSessions) /\ Cardinality(OpenSessions) <= Cardinality(Taken)
  BY <1>4, <1>5, FS_Surjection
<1> QED BY <1>4, <1>6, FS_CardinalityType, SlotsAssumption

\* add_user opens a session for a client that has none, under a name that is in
\* none.
LEMMA StoreTokenLogsIn ==
  ASSUME OrderlyInv, NEW c \in Clients, StoreToken(c)
  PROVE  \E u \in Users : Promise!Login(c, u)
<1>1. PICK k \in Slots : k = ri[c]
  BY Known, LocalTypes
<1>0. /\ TypeOK /\ Asks(c) /\ Manners(c) /\ c # None
      /\ request[c] = "storeToken" /\ client[c] = "login" /\ user[c] \in Users
  BY Known, LocalTypes, NotNone DEF StoreToken, RequestIn, Asks, Manners, LoginPcs
<1>2. \A i \in Slots : token[i] # c
  BY <1>0, Known DEF Unused, MayGetToken, LoginPcs
<1>3. Occupies(c, k)
  BY <1>0, <1>1 DEF Occupies
<1>4. username[k] = user[c]
  BY <1>0, <1>3 DEF OrderlyInv, OwnName
<1>5. token[k] = None
  <2> SUFFICES ASSUME token[k] \in Clients PROVE FALSE
    BY <1>0 DEF TypeOK, TableType
  <2>1. Occupies(token[k], k) BY DEF Occupies
  <2> QED BY <1>0, <1>2, <1>3, <2>1 DEF OrderlyInv, OneOccupant
<1>6. \A i \in Taken : token[i] # c /\ username[i] # user[c]
  <2>1. UniqueUsers BY DEF OrderlyInv, LoginInv
  <2> QED BY <1>0, <1>2, <1>4, <1>5, <2>1, NotNone DEF Taken, UniqueUsers
<1>7. \A s \in OpenSessions : s.client # c /\ s.user # user[c]
  BY <1>6 DEF OpenSessions, Entry
<1>8. OpenSessions' = OpenSessions \cup {[client |-> c, user |-> user[c]]}
  <2>1. token' = [token EXCEPT ![k] = c] /\ username' = username
    BY <1>1 DEF StoreToken
  <2>2. Taken' = Taken \cup {k}
    BY <1>0, <2>1 DEF Taken, TypeOK, TableType
  <2>3. Entry(k)' = [client |-> c, user |-> user[c]]
    BY <1>0, <1>4, <2>1 DEF Entry, TypeOK, TableType
  <2>4. \A i \in Taken : Entry(i)' = Entry(i)
    BY <1>0, <1>5, <2>1 DEF Entry, Taken, TypeOK, TableType
  <2> QED BY <2>2, <2>3, <2>4 DEF OpenSessions
<1>9. c \notin Leavers
  BY <1>0 DEF Leavers
<1>10. Leavers' = Leavers /\ alive' = alive
  BY DEF StoreToken, clientVars, net, Leavers
<1> QED BY <1>0, <1>5, <1>7, <1>8, <1>9, <1>10, RoomLeft, AsLogin

\* remove_user and the end of a connection close the session of their own client,
\* which asked for it, or find it closed.
LEMMA ClearingLogsOut ==
  ASSUME OrderlyInv, NEW c \in Clients, NEW k \in Slots, Occupies(c, k),
         token' = [token EXCEPT ![k] = None], username' = username,
         c \in Leavers, alive, alive' = alive, Leavers' = Leavers
  PROVE  Promise!Logout(c) \/ UNCHANGED Promise!vars
<1>0. TypeOK /\ TokenInOneSlot /\ c # None
  BY Known, NotNone
<1>1. Taken' = Taken \ {k}
  BY <1>0 DEF Taken, TypeOK, TableType
<1>2. \A i \in Taken \ {k} : Entry(i)' = Entry(i)
  BY <1>0 DEF Entry, Taken, TypeOK, TableType
<1>3. token[k] \in {c, None}
  <2> SUFFICES ASSUME token[k] \in Clients PROVE token[k] = c
    BY <1>0 DEF TypeOK, TableType
  <2>1. Occupies(token[k], k) BY DEF Occupies
  <2> QED BY <2>1 DEF OrderlyInv, OneOccupant
<1>4. CASE token[k] = None
  <2>1. Taken \ {k} = Taken BY <1>4 DEF Taken
  <2>2. OpenSessions' = OpenSessions BY <1>1, <1>2, <2>1 DEF OpenSessions
  <2> QED BY <2>2, AsStutter
<1>5. CASE token[k] = c
  <2>1. \A i \in Taken : Entry(i).client = c <=> i = k
    BY <1>0, <1>5 DEF Taken, Entry, TokenInOneSlot
  <2>2. k \in Taken /\ Entry(k) \in OpenSessions
    BY <1>0, <1>5 DEF Taken, OpenSessions
  <2>3. OpenSessions' = {t \in OpenSessions : t.client # c}
    BY <1>1, <1>2, <2>1 DEF OpenSessions
  <2> QED BY <2>1, <2>2, <2>3, AsLogout
<1> QED BY <1>3, <1>4, <1>5

\* A step that neither opens nor closes a session, nor sends a client on its way
\* out, may still end the server.
LEMMA OtherStops ==
  ASSUME OpenSessions' = OpenSessions, Leavers' = Leavers, alive,
         alive \in BOOLEAN, alive' \in BOOLEAN
  PROVE  Promise!Stop \/ UNCHANGED Promise!vars
<1>1. CASE alive' = alive
  BY <1>1, AsStutter
<1>2. CASE alive' = FALSE
  BY <1>2, AsStop
<1> QED BY <1>1, <1>2

LEMMA StepPromised ==
  ASSUME Orderly, OrderlyInv, [Next]_vars
  PROVE  [Promise!Next]_Promise!vars
<1> SUFFICES Promise!Next \/ UNCHANGED Promise!vars
  OBVIOUS
<1>1. CASE UNCHANGED vars
  <2>1. OpenSessions' = OpenSessions /\ Leavers' = Leavers /\ alive' = alive
    BY <1>1 DEF vars, table, net, clientVars, OpenSessions, Taken, Entry, Leavers
  <2> QED BY <2>1, AsStutter
<1>2. ASSUME NEW c \in Clients, ClientStep(c) \/ RequestStep(c) \/ ConnStep(c)
      PROVE  Promise!Next \/ UNCHANGED Promise!vars
  <2>0. /\ TypeOK /\ Asks(c) /\ Manners(c) /\ alive
        /\ ri[c] \in Slots /\ memory_index[c] \in Slots \cup {None}
    BY <1>2, Known, LocalTypes, AliveLeft
  <2>1. CASE StoreToken(c)
    <3>1. PICK u \in Users : Promise!Login(c, u)
      BY <2>1, StoreTokenLogsIn
    <3> QED BY <3>1 DEF Promise!Next
  <2>2. CASE RemoveToken(c)
    <3>1. /\ request[c] = "clearToken" /\ username' = username
          /\ token' = [token EXCEPT ![ri[c]] = None]
      BY <2>2 DEF RemoveToken, RequestIn
    <3>2. c \in Leavers
      BY <2>0, <3>1 DEF Asks, LogoutPcs, Leavers
    <3>3. Occupies(c, ri[c])
      BY <3>1 DEF Occupies
    <3>4. Leavers' = Leavers /\ alive' = alive
      BY <2>2 DEF RemoveToken, clientVars, net, Leavers
    <3>5. Promise!Logout(c) \/ UNCHANGED Promise!vars
      BY <2>0, <3>1, <3>2, <3>3, <3>4, ClearingLogsOut
    <3> QED BY <3>5 DEF Promise!Next
  <2>3. CASE ClearToken(c)
    <3>1. /\ conn[c] = "clearToken" /\ username' = username
          /\ token' = [token EXCEPT ![memory_index[c]] = None]
      BY <2>3 DEF ClearToken, ConnIn
    <3>2. c \in Leavers
      BY <2>0, <3>1 DEF Manners, Leavers
    <3>3. memory_index[c] \in Slots
      BY <2>0, <3>1 DEF Manners
    <3>4. Occupies(c, memory_index[c])
      BY <3>1 DEF Occupies
    <3>5. Leavers' = Leavers /\ alive' = alive
      BY <2>3 DEF ClearToken, ConnAt, clientVars, net, Leavers
    <3>6. Promise!Logout(c) \/ UNCHANGED Promise!vars
      BY <2>0, <3>1, <3>2, <3>3, <3>4, <3>5, ClearingLogsOut
    <3> QED BY <3>6 DEF Promise!Next
  <2>4. CASE ~StoreToken(c) /\ ~RemoveToken(c) /\ ~ClearToken(c)
    <3>1. OpenSessions' = OpenSessions
      BY <1>2, <2>4, SessionsLeft
    <3>2. ~Killed(c)
      BY DEF Orderly, Killed
    <3>3. CASE AskLogout(c) \/ Exit(c)
      <4>1. client[c] = "idle" /\ client' = [client EXCEPT ![c] = client'[c]]
            /\ client'[c] \in {"logout", "gone"} /\ alive' = alive
        BY <2>0, <3>3 DEF AskLogout, Exit, Leave, AtPrompt, net, TypeOK, ClientType
      <4>2. c \notin Leavers /\ Leavers' = Leavers \cup {c}
        BY <2>0, <4>1 DEF Leavers, TypeOK, ClientType
      <4>3. Promise!Leave(c)
        BY <3>1, <4>1, <4>2, AsLeave
      <4> QED BY <4>3 DEF Promise!Next
    <3>4. CASE ~AskLogout(c) /\ ~Exit(c)
      <4>1. Leavers' = Leavers
        BY <1>2, <3>2, <3>4, LeaversLeft
      <4>2. alive' \in BOOLEAN /\ alive \in BOOLEAN
        BY <1>2, <2>0, ClientTypes, RequestTypes, ConnTypes DEF TypeOK, NetType
      <4>3. Promise!Stop \/ UNCHANGED Promise!vars
        BY <2>0, <3>1, <4>1, <4>2, OtherStops
      <4> QED BY <4>3 DEF Promise!Next
    <3> QED BY <3>3, <3>4
  <2> QED BY <2>1, <2>2, <2>3, <2>4
<1> QED BY <1>1, <1>2 DEF Next

\* In the orderly workload the table of connected users (user_management.c:20-53
\* and the message_receiver threads of main.c:69-128) keeps every promise of
\* Sessions that is about safety, whatever the threads' interleaving: a client has
\* one session at most, no account is in two, there are never more sessions than
\* entries, and none ends before its client asked for it or left.
THEOREM SessionsKept ==
  ASSUME Orderly
  PROVE  Spec => KeepsSessions
<1>1. Init => Promise!Init
  <2> SUFFICES ASSUME Init PROVE Promise!Init
    OBVIOUS
  <2>1. Taken = {} /\ Leavers = {} /\ alive = TRUE
    BY DEF Init, Taken, Leavers
  <2> QED BY <2>1, AsInit DEF OpenSessions
<1>2. OrderlyInv /\ [Next]_vars => [Promise!Next]_Promise!vars
  BY StepPromised
<1> QED BY <1>1, <1>2, OrderlyInvHolds, PTL DEF Spec, KeepsSessions, Promise!Spec

=============================================================================
