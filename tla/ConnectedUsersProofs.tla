------------------------ MODULE ConnectedUsersProofs ------------------------
(***************************************************************************)
(* Proofs about ConnectedUsers, for any number of entries, clients,        *)
(* accounts and descriptors. Every invariant is proved for the steps of    *)
(* clients, of request threads and of message_receiver threads in turn,    *)
(* with one case per action.                                               *)
(***************************************************************************)
EXTENDS ConnectedUsers, TLAPS

\* The indices the loops over shared_memory go through are entries of it.
LEMMA SlotArithmetic ==
  /\ 1 \in Slots
  /\ \A i \in Slots : i # MAX_USERS_CONNECTED => i + 1 \in Slots
BY SlotsAssumption DEF Slots

\* What the client appends to its stream, and recv() takes off it.
LEMMA StreamTypes ==
  ASSUME NEW s \in Seq(Items)
  PROVE  /\ Append(s, "token") \in Seq(Items)
         /\ Append(s, "line") \in Seq(Items)
         /\ Append(s, "/logout") \in Seq(Items)
         /\ \A k \in 1 .. Len(s) : SubSeq(s, k + 1, Len(s)) \in Seq(Items)
<1>1. "token" \in Items /\ "line" \in Items /\ "/logout" \in Items
  BY DEF Items
<1> QED BY <1>1

-----------------------------------------------------------------------------
(* Types.                                                                  *)

LEMMA InitTypes == Init => TypeOK
BY SlotArithmetic
DEF Init, TypeOK, TableType, NetType, ClientType, RequestType, ConnType,
    Items, ClientPc, RequestPc, ConnPc

LEMMA ClientTypes ==
  ASSUME TypeOK, NEW c \in Clients, ClientStep(c)
  PROVE  TypeOK'
<1> USE DEF TypeOK, table, net, clientVars, requestVars, connVars
<1>0. stream[c] \in Seq(Items)
  BY DEF ClientType
<1>1. ASSUME NEW f \in Fds, Connect(c, f) PROVE TypeOK'
  BY <1>1 DEF Connect, TableType, NetType, ClientType, RequestType, ConnType,
              ClientPc, ConnPc
<1>2. ASSUME NEW u \in Users, AskLogin(c, u) PROVE TypeOK'
  BY <1>2 DEF AskLogin, TableType, NetType, ClientType, RequestType, ConnType,
              ClientPc, RequestPc
<1>3. CASE AskLogout(c)
  BY <1>3 DEF AskLogout, TableType, NetType, ClientType, RequestType, ConnType,
              ClientPc, RequestPc
<1>4. CASE LoginAnswered(c)
  <2>1. ClientType'
    <3>1. CASE reply[c] = "ok"
      BY <1>0, <1>4, <3>1, StreamTypes DEF LoginAnswered, ClientType, ClientPc
    <3>2. CASE reply[c] # "ok"
      BY <1>4, <3>2 DEF LoginAnswered, ClientType, ClientPc
    <3> QED BY <3>1, <3>2
  <2>2. RequestType' BY <1>4 DEF LoginAnswered, RequestType
  <2> QED BY <1>4, <2>1, <2>2 DEF LoginAnswered, TableType, NetType, ConnType
<1>5. CASE LogoutAnswered(c)
  <2>1. ClientType'
    <3>1. CASE reply[c] = "ok"
      BY <1>0, <1>5, <3>1, StreamTypes DEF LogoutAnswered, ClientType, ClientPc
    <3>2. CASE reply[c] # "ok"
      BY <1>5, <3>2 DEF LogoutAnswered, ClientType, ClientPc
    <3> QED BY <3>1, <3>2
  <2>2. RequestType' BY <1>5 DEF LogoutAnswered, RequestType
  <2> QED BY <1>5, <2>1, <2>2 DEF LogoutAnswered, TableType, NetType, ConnType
<1>6. CASE TypeLine(c)
  BY <1>0, <1>6, StreamTypes
  DEF TypeLine, TableType, NetType, ClientType, RequestType, ConnType
<1>7. CASE Exit(c) \/ Killed(c)
  BY <1>7 DEF Exit, Killed, Leave, TableType, NetType, ClientType, RequestType, ConnType, ClientPc
<1> QED BY <1>1, <1>2, <1>3, <1>4, <1>5, <1>6, <1>7 DEF ClientStep

LEMMA RequestTypes ==
  ASSUME TypeOK, NEW c \in Clients, RequestStep(c)
  PROVE  TypeOK'
<1> USE DEF TypeOK
<1>0. ri[c] \in Slots /\ user[c] \in Users \cup {None}
  BY DEF RequestType, ClientType
<1>1. RequestType'
  <2> USE SlotArithmetic DEF RequestType, RequestAt, RequestEnds, Last, RequestPc
  <2>1. CASE Credentials(c) BY <2>1 DEF Credentials
  <2>2. CASE CheckUnique(c) BY <2>2 DEF CheckUnique
  <2>3. CASE FindFree(c) BY <2>3 DEF FindFree
  <2>4. CASE StoreName(c) BY <2>4 DEF StoreName
  <2>5. CASE StoreToken(c) BY <2>5 DEF StoreToken
  <2>6. CASE Find(c) BY <2>6 DEF Find
  <2>7. CASE RemoveToken(c) BY <2>7 DEF RemoveToken
  <2>8. CASE RemoveName(c) BY <2>8 DEF RemoveName
  <2>9. CASE RemoveSock(c) BY <2>9 DEF RemoveSock
  <2> QED BY <2>1, <2>2, <2>3, <2>4, <2>5, <2>6, <2>7, <2>8, <2>9 DEF RequestStep
<1>2. TableType'
  <2> USE DEF TableType, table
  <2>1. CASE Credentials(c) BY <1>0, <2>1 DEF Credentials
  <2>2. CASE CheckUnique(c) BY <1>0, <2>2 DEF CheckUnique
  <2>3. CASE FindFree(c) BY <1>0, <2>3 DEF FindFree
  <2>4. CASE StoreName(c) BY <1>0, <2>4 DEF StoreName
  <2>5. CASE StoreToken(c) BY <1>0, <2>5 DEF StoreToken
  <2>6. CASE Find(c) BY <1>0, <2>6 DEF Find
  <2>7. CASE RemoveToken(c) BY <1>0, <2>7 DEF RemoveToken
  <2>8. CASE RemoveName(c) BY <1>0, <2>8 DEF RemoveName
  <2>9. CASE RemoveSock(c) BY <1>0, <2>9 DEF RemoveSock
  <2> QED BY <2>1, <2>2, <2>3, <2>4, <2>5, <2>6, <2>7, <2>8, <2>9 DEF RequestStep
<1>3. UNCHANGED <<net, clientVars, connVars>>
  BY DEF RequestStep, Credentials, CheckUnique, FindFree, StoreName, StoreToken,
         Find, RemoveToken, RemoveName, RemoveSock
<1> QED
  BY <1>1, <1>2, <1>3 DEF NetType, ClientType, ConnType, net, clientVars, connVars

LEMMA SendTypes ==
  ASSUME NetType, NEW f \in Fds, SendTo(f)
  PROVE  alive' \in BOOLEAN /\ reset' \in SUBSET Clients
BY DEF NetType, SendTo

LEMMA ConnTypes ==
  ASSUME TypeOK, NEW c \in Clients, ConnStep(c)
  PROVE  TypeOK'
<1> USE DEF TypeOK
<1>0. stream[c] \in Seq(Items) BY DEF ClientType
<1>1. ConnType'
  <2> USE SlotArithmetic DEF ConnType, ConnIn, ConnAt, NextEntry, Last, ConnPc, TableType, connVars
  <2>1. ASSUME NEW k \in 1 .. Len(stream[c]), Recv(c, k) PROVE ConnType'
    <3>1. UNCHANGED <<ci, memory_index, sock_c>>
      BY <2>1 DEF Recv
    <3>2. /\ conn[c] = "recv"
          /\ \/ UNCHANGED conn
             \/ \E pc \in {"match", "close", "send"} :
                  conn' = [conn EXCEPT ![c] = pc]
      BY <2>1 DEF Recv, ConnIn
    <3>3. \/ UNCHANGED sender
          \/ /\ memory_index[c] \in Slots
             /\ sender' = [sender EXCEPT ![c] = username[memory_index[c]]]
      BY <2>1 DEF Recv
    <3> QED BY <3>1, <3>2, <3>3
  <2>2. CASE RecvEnd(c) BY <2>2 DEF RecvEnd
  <2>3. CASE Match(c) BY <2>3 DEF Match
  <2>4. CASE Attach(c) BY <2>4 DEF Attach
  <2>5. CASE Broadcast(c) BY <2>5 DEF Broadcast
  <2>6. CASE Close(c) BY <2>6 DEF Close
  <2>7. CASE CheckSock(c) BY <2>7 DEF CheckSock
  <2>8. CASE ClearSock(c) BY <2>8 DEF ClearSock
  <2>9. CASE ClearToken(c) BY <2>9 DEF ClearToken
  <2>10. CASE ClearName(c) BY <2>10 DEF ClearName
  <2> QED BY <2>1, <2>2, <2>3, <2>4, <2>5, <2>6, <2>7, <2>8, <2>9, <2>10
          DEF ConnStep
<1>2. NetType'
  <2> USE DEF NetType, ConnAt, NextEntry, Notify, net, ConnType, ConnIn
  <2>0. /\ conn[c] # "none" => sock_c[c] \in Fds
        /\ sock[ci[c]] # None => sock[ci[c]] \in Fds
    BY DEF TableType
  <2>1. ASSUME NEW k \in 1 .. Len(stream[c]), Recv(c, k) PROVE NetType'
    <3>1. UNCHANGED <<alive, reset>> \/ SendTo(sock_c[c])
      BY <2>1 DEF Recv
    <3> QED BY <2>0, <2>1, <3>1, SendTypes DEF Recv
  <2>2. CASE RecvEnd(c) BY <2>2 DEF RecvEnd
  <2>3. CASE Match(c) BY <2>0, <2>3, SendTypes DEF Match
  <2>4. CASE Attach(c) BY <2>0, <2>4, SendTypes DEF Attach
  <2>5. CASE Broadcast(c) BY <2>0, <2>5, SendTypes DEF Broadcast
  <2>6. CASE Close(c) BY <2>6 DEF Close
  <2>7. CASE CheckSock(c) BY <2>7 DEF CheckSock
  <2>8. CASE ClearSock(c) BY <2>8 DEF ClearSock
  <2>9. CASE ClearToken(c) BY <2>9 DEF ClearToken
  <2>10. CASE ClearName(c) BY <2>10 DEF ClearName
  <2> QED BY <2>1, <2>2, <2>3, <2>4, <2>5, <2>6, <2>7, <2>8, <2>9, <2>10
          DEF ConnStep
<1>3. ClientType'
  <2> USE DEF ClientType, ConnAt, NextEntry, Notify, clientVars
  <2>1. ASSUME NEW k \in 1 .. Len(stream[c]), Recv(c, k) PROVE ClientType'
    BY <2>1, <1>0, StreamTypes DEF Recv
  <2>2. CASE RecvEnd(c) BY <2>2 DEF RecvEnd
  <2>3. CASE Match(c) BY <2>3 DEF Match
  <2>4. CASE Attach(c) BY <2>4 DEF Attach
  <2>5. CASE Broadcast(c) BY <2>5 DEF Broadcast
  <2>6. CASE Close(c) BY <2>6 DEF Close
  <2>7. CASE CheckSock(c) BY <2>7 DEF CheckSock
  <2>8. CASE ClearSock(c) BY <2>8 DEF ClearSock
  <2>9. CASE ClearToken(c) BY <2>9 DEF ClearToken
  <2>10. CASE ClearName(c) BY <2>10 DEF ClearName
  <2> QED BY <2>1, <2>2, <2>3, <2>4, <2>5, <2>6, <2>7, <2>8, <2>9, <2>10
          DEF ConnStep
<1>4. TableType'
  <2> USE DEF TableType, ConnType, ConnAt, table
  <2>1. ASSUME NEW k \in 1 .. Len(stream[c]), Recv(c, k) PROVE TableType'
    BY <2>1 DEF Recv
  <2>2. CASE RecvEnd(c) BY <2>2 DEF RecvEnd
  <2>3. CASE Match(c) BY <2>3 DEF Match
  <2>4. CASE Attach(c) BY <2>4 DEF Attach
  <2>5. CASE Broadcast(c) BY <2>5 DEF Broadcast
  <2>6. CASE Close(c) BY <2>6 DEF Close
  <2>7. CASE CheckSock(c) BY <2>7 DEF CheckSock
  <2>8. CASE ClearSock(c) BY <2>8 DEF ClearSock
  <2>9. CASE ClearToken(c) BY <2>9 DEF ClearToken
  <2>10. CASE ClearName(c) BY <2>10 DEF ClearName
  <2> QED BY <2>1, <2>2, <2>3, <2>4, <2>5, <2>6, <2>7, <2>8, <2>9, <2>10
          DEF ConnStep
<1>5. UNCHANGED requestVars
  BY DEF ConnStep, Recv, RecvEnd, Match, Attach, Broadcast, Close, CheckSock,
         ClearSock, ClearToken, ClearName, ConnAt
<1> QED
  BY <1>1, <1>2, <1>3, <1>4, <1>5 DEF RequestType, requestVars

\* Every state has the declared types.
THEOREM TypeCorrect == Spec => []TypeOK
<1>1. TypeOK /\ [Next]_vars => TypeOK'
  <2> SUFFICES ASSUME TypeOK, [Next]_vars PROVE TypeOK'
    OBVIOUS
  <2>1. CASE UNCHANGED vars
    BY <2>1 DEF vars, table, net, clientVars, requestVars, connVars, TypeOK,
                TableType, NetType, ClientType, RequestType, ConnType
  <2>2. CASE Next
    BY <2>2, ClientTypes, RequestTypes, ConnTypes DEF Next
  <2> QED BY <2>1, <2>2
<1> QED BY InitTypes, <1>1, PTL DEF Spec

-----------------------------------------------------------------------------
(* What a step may touch.                                                  *)

Locals(c) == <<client[c], user[c], held[c], stream[c], request[c], ri[c],
               reply[c], conn[c], ci[c], memory_index[c], sock_c[c], sender[c]>>

\* A step of one client and its threads leaves the locals of the others alone.
LEMMA Locality ==
  ASSUME TypeOK, NEW c \in Clients, ClientStep(c) \/ RequestStep(c) \/ ConnStep(c),
         NEW d \in Clients \ {c}
  PROVE  UNCHANGED Locals(d)
<1> USE DEF Locals, clientVars, requestVars, connVars, TypeOK, ClientType,
            RequestType, ConnType
<1>1. CASE ClientStep(c)
  <2>1. ASSUME NEW f \in Fds, Connect(c, f) PROVE UNCHANGED Locals(d)
    BY <2>1 DEF Connect
  <2>2. ASSUME NEW u \in Users, AskLogin(c, u) PROVE UNCHANGED Locals(d)
    BY <2>2 DEF AskLogin
  <2>3. CASE AskLogout(c) BY <2>3 DEF AskLogout
  <2>4. CASE LoginAnswered(c) BY <2>4 DEF LoginAnswered
  <2>5. CASE LogoutAnswered(c) BY <2>5 DEF LogoutAnswered
  <2>6. CASE TypeLine(c) BY <2>6 DEF TypeLine
  <2>7. CASE Exit(c) \/ Killed(c) BY <2>7 DEF Exit, Killed, Leave
  <2> QED BY <1>1, <2>1, <2>2, <2>3, <2>4, <2>5, <2>6, <2>7 DEF ClientStep
<1>2. CASE RequestStep(c)
  <2>1. UNCHANGED <<clientVars, connVars>>
    BY <1>2 DEF RequestStep, Credentials, CheckUnique, FindFree, StoreName,
                StoreToken, Find, RemoveToken, RemoveName, RemoveSock
  <2>2. UNCHANGED <<request[d], ri[d], reply[d]>>
    BY <1>2 DEF RequestStep, RequestAt, RequestEnds, Credentials, CheckUnique,
                FindFree, StoreName, StoreToken, Find, RemoveToken, RemoveName,
                RemoveSock
  <2> QED BY <2>1, <2>2
<1>3. CASE ConnStep(c)
  <2> USE DEF ConnAt, NextEntry
  <2>1. ASSUME NEW k \in 1 .. Len(stream[c]), Recv(c, k)
        PROVE  UNCHANGED Locals(d)
    BY <2>1 DEF Recv
  <2>2. CASE RecvEnd(c) BY <2>2 DEF RecvEnd
  <2>3. CASE Match(c) BY <2>3 DEF Match
  <2>4. CASE Attach(c) BY <2>4 DEF Attach
  <2>5. CASE Broadcast(c) BY <2>5 DEF Broadcast
  <2>6. CASE Close(c) BY <2>6 DEF Close
  <2>7. CASE CheckSock(c) BY <2>7 DEF CheckSock
  <2>8. CASE ClearSock(c) BY <2>8 DEF ClearSock
  <2>9. CASE ClearToken(c) BY <2>9 DEF ClearToken
  <2>10. CASE ClearName(c) BY <2>10 DEF ClearName
  <2> QED BY <1>3, <2>1, <2>2, <2>3, <2>4, <2>5, <2>6, <2>7, <2>8, <2>9, <2>10
          DEF ConnStep
<1> QED BY <1>1, <1>2, <1>3

\* Each field of the table is filled in by one action only.
LEMMA TableWriters ==
  ASSUME TypeOK, NEW c \in Clients, ClientStep(c) \/ RequestStep(c) \/ ConnStep(c)
  PROVE  /\ StoreName(c) \/ \A i \in Slots : username'[i] \in {username[i], None}
         /\ StoreToken(c) \/ \A i \in Slots : token'[i] \in {token[i], None}
         /\ Attach(c) \/ \A i \in Slots : sock'[i] \in {sock[i], None}
<1> USE DEF TypeOK, TableType, table
<1>1. CASE ClientStep(c)
  BY <1>1 DEF ClientStep, Connect, AskLogin, AskLogout, LoginAnswered,
              LogoutAnswered, TypeLine, Leave, Exit, Killed
<1>2. CASE RequestStep(c)
  BY <1>2 DEF RequestStep, Credentials, CheckUnique, FindFree, StoreName,
              StoreToken, Find, RemoveToken, RemoveName, RemoveSock
<1>3. CASE ConnStep(c)
  BY <1>3 DEF ConnStep, Recv, RecvEnd, Match, Attach, Broadcast, Close,
              CheckSock, ClearSock, ClearToken, ClearName
<1> QED BY <1>1, <1>2, <1>3

-----------------------------------------------------------------------------
(* The course of one client, on which its one token depends.               *)

LoginPcs  == {"check", "unique", "free", "storeName", "storeToken"}
LogoutPcs == {"find", "clearToken", "clearName", "clearSock"}

\* The command loop waits for one request at a time, and message_receiver
\* looks for a token only after the client was given one.
Course(c) ==
  /\ client[c] = "out" =>
       /\ ~held[c] /\ stream[c] = <<>>
       /\ conn[c] = "none" /\ request[c] = "none" /\ reply[c] = "none"
  /\ client[c] = "idle" => request[c] = "none" /\ reply[c] = "none"
  /\ client[c] = "login" => ~held[c]
  /\ client[c] = "logout" => held[c]
  /\ request[c] \in LoginPcs =>
       ~held[c] /\ reply[c] = "none" /\ client[c] \in {"login", "gone"}
  /\ request[c] \in LogoutPcs => held[c] /\ reply[c] = "none"
  /\ \A k \in 1 .. Len(stream[c]) : stream[c][k] = "token" => held[c]
  /\ conn[c] \in {"match", "attach"} => held[c]

LEMMA CourseKept ==
  ASSUME TypeOK, NEW c \in Clients, Course(c),
         ClientStep(c) \/ RequestStep(c) \/ ConnStep(c)
  PROVE  Course(c)'
<1> USE DEF Course, LoginPcs, LogoutPcs
<1>0. stream[c] \in Seq(Items) /\ request[c] \in RequestPc
  BY DEF TypeOK, ClientType, RequestType
<1>1. CASE ClientStep(c)
  <2> USE DEF TypeOK, ClientType, RequestType, ConnType, RequestPc, clientVars,
              requestVars, connVars, AtPrompt
  <2>1. ASSUME NEW f \in Fds, Connect(c, f) PROVE Course(c)'
    BY <2>1 DEF Connect
  <2>2. ASSUME NEW u \in Users, AskLogin(c, u) PROVE Course(c)'
    BY <2>2 DEF AskLogin
  <2>3. CASE AskLogout(c) BY <2>3 DEF AskLogout
  <2>4. CASE LoginAnswered(c) BY <1>0, <2>4 DEF LoginAnswered
  <2>5. CASE LogoutAnswered(c) BY <1>0, <2>5 DEF LogoutAnswered
  <2>6. CASE TypeLine(c) BY <1>0, <2>6 DEF TypeLine
  <2>7. CASE Exit(c) \/ Killed(c) BY <2>7 DEF Exit, Killed, Leave
  <2> QED BY <1>1, <2>1, <2>2, <2>3, <2>4, <2>5, <2>6, <2>7 DEF ClientStep
<1>2. CASE RequestStep(c)
  <2>1. UNCHANGED <<clientVars, connVars>>
    BY <1>2 DEF RequestStep, Credentials, CheckUnique, FindFree, StoreName,
                StoreToken, Find, RemoveToken, RemoveName, RemoveSock
  <2>2. /\ request[c] # "none"
        /\ \/ request'[c] = "none"
           \/ /\ reply'[c] = reply[c]
              /\ \/ request[c] \in LoginPcs /\ request'[c] \in LoginPcs
                 \/ request[c] \in LogoutPcs /\ request'[c] \in LogoutPcs
    BY <1>2 DEF RequestStep, RequestIn, RequestAt, RequestEnds, Credentials,
                CheckUnique, FindFree, StoreName, StoreToken, Find, RemoveToken,
                RemoveName, RemoveSock, TypeOK, RequestType
  <2> QED BY <1>0, <2>1, <2>2 DEF clientVars, connVars, RequestPc
<1>3. CASE ConnStep(c)
  <2> USE DEF TypeOK, ClientType, ConnType, clientVars, requestVars, connVars,
              ConnIn, ConnAt, NextEntry
  <2>1. ASSUME NEW k \in 1 .. Len(stream[c]), Recv(c, k) PROVE Course(c)'
    <3>1. /\ conn[c] = "recv"
          /\ stream'[c] = SubSeq(stream[c], k + 1, Len(stream[c]))
          /\ conn'[c] = "match" => k = 1 /\ Head(stream[c]) = "token"
      BY <2>1 DEF Recv
    <3>2. \A n \in 1 .. Len(stream'[c]) :
            k + n \in 1 .. Len(stream[c]) /\ stream'[c][n] = stream[c][k + n]
      BY <1>0, <3>1
    <3>3. conn'[c] = "match" => held[c]
      BY <1>0, <3>1
    <3>4. client[c] # "out" /\ conn'[c] # "attach"
      BY <2>1, <3>1 DEF Recv
    <3>5. UNCHANGED <<client, held, request, reply>>
      BY <2>1 DEF Recv
    <3> QED BY <3>2, <3>3, <3>4, <3>5
  <2>2. CASE RecvEnd(c) BY <2>2 DEF RecvEnd
  <2>3. CASE Match(c) BY <2>3 DEF Match
  <2>4. CASE Attach(c) BY <2>4 DEF Attach
  <2>5. CASE Broadcast(c) BY <2>5 DEF Broadcast
  <2>6. CASE Close(c) BY <2>6 DEF Close
  <2>7. CASE CheckSock(c) BY <2>7 DEF CheckSock
  <2>8. CASE ClearSock(c) BY <2>8 DEF ClearSock
  <2>9. CASE ClearToken(c) BY <2>9 DEF ClearToken
  <2>10. CASE ClearName(c) BY <2>10 DEF ClearName
  <2> QED BY <1>3, <2>1, <2>2, <2>3, <2>4, <2>5, <2>6, <2>7, <2>8, <2>9, <2>10
          DEF ConnStep
<1> QED BY <1>1, <1>2, <1>3

-----------------------------------------------------------------------------
(* One token, one entry, one attachment.                                   *)

\* The client may still be given its token.
MayGetToken(c) ==
  \/ client[c] = "out"
  \/ client[c] = "idle" /\ ~held[c]
  \/ client[c] = "login" /\ reply[c] = "refused"
  \/ request[c] \in LoginPcs

Unused(c) == MayGetToken(c) => \A i \in Slots : token[i] # c

\* After its match the scan of message_receiver meets the token no more.
AttachOnce(c) ==
  /\ conn[c] = "attach" =>
       memory_index[c] = None /\ \A i \in Slots : token[i] = c => i = ci[c]
  /\ conn[c] = "match" /\ memory_index[c] # None =>
       \A i \in Slots : token[i] = c => i < ci[c]

TokenInv ==
  /\ TypeOK
  /\ TokenInOneSlot
  /\ \A c \in Clients : Course(c) /\ Unused(c) /\ AttachOnce(c)

LEMMA UnusedKept ==
  ASSUME TokenInv, NEW c \in Clients,
         ClientStep(c) \/ RequestStep(c) \/ ConnStep(c)
  PROVE  Unused(c)'
<1> USE DEF Unused, MayGetToken
<1>0. TypeOK /\ Course(c) /\ Unused(c)
  BY DEF TokenInv
<1>1. CASE StoreToken(c)
  BY <1>0, <1>1 DEF StoreToken, RequestIn, RequestEnds, Course, LoginPcs, TypeOK,
     RequestType, clientVars
<1>2. CASE ~StoreToken(c)
  <2>1. \A i \in Slots : token'[i] \in {token[i], None}
    BY <1>0, <1>2, TableWriters
  <2>2. MayGetToken(c)' => MayGetToken(c)
    <3> USE <1>0 DEF Course, LoginPcs, LogoutPcs, TypeOK, ClientType, RequestType,
                     RequestPc, ConnType
    <3>1. CASE ClientStep(c)
      BY <3>1 DEF ClientStep, Connect, AskLogin, AskLogout, LoginAnswered,
                  LogoutAnswered, TypeLine, Leave, Exit, Killed, AtPrompt, requestVars
    <3>2. CASE RequestStep(c)
      <4>1. /\ UNCHANGED <<client, held>>
            /\ request[c] \in LoginPcs \/ request[c] \in LogoutPcs
        BY <3>2 DEF RequestStep, RequestIn, Credentials, CheckUnique, FindFree,
                    StoreName, StoreToken, Find, RemoveToken, RemoveName,
                    RemoveSock, clientVars
      <4>2. request[c] \in LogoutPcs => request'[c] \in LogoutPcs \cup {"none"}
        BY <3>2 DEF RequestStep, RequestIn, RequestAt, RequestEnds, Credentials,
                    CheckUnique, FindFree, StoreName, StoreToken, Find,
                    RemoveToken, RemoveName, RemoveSock
      <4> QED BY <4>1, <4>2
    <3>3. CASE ConnStep(c)
      BY <3>3 DEF ConnStep, Recv, RecvEnd, Match, Attach, Broadcast, Close,
                  CheckSock, ClearSock, ClearToken, ClearName, ConnAt,
                  requestVars, clientVars
    <3> QED BY <3>1, <3>2, <3>3
  <2> QED BY <1>0, <2>1, <2>2, NoneAssumption
<1> QED BY <1>1, <1>2

LEMMA OneSlotKept ==
  ASSUME TokenInv, NEW c \in Clients,
         ClientStep(c) \/ RequestStep(c) \/ ConnStep(c)
  PROVE  TokenInOneSlot'
<1> USE DEF TokenInv, TokenInOneSlot
<1>1. CASE StoreToken(c)
  <2>1. \A i \in Slots : token[i] # c
    BY <1>1 DEF Unused, MayGetToken, StoreToken, RequestIn, LoginPcs
  <2>2. /\ token' = [token EXCEPT ![ri[c]] = c]
        /\ ri[c] \in Slots /\ token \in [Slots -> Clients \cup {None}]
    BY <1>1 DEF StoreToken, TypeOK, TableType, RequestType
  <2> QED BY <2>1, <2>2 DEF Slots
<1>2. CASE ~StoreToken(c)
  <2>1. \A i \in Slots : token'[i] \in {token[i], None}
    BY <1>2, TableWriters
  <2> QED BY <2>1 DEF Slots
<1> QED BY <1>1, <1>2

LEMMA AttachOnceKept ==
  ASSUME TokenInv, NEW c \in Clients,
         ClientStep(c) \/ RequestStep(c) \/ ConnStep(c)
  PROVE  AttachOnce(c)'
<1> USE DEF AttachOnce
<1>0. /\ TypeOK /\ TokenInOneSlot /\ Course(c) /\ AttachOnce(c)
      /\ ci[c] \in Slots /\ memory_index[c] \in Slots \cup {None}
  BY DEF TokenInv, TypeOK, ConnType
<1>1. CASE StoreToken(c)
  BY <1>0, <1>1 DEF StoreToken, RequestIn, Course, LoginPcs, connVars
<1>2. CASE ~StoreToken(c)
  <2>1. \A i \in Slots : token'[i] = c => token[i] = c
    BY <1>0, <1>2, TableWriters, NoneAssumption
  <2> USE <1>0, <2>1 DEF TypeOK, ConnType, ConnIn, ConnAt, NextEntry, Last
  <2>2. CASE ClientStep(c)
    BY <2>2 DEF ClientStep, Connect, AskLogin, AskLogout, LoginAnswered,
                LogoutAnswered, TypeLine, Leave, Exit, Killed, connVars
  <2>3. CASE RequestStep(c)
    BY <2>3 DEF RequestStep, Credentials, CheckUnique, FindFree, StoreName,
                StoreToken, Find, RemoveToken, RemoveName, RemoveSock, connVars
  <2>4. CASE ConnStep(c)
    <3>1. ASSUME NEW k \in 1 .. Len(stream[c]), Recv(c, k) PROVE AttachOnce(c)'
      BY <3>1 DEF Recv
    <3>2. CASE Match(c)
      <4>0. conn[c] = "match" /\ UNCHANGED memory_index
        BY <3>2 DEF Match
      <4>1. CASE token[ci[c]] = c
        <5>1. conn'[c] = "attach" /\ UNCHANGED ci
          BY <3>2, <4>1 DEF Match
        <5>2. memory_index[c] = None
          BY <4>0, <4>1 DEF Slots
        <5>3. \A i \in Slots : token[i] = c => i = ci[c]
          BY <4>1, NoneAssumption DEF TokenInOneSlot
        <5> QED BY <4>0, <5>1, <5>2, <5>3
      <4>2. CASE token[ci[c]] # c
        <5>1. \/ conn'[c] = "recv"
              \/ conn'[c] = "match" /\ ci'[c] = ci[c] + 1
          BY <3>2, <4>2 DEF Match
        <5> QED BY <4>0, <5>1 DEF Slots
      <4> QED BY <4>1, <4>2
    <3>3. CASE Attach(c)
      <4>1. conn[c] = "attach" /\ \A i \in Slots : token[i] = c => i = ci[c]
        BY <3>3 DEF Attach
      <4>2. \/ conn'[c] = "recv"
            \/ conn'[c] = "match" /\ ci'[c] = ci[c] + 1
        BY <3>3 DEF Attach
      <4> QED BY <4>1, <4>2 DEF Slots
    <3>4. CASE RecvEnd(c) BY <3>4 DEF RecvEnd
    <3>5. CASE Broadcast(c) BY <3>5 DEF Broadcast
    <3>6. CASE Close(c) BY <3>6 DEF Close
    <3>7. CASE CheckSock(c) \/ ClearSock(c) \/ ClearToken(c) \/ ClearName(c)
      BY <3>7 DEF CheckSock, ClearSock, ClearToken, ClearName
    <3> QED BY <2>4, <3>1, <3>2, <3>3, <3>4, <3>5, <3>6, <3>7 DEF ConnStep
  <2> QED BY <2>2, <2>3, <2>4
<1> QED BY <1>1, <1>2

LEMMA TokenInvKept == TokenInv /\ [Next]_vars => TokenInv'
<1> SUFFICES ASSUME TokenInv, [Next]_vars PROVE TokenInv'
  OBVIOUS
<1>1. CASE UNCHANGED vars
  BY <1>1 DEF vars, table, net, clientVars, requestVars, connVars, TokenInv, TypeOK,
     TableType, NetType, ClientType, RequestType, ConnType, TokenInOneSlot, Course,
     Unused, MayGetToken, AttachOnce
<1>2. ASSUME NEW c \in Clients, ClientStep(c) \/ RequestStep(c) \/ ConnStep(c)
      PROVE  TokenInv'
  <2>1. TypeOK /\ Course(c)
    BY DEF TokenInv
  <2>2. TypeOK'
    BY <1>2, <2>1, ClientTypes, RequestTypes, ConnTypes
  <2>3. TokenInOneSlot' /\ Course(c)' /\ Unused(c)' /\ AttachOnce(c)'
    BY <1>2, <2>1, CourseKept, UnusedKept, OneSlotKept, AttachOnceKept
  <2>4. ASSUME NEW d \in Clients \ {c}
        PROVE  Course(d)' /\ Unused(d)' /\ AttachOnce(d)'
    <3>1. UNCHANGED Locals(d)
      BY <1>2, <2>1, Locality
    <3>2. Course(d) /\ Unused(d) /\ AttachOnce(d)
      BY DEF TokenInv
    <3>3. \A i \in Slots : token'[i] = d => token[i] = d
      <4>1. CASE StoreToken(c)
        BY <2>1, <4>1 DEF StoreToken, TypeOK, TableType
      <4>2. CASE ~StoreToken(c)
        BY <1>2, <2>1, <4>2, TableWriters, NoneAssumption
      <4> QED BY <4>1, <4>2
    <3>4. Course(d)'
      BY <3>1, <3>2 DEF Locals, Course
    <3>5. Unused(d)' /\ AttachOnce(d)'
      BY <3>1, <3>2, <3>3 DEF Locals, Unused, MayGetToken, AttachOnce
    <3> QED BY <3>4, <3>5
  <2> QED BY <2>2, <2>3, <2>4 DEF TokenInv
<1> QED BY <1>1, <1>2 DEF Next

LEMMA TokenInvHolds == Spec => []TokenInv
<1>1. Init => TokenInv
  <2> SUFFICES ASSUME Init PROVE TokenInv
    OBVIOUS
  <2>1. \A c \in Clients : Course(c) /\ Unused(c) /\ AttachOnce(c)
    BY NoneAssumption DEF Init, Course, Unused, AttachOnce, LoginPcs, LogoutPcs
  <2> QED BY <2>1, InitTypes DEF Init, TokenInv, TokenInOneSlot
<1> QED BY <1>1, TokenInvKept, PTL DEF Spec

\* A token is in one entry, for any number of clients and entries and however
\* the threads interleave, overlapping log ins included.
THEOREM TokenUnique == Spec => []TokenInOneSlot
<1>1. TokenInv => TokenInOneSlot
  BY DEF TokenInv
<1> QED BY <1>1, TokenInvHolds, PTL

-----------------------------------------------------------------------------
(* Every descriptor in the table has a thread that will clear it.          *)

LEMMA NoOrphanKept ==
  ASSUME TokenInv, NoOrphanSocket, NEW c \in Clients,
         ClientStep(c) \/ RequestStep(c) \/ ConnStep(c)
  PROVE  NoOrphanSocket'
<1> SUFFICES ASSUME NEW i \in Slots, sock'[i] # None
             PROVE  \E d \in Clients : WillClear(d, i)' /\ sock_c'[d] = sock'[i]
  BY DEF NoOrphanSocket
<1>0. TypeOK /\ Course(c) /\ AttachOnce(c)
  BY DEF TokenInv
<1>1. CASE Attach(c) /\ i = ci[c]
  <2>1. memory_index'[c] = i /\ sock_c'[c] = sock'[i] /\ conn'[c] \in {"match", "recv"}
    BY <1>0, <1>1 DEF Attach, NextEntry, TypeOK, TableType, ConnType
  <2> QED BY <2>1 DEF WillClear
<1>2. CASE ~(Attach(c) /\ i = ci[c])
  <2>1. sock[i] # None /\ sock'[i] = sock[i]
    <3>1. CASE Attach(c)
      BY <1>0, <1>2, <3>1 DEF Attach, TypeOK, TableType
    <3>2. CASE ~Attach(c)
      BY <1>0, <3>2, TableWriters
    <3> QED BY <3>1, <3>2
  <2>2. PICK d \in Clients : WillClear(d, i) /\ sock_c[d] = sock[i]
    BY <2>1 DEF NoOrphanSocket
  <2>3. CASE d # c
    <3>1. UNCHANGED Locals(d)
      BY <1>0, <2>3, Locality
    <3> QED BY <2>1, <2>2, <3>1 DEF Locals, WillClear
  <2>4. CASE d = c
    <3>1. WillClear(c, i) /\ sock_c[c] = sock[i]
      BY <2>2, <2>4
    <3>2. WillClear(c, i)' /\ sock_c'[c] = sock_c[c]
      <4> USE <1>0, <3>1 DEF WillClear, TypeOK, ConnType, ConnIn, ConnAt, NextEntry
      <4>1. CASE ClientStep(c)
        BY <4>1 DEF ClientStep, Connect, AskLogin, AskLogout, LoginAnswered,
                    LogoutAnswered, TypeLine, Leave, Exit, Killed, connVars, Course
      <4>2. CASE RequestStep(c)
        BY <4>2 DEF RequestStep, Credentials, CheckUnique, FindFree, StoreName,
                    StoreToken, Find, RemoveToken, RemoveName, RemoveSock, connVars
      <4>3. CASE ConnStep(c)
        <5>1. ASSUME NEW k \in 1 .. Len(stream[c]), Recv(c, k)
              PROVE  WillClear(c, i)' /\ sock_c'[c] = sock_c[c]
          BY <5>1 DEF Recv
        <5>2. CASE RecvEnd(c) BY <5>2 DEF RecvEnd
        <5>3. CASE Match(c)
          <6>1. CASE token[ci[c]] = c
            BY <1>0, <3>1, <5>3, <6>1, NoneAssumption DEF Match, AttachOnce, Slots
          <6>2. CASE token[ci[c]] # c
            BY <5>3, <6>2 DEF Match
          <6> QED BY <6>1, <6>2
        <5>4. CASE Attach(c) BY <5>4 DEF Attach
        <5>5. CASE Broadcast(c) BY <5>5 DEF Broadcast
        <5>6. CASE Close(c) BY <5>6 DEF Close
        <5>7. CASE CheckSock(c)
          <6>1. memory_index[c] # None /\ sock[memory_index[c]] = sock_c[c]
            BY NoneAssumption, <2>1 DEF Slots
          <6> QED BY <5>7, <6>1 DEF CheckSock
        <5>8. CASE ClearSock(c)
          BY <2>1, <5>8 DEF ClearSock, TableType
        <5>9. CASE ClearToken(c) BY <5>9 DEF ClearToken
        <5>10. CASE ClearName(c) BY <5>10 DEF ClearName
        <5> QED BY <4>3, <5>1, <5>2, <5>3, <5>4, <5>5, <5>6, <5>7, <5>8, <5>9,
                   <5>10 DEF ConnStep
      <4> QED BY <4>1, <4>2, <4>3
    <3> QED BY <2>1, <3>1, <3>2
  <2> QED BY <2>3, <2>4
<1> QED BY <1>1, <1>2

\* However log ins, log outs, broken connections and descriptors accept() hands
\* out again interleave, no descriptor is left in the table for good.
THEOREM SocketsOwned == Spec => []NoOrphanSocket
<1>1. Init => NoOrphanSocket
  BY DEF Init, NoOrphanSocket
<1>2. TokenInv /\ NoOrphanSocket /\ [Next]_vars => NoOrphanSocket'
  <2> SUFFICES ASSUME TokenInv, NoOrphanSocket, [Next]_vars PROVE NoOrphanSocket'
    OBVIOUS
  <2>1. CASE UNCHANGED vars
    BY <2>1 DEF vars, table, connVars, NoOrphanSocket, WillClear
  <2>2. CASE Next
    BY <2>2, NoOrphanKept DEF Next
  <2> QED BY <2>1, <2>2
<1> QED BY <1>1, <1>2, TokenInvHolds, PTL DEF Spec

-----------------------------------------------------------------------------
(* Every half-open entry has a thread at work on it.                       *)

Worker(c, i) == HalfWay(c, i) \/ (conn[c] = "clearName" /\ memory_index[c] = i)

LEMMA HalfOpenKept ==
  ASSUME TokenInv, HalfOpenHasWorker, NEW c \in Clients,
         ClientStep(c) \/ RequestStep(c) \/ ConnStep(c)
  PROVE  HalfOpenHasWorker'
<1> SUFFICES ASSUME NEW i \in Slots, username'[i] # None, token'[i] = None
             PROVE  \E d \in Clients : Worker(d, i)'
  BY DEF HalfOpenHasWorker, Worker, HalfWay
<1>0. TypeOK /\ Course(c)
  BY DEF TokenInv
<1>1. CASE username[i] = None
  <2>1. StoreName(c) /\ i = ri[c]
    <3>1. StoreName(c) BY <1>0, <1>1, TableWriters
    <3> QED BY <1>0, <1>1, <3>1 DEF StoreName, TypeOK, TableType
  <2>2. request'[c] = "storeToken" /\ ri'[c] = i
    BY <1>0, <2>1 DEF StoreName, RequestAt, TypeOK, RequestType
  <2> QED BY <2>2 DEF Worker, HalfWay
<1>2. CASE token[i] # None
  <2>1. \/ RemoveToken(c) /\ ri[c] = i
        \/ ClearToken(c) /\ memory_index[c] = i
    <3> USE <1>0, <1>2, NoneAssumption DEF TypeOK, TableType, table
    <3>1. CASE ClientStep(c)
      BY <3>1 DEF ClientStep, Connect, AskLogin, AskLogout, LoginAnswered,
                  LogoutAnswered, TypeLine, Leave, Exit, Killed
    <3>2. CASE RequestStep(c)
      BY <3>2 DEF RequestStep, Credentials, CheckUnique, FindFree, StoreName,
                  StoreToken, Find, RemoveToken, RemoveName, RemoveSock
    <3>3. CASE ConnStep(c)
      BY <3>3 DEF ConnStep, Recv, RecvEnd, Match, Attach, Broadcast, Close,
                  CheckSock, ClearSock, ClearToken, ClearName
    <3> QED BY <3>1, <3>2, <3>3
  <2>2. CASE RemoveToken(c) /\ ri[c] = i
    <3>1. request'[c] = "clearName" /\ ri'[c] = i
      BY <1>0, <2>2 DEF RemoveToken, RequestAt, TypeOK, RequestType
    <3> QED BY <3>1 DEF Worker, HalfWay
  <2>3. CASE ClearToken(c) /\ memory_index[c] = i
    <3>1. conn'[c] = "clearName" /\ memory_index'[c] = i
      BY <1>0, <2>3 DEF ClearToken, ConnAt, TypeOK, ConnType
    <3> QED BY <3>1 DEF Worker
  <2> QED BY <2>1, <2>2, <2>3
<1>3. CASE username[i] # None /\ token[i] = None
  <2>1. PICK d \in Clients : Worker(d, i)
    BY <1>3 DEF HalfOpenHasWorker, Worker
  <2>2. CASE d # c
    <3>1. UNCHANGED Locals(d)
      BY <1>0, <2>2, Locality
    <3> QED BY <2>1, <3>1 DEF Locals, Worker, HalfWay
  <2>3. CASE d = c
    <3>1. Worker(c, i)
      BY <2>1, <2>3
    <3> USE <1>0, <3>1 DEF Worker, HalfWay
    <3>2. CASE ClientStep(c)
      BY <3>2 DEF ClientStep, Connect, AskLogin, AskLogout, LoginAnswered,
                  LogoutAnswered, TypeLine, Leave, Exit, Killed, AtPrompt, requestVars,
                  connVars, Course
    <3>3. CASE RequestStep(c)
      <4>1. CASE StoreToken(c)
        <5>1. ri[c] # i
          BY <4>1, NoneAssumption DEF StoreToken, TypeOK, TableType
        <5> QED BY <4>1, <5>1 DEF StoreToken, connVars
      <4>2. CASE RemoveName(c)
        <5>1. ri[c] # i
          BY <4>2 DEF RemoveName, TypeOK, TableType
        <5> QED BY <4>2, <5>1 DEF RemoveName, connVars
      <4>3. CASE ~StoreToken(c) /\ ~RemoveName(c)
        BY <3>3, <4>3 DEF RequestStep, RequestIn, Credentials, CheckUnique,
           FindFree, StoreName, Find, RemoveToken, RemoveSock, connVars
      <4> QED BY <4>1, <4>2, <4>3
    <3>4. CASE ConnStep(c)
      <4>1. CASE ClearName(c)
        <5>1. memory_index[c] # i
          BY <4>1 DEF ClearName, TypeOK, TableType
        <5> QED BY <4>1, <5>1 DEF ClearName, ConnAt, requestVars
      <4>2. CASE ~ClearName(c)
        BY <3>4, <4>2 DEF ConnStep, ConnIn, Recv, RecvEnd, Match, Attach,
           Broadcast, Close, CheckSock, ClearSock, ClearToken, ConnAt, requestVars
      <4> QED BY <4>1, <4>2
    <3> QED BY <3>2, <3>3, <3>4
  <2> QED BY <2>2, <2>3
<1> QED BY <1>1, <1>2, <1>3

\* No name is left in the table without a token and without a thread that will
\* give it one or clear it.
THEOREM HalfOpenTended == Spec => []HalfOpenHasWorker
<1>1. Init => HalfOpenHasWorker
  BY DEF Init, HalfOpenHasWorker
<1>2. TokenInv /\ HalfOpenHasWorker /\ [Next]_vars => HalfOpenHasWorker'
  <2> SUFFICES ASSUME TokenInv, HalfOpenHasWorker, [Next]_vars
               PROVE  HalfOpenHasWorker'
    OBVIOUS
  <2>1. CASE UNCHANGED vars
    BY <2>1 DEF vars, table, requestVars, connVars, HalfOpenHasWorker, HalfWay
  <2>2. CASE Next
    BY <2>2, HalfOpenKept DEF Next
  <2> QED BY <2>1, <2>2
<1> QED BY <1>1, <1>2, TokenInvHolds, PTL DEF Spec

-----------------------------------------------------------------------------
(* Without overlapping request threads no account is in the table twice.   *)

\* What the loops of add_user know of the table at each of their steps.
LoginKnows(c) ==
  /\ request[c] \in LoginPcs => user[c] \in Users
  /\ request[c] = "unique" =>
       \A i \in Slots : i < ri[c] => username[i] # user[c]
  /\ request[c] \in {"free", "storeName"} =>
       \A i \in Slots : username[i] # user[c]
  /\ request[c] = "storeName" => username[ri[c]] = None

OneRequest ==
  \A c, d \in Clients : request[c] # "none" /\ request[d] # "none" => c = d

LoginInv ==
  /\ TokenInv /\ UniqueUsers /\ OneRequest
  /\ \A c \in Clients : LoginKnows(c)

LEMMA OneRequestKept ==
  ASSUME ~Overlap, LoginInv, NEW c \in Clients,
         ClientStep(c) \/ RequestStep(c) \/ ConnStep(c)
  PROVE  OneRequest'
<1>0. TypeOK /\ OneRequest
  BY DEF LoginInv, TokenInv
<1>1. \A d \in Clients \ {c} : request'[d] = request[d]
  BY <1>0, Locality DEF Locals
<1>2. request'[c] # "none" =>
        request[c] # "none" \/ \A d \in Clients : request[d] = "none"
  <2>1. CASE ClientStep(c)
    BY <2>1 DEF ClientStep, Connect, AskLogin, AskLogout, LoginAnswered,
                LogoutAnswered, TypeLine, Leave, Exit, Killed, CanStart, requestVars
  <2>2. CASE RequestStep(c)
    BY <2>2 DEF RequestStep, RequestIn, Credentials, CheckUnique, FindFree,
       StoreName, StoreToken, Find, RemoveToken, RemoveName, RemoveSock
  <2>3. CASE ConnStep(c)
    BY <2>3 DEF ConnStep, Recv, RecvEnd, Match, Attach, Broadcast, Close,
       CheckSock, ClearSock, ClearToken, ClearName, ConnAt, requestVars
  <2> QED BY <2>1, <2>2, <2>3
<1> QED BY <1>0, <1>1, <1>2 DEF OneRequest

LEMMA UniqueKept ==
  ASSUME LoginInv, NEW c \in Clients,
         ClientStep(c) \/ RequestStep(c) \/ ConnStep(c)
  PROVE  UniqueUsers'
<1>0. TypeOK /\ UniqueUsers /\ LoginKnows(c)
  BY DEF LoginInv, TokenInv
<1>1. CASE StoreName(c)
  <2>1. /\ username' = [username EXCEPT ![ri[c]] = user[c]]
        /\ \A i \in Slots : username[i] # user[c]
    BY <1>0, <1>1 DEF StoreName, RequestIn, LoginKnows
  <2> QED BY <1>0, <2>1 DEF UniqueUsers, TypeOK, TableType, Slots
<1>2. CASE ~StoreName(c)
  <2>1. \A i \in Slots : username'[i] \in {username[i], None}
    BY <1>0, <1>2, TableWriters
  <2> QED BY <1>0, <2>1 DEF UniqueUsers, Slots
<1> QED BY <1>1, <1>2

LEMMA LoginKnowsKept ==
  ASSUME LoginInv, NEW c \in Clients,
         ClientStep(c) \/ RequestStep(c) \/ ConnStep(c)
  PROVE  LoginKnows(c)'
<1> USE DEF LoginKnows, LoginPcs
<1>0. TypeOK /\ LoginKnows(c) /\ Course(c) /\ ri[c] \in Slots
  BY DEF LoginInv, TokenInv, TypeOK, RequestType
<1>1. CASE StoreName(c)
  BY <1>0, <1>1 DEF StoreName, RequestIn, RequestAt, clientVars, TypeOK, RequestType
<1>2. CASE ~StoreName(c)
  <2>1. \A i \in Slots : username'[i] \in {username[i], None}
    BY <1>0, <1>2, TableWriters
  <2>2. CASE ClientStep(c)
    <3>1. ASSUME NEW u \in Users, AskLogin(c, u) PROVE LoginKnows(c)'
      BY <1>0, <3>1 DEF AskLogin, TypeOK, RequestType, ClientType
    <3>2. CASE UNCHANGED <<request[c], ri[c], user[c]>>
      BY <1>0, <2>1, <3>2, NoneAssumption
    <3>3. CASE AskLogout(c)
      BY <1>0, <3>3 DEF AskLogout, TypeOK, RequestType
    <3> QED
      BY <2>2, <3>1, <3>2, <3>3 DEF ClientStep, Connect, LoginAnswered,
         LogoutAnswered, TypeLine, Leave, Exit, Killed, requestVars
  <2>3. CASE RequestStep(c)
    <3> USE <1>0, NoneAssumption DEF RequestIn, RequestAt, RequestEnds, Last,
            TypeOK, RequestType, table, clientVars
    <3>1. CASE Credentials(c) BY <3>1 DEF Credentials, Slots
    <3>2. CASE CheckUnique(c)
      <4>1. request[c] = "unique" /\ UNCHANGED <<username, user>>
        BY <3>2 DEF CheckUnique
      <4>2. \/ request'[c] = "none"
            \/ /\ username[ri[c]] # user[c]
               /\ \/ request'[c] = "free" /\ ri[c] = MAX_USERS_CONNECTED
                  \/ request'[c] = "unique" /\ ri'[c] = ri[c] + 1
        BY <3>2 DEF CheckUnique
      <4> QED BY <4>1, <4>2, SlotsAssumption DEF Slots
    <3>3. CASE FindFree(c)
      <4>1. request[c] = "free" /\ UNCHANGED <<username, user>>
        BY <3>3 DEF FindFree
      <4>2. \/ request'[c] \in {"none", "free"}
            \/ /\ request'[c] = "storeName" /\ ri'[c] = ri[c]
               /\ username[ri[c]] = None
        BY <3>3 DEF FindFree
      <4> QED BY <4>1, <4>2
    <3>4. CASE StoreToken(c) BY <3>4 DEF StoreToken
    <3>5. CASE Find(c) \/ RemoveToken(c) \/ RemoveName(c) \/ RemoveSock(c)
      BY <3>5 DEF Find, RemoveToken, RemoveName, RemoveSock
    <3> QED BY <1>2, <2>3, <3>1, <3>2, <3>3, <3>4, <3>5 DEF RequestStep
  <2>4. CASE ConnStep(c)
    <3>1. UNCHANGED <<request, ri, user>>
      BY <2>4 DEF ConnStep, Recv, RecvEnd, Match, Attach, Broadcast, Close,
         CheckSock, ClearSock, ClearToken, ClearName, ConnAt, requestVars, clientVars
    <3> QED BY <1>0, <2>1, <3>1, NoneAssumption
  <2> QED BY <2>2, <2>3, <2>4
<1> QED BY <1>1, <1>2

LEMMA LoginInvKept ==
  ASSUME ~Overlap, LoginInv, [Next]_vars
  PROVE  LoginInv'
<1>0. TokenInv'
  BY TokenInvKept DEF LoginInv
<1>1. CASE UNCHANGED vars
  BY <1>0, <1>1 DEF vars, table, clientVars, requestVars, LoginInv, UniqueUsers,
     OneRequest, LoginKnows
<1>2. ASSUME NEW c \in Clients, ClientStep(c) \/ RequestStep(c) \/ ConnStep(c)
      PROVE  LoginInv'
  <2>1. ASSUME NEW d \in Clients \ {c} PROVE LoginKnows(d)'
    <3>1. TypeOK /\ LoginKnows(d) /\ user[d] \in Users \cup {None}
      BY DEF LoginInv, TokenInv, TypeOK, ClientType
    <3>2. UNCHANGED Locals(d)
      BY <1>2, <3>1, Locality
    <3>3. CASE StoreName(c)
      <4>1. request[d] = "none"
        BY <3>3 DEF LoginInv, OneRequest, StoreName, RequestIn
      <4> QED BY <3>2, <4>1 DEF Locals, LoginKnows, LoginPcs
    <3>4. CASE ~StoreName(c)
      <4>1. \A i \in Slots : username'[i] \in {username[i], None}
        BY <1>2, <3>1, <3>4, TableWriters
      <4>2. request[d] = "storeName" => ri[d] \in Slots
        BY <3>1 DEF TypeOK, RequestType
      <4> QED
        BY <3>1, <3>2, <4>1, <4>2, NoneAssumption DEF Locals, LoginKnows, LoginPcs
    <3> QED BY <3>3, <3>4
  <2> QED
    BY <1>0, <1>2, <2>1, OneRequestKept, UniqueKept, LoginKnowsKept DEF LoginInv
<1> QED BY <1>1, <1>2 DEF Next

LEMMA LoginInvInit == Init => LoginInv
<1> SUFFICES ASSUME Init PROVE LoginInv
  OBVIOUS
<1>1. TokenInv
  <2>1. \A c \in Clients : Course(c) /\ Unused(c) /\ AttachOnce(c)
    BY NoneAssumption
    DEF Init, Course, Unused, AttachOnce, LoginPcs, LogoutPcs
  <2> QED BY <2>1, InitTypes DEF Init, TokenInv, TokenInOneSlot
<1>2. UniqueUsers /\ OneRequest /\ \A c \in Clients : LoginKnows(c)
  BY DEF Init, UniqueUsers, OneRequest, LoginKnows, LoginPcs
<1> QED BY <1>1, <1>2 DEF LoginInv

LEMMA LoginInvHolds ==
  ASSUME ~Overlap
  PROVE  Spec => []LoginInv
<1>1. LoginInv /\ [Next]_vars => LoginInv'
  BY LoginInvKept
<1> QED BY <1>1, LoginInvInit, PTL DEF Spec

\* When request threads do not overlap an account is in the table at most once,
\* whatever message_receiver threads and clients do meanwhile.
THEOREM UsersUnique ==
  ASSUME ~Overlap
  PROVE  Spec => []UniqueUsers
<1>1. LoginInv => UniqueUsers
  BY DEF LoginInv
<1> QED BY <1>1, LoginInvHolds, PTL

\* When request threads do not overlap add_user only ever fills a free entry.
THEOREM EntriesKept ==
  ASSUME ~Overlap
  PROVE  Spec => NeverOverwritten
<1> DEFINE Step == \A i \in Slots :
       username[i] # None => username'[i] \in {username[i], None}
<1>1. LoginInv /\ [Next]_vars => [Step]_vars
  <2> SUFFICES ASSUME LoginInv, NEW c \in Clients,
                      ClientStep(c) \/ RequestStep(c) \/ ConnStep(c)
               PROVE  Step
    BY DEF Next
  <2>0. TypeOK /\ LoginKnows(c)
    BY DEF LoginInv, TokenInv
  <2>1. CASE StoreName(c)
    BY <2>0, <2>1 DEF StoreName, RequestIn, LoginKnows, TypeOK, TableType
  <2>2. CASE ~StoreName(c)
    BY <2>0, <2>2, TableWriters
  <2> QED BY <2>1, <2>2
<1> QED BY <1>1, LoginInvHolds, PTL DEF Spec, NeverOverwritten

=============================================================================
