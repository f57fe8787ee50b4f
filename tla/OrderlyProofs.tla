---------------------------- MODULE OrderlyProofs ----------------------------
(***************************************************************************)
(* Proofs about ConnectedUsers in the orderly workload, for any number of  *)
(* entries, clients, accounts and descriptors: who owns an entry of the    *)
(* table at every step of a session, and what follows from it.             *)
(***************************************************************************)
EXTENDS ConnectedUsersProofs, SequenceTheorems, FiniteSetTheorems

\* Request threads do not overlap, no descriptor is handed out again, and
\* clients wait for the answer to each line and end at the prompt.
Orderly == ~Overlap /\ ~ReuseFds /\ Hasty = {} /\ Killable = {}

-----------------------------------------------------------------------------
(* The invariant, client by client.                                        *)

\* A client that waits for answers has at most one text on its way, and its
\* message_receiver thread is where that text has brought it.
Manners(c) ==
  /\ answered[c] /\ client[c] # "gone" => stream[c] = <<>>
  /\ ~answered[c] =>
       client[c] = "idle" /\ stream[c] \in {<<>>, <<"token">>, <<"line">>}
  /\ client[c] = "gone" => stream[c] \in {<<>>, <<"/logout">>}
  /\ conn[c] = "none" => client[c] = "out" /\ sock_c[c] = None
  /\ conn[c] \in {"none", "recv"} => ci[c] = 1
  /\ conn[c] \in {"match", "attach"} => ~answered[c] /\ stream[c] = <<>>
  /\ conn[c] \in {"send", "clearSock", "clearToken", "clearName"} => memory_index[c] # None
  /\ conn[c] \in {"close", "guard", "clearSock", "clearToken", "clearName", "done"} =>
       client[c] = "gone"
  /\ memory_index[c] # None => held[c]
  /\ client[c] = "login" \/ held[c] => user[c] \in Users

\* A client waits for its request, and a log out always finds the token.
Asks(c) ==
  /\ request[c] \in LoginPcs => client[c] = "login"
  /\ request[c] \in LogoutPcs => client[c] = "logout"
  /\ client[c] = "logout" /\ request[c] = "none" => reply[c] = "ok"
  /\ request[c] = "none" => ri[c] = 1

\* A client is answered by its own line once the broadcast has passed its
\* entry, so that the rest of the broadcast does not answer its next line.
EchoPassed(c) ==
  conn[c] = "send" /\ client[c] = "idle" /\ (answered[c] \/ stream[c] # <<>>) =>
    ci[c] > memory_index[c]

\* message_receiver will find entry i for c, or has it already.
Attached(c, i) ==
  IF memory_index[c] = None
    THEN /\ ~answered[c]
         /\ \/ conn[c] = "recv" /\ stream[c] = <<"token">>
            \/ conn[c] = "match" /\ ci[c] <= i
            \/ conn[c] = "attach"
    ELSE memory_index[c] = i /\ sock[i] = sock_c[c]

\* Where the token of c is, from its log in to the end of its connection.
Seat(c) ==
  /\ client[c] = "login" /\ reply[c] = "ok" => \E i \in Slots : token[i] = c
  /\ client[c] = "idle" /\ held[c] => \E i \in Slots : token[i] = c /\ Attached(c, i)
  /\ request[c] = "find" => \E i \in Slots : token[i] = c /\ ri[c] <= i
  /\ request[c] = "clearToken" => token[ri[c]] = c
  /\ request[c] \in {"clearName", "clearSock"} => \A i \in Slots : token[i] # c
  /\ client[c] \in {"logout", "gone"} => \A i \in Slots : token[i] = c =>
       /\ memory_index[c] = i
       /\ conn[c] # "clearToken" => sock[i] = sock_c[c]
       /\ conn[c] \notin {"clearName", "done"}

-----------------------------------------------------------------------------
(* The invariant, entry by entry.                                          *)

\* Entry i is c's: it has c's token, or a thread of c is between two fields.
Occupies(c, i) ==
  \/ token[i] = c
  \/ ri[c] = i /\ request[c] \in {"storeToken", "clearToken", "clearName", "clearSock"}
  \/ memory_index[c] = i /\ conn[c] \in {"clearSock", "clearToken", "clearName"}

OneOccupant ==
  \A i \in Slots : \A c, d \in Clients : Occupies(c, i) /\ Occupies(d, i) => c = d

OwnName ==
  \A i \in Slots : \A c \in Clients : Occupies(c, i) =>
    \/ username[i] = user[c] /\ user[c] # None
    \/ ri[c] = i /\ request[c] = "clearSock"

OwnSocket ==
  \A i \in Slots : \A c \in Clients :
    sock[i] # None /\ sock[i] = sock_c[c] => Occupies(c, i)

OwnDescriptor ==
  /\ \A f \in Fds : open[f] # None => sock_c[open[f]] = f
  /\ \A c, d \in Clients : sock_c[c] # None /\ sock_c[c] = sock_c[d] => c = d

ClientInv(c) == Manners(c) /\ Asks(c) /\ EchoPassed(c) /\ Seat(c)

OrderlyInv ==
  /\ LoginInv /\ NoOrphanSocket
  /\ \A c \in Clients : ClientInv(c)
  /\ OneOccupant /\ OwnName /\ OwnSocket /\ OwnDescriptor

-----------------------------------------------------------------------------
(* Facts the steps rest on.                                                *)

\* What the invariant says of the client that takes a step.
LEMMA Known ==
  ASSUME OrderlyInv, NEW c \in Clients
  PROVE  /\ TypeOK /\ OneRequest /\ TokenInOneSlot /\ LoginKnows(c)
         /\ Course(c) /\ Unused(c) /\ AttachOnce(c)
         /\ Manners(c) /\ Asks(c) /\ EchoPassed(c) /\ Seat(c)
BY DEF OrderlyInv, ClientInv, LoginInv, TokenInv

\* The types of what belongs to one client.
LEMMA LocalTypes ==
  ASSUME TypeOK, NEW c \in Clients
  PROVE  /\ client[c] \in ClientPc /\ request[c] \in RequestPc /\ conn[c] \in ConnPc
         /\ ri[c] \in Slots /\ ci[c] \in Slots
         /\ memory_index[c] \in Slots \cup {None}
         /\ user[c] \in Users \cup {None} /\ sock_c[c] \in Fds \cup {None}
         /\ stream[c] \in Seq(Items) /\ reply[c] \in {"none", "ok", "refused"}
         /\ answered[c] \in BOOLEAN /\ held[c] \in BOOLEAN
         /\ conn[c] # "none" => sock_c[c] \in Fds
BY DEF TypeOK, ClientType, RequestType, ConnType

LEMMA NotNone ==
  /\ \A i \in Slots : i # None /\ i \in Nat
  /\ \A c \in Clients : c # None
  /\ \A u \in Users : u # None
  /\ \A f \in Fds : f # None
BY NoneAssumption, SlotsAssumption DEF Slots

\* Nobody but the client itself changes what it was answered.
LEMMA AnsweredOwn ==
  ASSUME TypeOK, NEW c \in Clients, ClientStep(c) \/ RequestStep(c) \/ ConnStep(c),
         NEW d \in Clients \ {c}
  PROVE  answered'[d] = answered[d]
<1> USE DEF TypeOK, ClientType, clientVars, NextEntry, Notify, ConnAt
<1>1. CASE ClientStep(c)
  BY <1>1 DEF ClientStep, Connect, AskLogin, AskLogout, LoginAnswered,
              LogoutAnswered, TypeLine, Leave, Exit, Killed
<1>2. CASE RequestStep(c)
  BY <1>2 DEF RequestStep, Credentials, CheckUnique, FindFree, StoreName,
              StoreToken, Find, RemoveToken, RemoveName, RemoveSock
<1>3. CASE ConnStep(c)
  <2>1. ASSUME NEW k \in 1 .. Len(stream[c]), Recv(c, k)
        PROVE  answered'[d] = answered[d]
    BY <2>1 DEF Recv
  <2>2. CASE RecvEnd(c) BY <2>2 DEF RecvEnd
  <2>3. CASE Match(c) BY <2>3 DEF Match
  <2>4. CASE Attach(c) BY <2>4 DEF Attach
  <2>5. CASE Broadcast(c) BY <2>5 DEF Broadcast
  <2>6. CASE Close(c) BY <2>6 DEF Close
  <2>7. CASE CheckSock(c) BY <2>7 DEF CheckSock
  <2>8. CASE ClearSock(c) BY <2>8 DEF ClearSock
  <2>9. CASE ClearToken(c) BY <2>9 DEF ClearToken
  <2>10. CASE ClearName(c) BY <2>10 DEF ClearName
  <2> QED BY <1>3, <2>1, <2>2, <2>3, <2>4, <2>5, <2>6, <2>7, <2>8, <2>9, <2>10
          DEF ConnStep
<1> QED BY <1>1, <1>2, <1>3

\* A text taken off the stream was the only one, and what it brings about.
LEMMA OneText ==
  ASSUME OrderlyInv, NEW c \in Clients, NEW k \in 1 .. Len(stream[c]), Recv(c, k)
  PROVE  /\ stream' = [stream EXCEPT ![c] = <<>>] /\ conn[c] = "recv"
         /\ UNCHANGED <<table, open, client, user, held, requestVars, ci,
                        memory_index, sock_c>>
         /\ \/ /\ stream[c] = <<"token">> /\ memory_index[c] = None
               /\ conn' = [conn EXCEPT ![c] = "match"]
               /\ UNCHANGED <<answered, sender>>
            \/ /\ stream[c] # <<"token">> /\ memory_index[c] = None
               /\ answered' = [answered EXCEPT ![c] = TRUE]
               /\ UNCHANGED <<conn, sender>>
            \/ /\ client[c] = "gone" /\ memory_index[c] # None
               /\ answered' = [answered EXCEPT ![c] = TRUE]
               /\ conn' = [conn EXCEPT ![c] = "close"] /\ UNCHANGED sender
            \/ /\ client[c] = "idle" /\ ~answered[c] /\ memory_index[c] # None
               /\ conn' = [conn EXCEPT ![c] = "send"] /\ UNCHANGED answered
               /\ sender' = [sender EXCEPT ![c] = username[memory_index[c]]]
<1>0. Manners(c) /\ stream[c] \in Seq(Items) /\ answered[c] \in BOOLEAN
  BY Known, LocalTypes
<1>1. stream[c] # <<>> /\ stream[c] \in {<<"token">>, <<"line">>, <<"/logout">>}
  BY <1>0 DEF Manners
<1>2. Len(stream[c]) = 1 /\ k = 1
  <2>1. Len(<<"token">>) = 1 /\ Len(<<"line">>) = 1 /\ Len(<<"/logout">>) = 1
    OBVIOUS
  <2>2. Len(stream[c]) = 1 BY <1>1, <2>1
  <2> QED BY <2>2
<1>3. SubSeq(stream[c], k + 1, Len(stream[c])) = <<>>
  <2>1. SubSeq(stream[c], 2, 1) = <<>> BY <1>0, <1>2
  <2> QED BY <1>2, <2>1
<1>4. /\ Head(stream[c]) = "token" <=> stream[c] = <<"token">>
      /\ Head(stream[c]) = "/logout" <=> stream[c] = <<"/logout">>
  BY <1>1
<1>5. /\ stream[c] = <<"/logout">> => client[c] = "gone"
      /\ stream[c] # <<"/logout">> => client[c] = "idle" /\ ~answered[c]
  BY <1>0, <1>1 DEF Manners
<1> QED
  BY <1>2, <1>3, <1>4, <1>5 DEF Recv, ConnIn, Notify

-----------------------------------------------------------------------------
(* Whoever writes to an entry owns it.                                     *)

\* message_receiver attaches to the entry of its own client.
LEMMA AttachAtOwn ==
  ASSUME OrderlyInv, NEW c \in Clients, conn[c] = "attach"
  PROVE  /\ token[ci[c]] = c /\ memory_index[c] = None
         /\ client[c] = "idle" /\ held[c] /\ ~answered[c] /\ stream[c] = <<>>
<1>1. /\ client[c] = "idle" /\ held[c] /\ ~answered[c] /\ stream[c] = <<>>
      /\ memory_index[c] = None /\ \A i \in Slots : token[i] = c => i = ci[c]
  BY Known DEF Manners, Course, AttachOnce
<1>2. PICK i \in Slots : token[i] = c
  BY <1>1, Known DEF Seat
<1> QED BY <1>1, <1>2

\* The entry that add_user found free is nobody's.
LEMMA FreeEntry ==
  ASSUME OrderlyInv, NEW c \in Clients, request[c] = "storeName", NEW d \in Clients
  PROVE  ~Occupies(d, ri[c])
<1>1. username[ri[c]] = None /\ ri[c] \in Slots /\ client[c] = "login"
  BY Known, LocalTypes DEF LoginKnows, Asks, LoginPcs
<1>2. SUFFICES ASSUME Occupies(d, ri[c]) PROVE FALSE
  OBVIOUS
<1>3. request[d] = "clearSock"
  BY <1>1, <1>2 DEF OrderlyInv, OwnName
<1> QED BY <1>3, Known DEF OneRequest

LEMMA Writer ==
  ASSUME OrderlyInv, NEW c \in Clients,
         ClientStep(c) \/ RequestStep(c) \/ ConnStep(c), NEW i \in Slots,
         ~UNCHANGED <<username[i], token[i], sock[i]>>
  PROVE  Occupies(c, i) \/ (StoreName(c) /\ ri[c] = i)
<1>0. TypeOK BY Known
<1> USE <1>0 DEF TypeOK, TableType, table, Occupies
<1>1. CASE ClientStep(c)
  BY <1>1 DEF ClientStep, Connect, AskLogin, AskLogout, LoginAnswered,
              LogoutAnswered, TypeLine, Leave, Exit, Killed
<1>2. CASE RequestStep(c)
  BY <1>2 DEF RequestStep, RequestIn, Credentials, CheckUnique, FindFree, StoreName,
              StoreToken, Find, RemoveToken, RemoveName, RemoveSock
<1>3. CASE ConnStep(c)
  <2>1. CASE Attach(c)
    BY <2>1, AttachAtOwn DEF Attach, ConnIn
  <2>2. CASE ~Attach(c)
    BY <1>3, <2>2 DEF ConnStep, ConnIn, Recv, RecvEnd, Match, Broadcast, Close,
                      CheckSock, ClearSock, ClearToken, ClearName
  <2> QED BY <2>1, <2>2
<1> QED BY <1>1, <1>2, <1>3

\* The entries of the others are left alone, and stay theirs.
LEMMA OthersLeft ==
  ASSUME OrderlyInv, NEW c \in Clients,
         ClientStep(c) \/ RequestStep(c) \/ ConnStep(c),
         NEW d \in Clients \ {c}, NEW i \in Slots
  PROVE  /\ Occupies(d, i) => UNCHANGED <<username[i], token[i], sock[i]>>
         /\ token'[i] = d <=> token[i] = d
         /\ Occupies(d, i)' <=> Occupies(d, i)
<1>0. TypeOK /\ UNCHANGED Locals(d)
  BY Known, Locality
<1>1. Occupies(d, i) => UNCHANGED <<username[i], token[i], sock[i]>>
  <2>1. SUFFICES ASSUME Occupies(d, i), ~UNCHANGED <<username[i], token[i], sock[i]>>
                 PROVE  FALSE
    OBVIOUS
  <2>2. CASE Occupies(c, i)
    BY <2>1, <2>2 DEF OrderlyInv, OneOccupant
  <2>3. CASE StoreName(c) /\ ri[c] = i
    BY <2>1, <2>3, FreeEntry DEF StoreName, RequestIn
  <2> QED BY <2>1, <2>2, <2>3, Writer
<1>2. token'[i] = d => token[i] = d
  <2>1. CASE StoreToken(c)
    BY <1>0, <2>1 DEF StoreToken, TypeOK, TableType
  <2>2. CASE ~StoreToken(c)
    BY <1>0, <2>2, TableWriters, NotNone
  <2> QED BY <2>1, <2>2
<1>3. token[i] = d => token'[i] = d
  BY <1>1 DEF Occupies
<1> QED BY <1>0, <1>1, <1>2, <1>3 DEF Locals, Occupies

\* The client itself comes to own an entry by storing its name in it only.
LEMMA OwnEntries ==
  ASSUME OrderlyInv, NEW c \in Clients,
         ClientStep(c) \/ RequestStep(c) \/ ConnStep(c), NEW i \in Slots,
         Occupies(c, i)'
  PROVE  Occupies(c, i) \/ (StoreName(c) /\ ri[c] = i)
<1>0. /\ TypeOK /\ Manners(c) /\ Asks(c) /\ ri[c] \in Slots
      /\ memory_index[c] \in Slots \cup {None}
  BY Known, LocalTypes
<1> USE <1>0 DEF TypeOK, TableType, RequestType, ConnType, table, Occupies
<1>1. CASE ClientStep(c)
  <2>1. UNCHANGED <<table, ri, memory_index>>
    BY <1>1 DEF ClientStep, Connect, AskLogin, AskLogout, LoginAnswered,
                LogoutAnswered, TypeLine, Leave, Exit, Killed, requestVars, connVars
  <2>2. /\ request'[c] \in {request[c], "check", "find"}
        /\ conn'[c] \in {conn[c], "recv"}
    BY <1>1 DEF ClientStep, Connect, AskLogin, AskLogout, LoginAnswered,
                LogoutAnswered, TypeLine, Leave, Exit, Killed, requestVars, connVars
  <2> QED BY <2>1, <2>2
<1>2. CASE RequestStep(c)
  <2>0. UNCHANGED connVars
    BY <1>2 DEF RequestStep, Credentials, CheckUnique, FindFree, StoreName,
                StoreToken, Find, RemoveToken, RemoveName, RemoveSock
  <2> USE <2>0 DEF connVars, RequestIn, RequestAt, RequestEnds
  <2>1. CASE Credentials(c) BY <2>1 DEF Credentials
  <2>2. CASE CheckUnique(c) BY <2>2 DEF CheckUnique
  <2>3. CASE FindFree(c) BY <2>3 DEF FindFree
  <2>4. CASE StoreName(c) BY <2>4 DEF StoreName
  <2>5. CASE StoreToken(c) BY <2>5 DEF StoreToken
  <2>6. CASE Find(c) BY <2>6 DEF Find
  <2>7. CASE RemoveToken(c) BY <2>7, NotNone DEF RemoveToken
  <2>8. CASE RemoveName(c) BY <2>8 DEF RemoveName
  <2>9. CASE RemoveSock(c) BY <2>9 DEF RemoveSock
  <2> QED BY <1>2, <2>1, <2>2, <2>3, <2>4, <2>5, <2>6, <2>7, <2>8, <2>9 DEF RequestStep
<1>3. CASE ConnStep(c)
  <2>0. /\ UNCHANGED requestVars
        /\ token'[i] = c => token[i] = c
    <3>1. UNCHANGED requestVars
      BY <1>3 DEF ConnStep, Recv, RecvEnd, Match, Attach, Broadcast, Close, CheckSock,
                  ClearSock, ClearToken, ClearName, ConnAt
    <3>2. token'[i] \in {token[i], None}
      BY <1>3 DEF ConnStep, Recv, RecvEnd, Match, Attach, Broadcast, Close, CheckSock,
                  ClearSock, ClearToken, ClearName, ConnAt
    <3> QED BY <3>1, <3>2, NotNone
  <2>1. CASE CheckSock(c)
    <3>1. SUFFICES ASSUME memory_index[c] = i, sock[i] = sock_c[c], conn[c] = "guard"
                   PROVE  Occupies(c, i)
      BY <2>0, <2>1, NotNone DEF CheckSock, ConnAt, ConnIn, requestVars
    <3>2. sock[i] # None
      BY <3>1, LocalTypes, NotNone
    <3> QED BY <3>1, <3>2 DEF OrderlyInv, OwnSocket
  <2>2. CASE Attach(c) \/ Match(c)
    BY <2>0, <2>2 DEF Attach, Match, NextEntry, requestVars
  <2>3. CASE ~CheckSock(c) /\ ~Attach(c) /\ ~Match(c)
    BY <1>3, <2>0, <2>3 DEF ConnStep, ConnIn, Recv, RecvEnd, Broadcast, Close,
       ClearSock, ClearToken, ClearName, ConnAt, requestVars
  <2> QED BY <2>1, <2>2, <2>3
<1> QED BY <1>1, <1>2, <1>3

LEMMA OneOccupantKept ==
  ASSUME OrderlyInv, NEW c \in Clients,
         ClientStep(c) \/ RequestStep(c) \/ ConnStep(c)
  PROVE  OneOccupant'
<1>1. ASSUME NEW i \in Slots, NEW d \in Clients \ {c},
             Occupies(c, i)', Occupies(d, i)'
      PROVE  FALSE
  <2>1. Occupies(d, i)
    BY <1>1, OthersLeft
  <2>2. CASE Occupies(c, i)
    BY <2>1, <2>2 DEF OrderlyInv, OneOccupant
  <2>3. CASE StoreName(c) /\ ri[c] = i
    BY <2>1, <2>3, FreeEntry DEF StoreName, RequestIn
  <2> QED BY <1>1, <2>2, <2>3, OwnEntries
<1>2. ASSUME NEW i \in Slots, NEW d \in Clients \ {c}, NEW e \in Clients \ {c},
             Occupies(d, i)', Occupies(e, i)'
      PROVE  d = e
  BY <1>2, OthersLeft DEF OrderlyInv, OneOccupant
<1> QED BY <1>1, <1>2 DEF OneOccupant

\* A client that asks to log in owns nothing.
LEMMA OwnsNothing ==
  ASSUME OrderlyInv, NEW c \in Clients, client[c] = "idle", ~held[c], NEW i \in Slots
  PROVE  ~Occupies(c, i)
<1>1. request[c] = "none" /\ token[i] # c
  BY Known DEF Course, Unused, MayGetToken
<1> QED BY <1>1, Known DEF Manners, Occupies

LEMMA OwnNameKept ==
  ASSUME OrderlyInv, NEW c \in Clients,
         ClientStep(c) \/ RequestStep(c) \/ ConnStep(c)
  PROVE  OwnName'
<1>0. TypeOK /\ Manners(c) /\ Asks(c) /\ Seat(c)
  BY Known
<1>1. ASSUME NEW i \in Slots, NEW d \in Clients \ {c}, Occupies(d, i)'
      PROVE  (\/ username[i] = user[d] /\ user[d] # None
              \/ ri[d] = i /\ request[d] = "clearSock")'
  <2>1. Occupies(d, i) /\ username'[i] = username[i]
    BY <1>1, OthersLeft
  <2>2. UNCHANGED <<user[d], ri[d], request[d]>>
    BY <1>0, Locality DEF Locals
  <2> QED BY <2>1, <2>2 DEF OrderlyInv, OwnName
<1>2. ASSUME NEW i \in Slots, Occupies(c, i)'
      PROVE  (\/ username[i] = user[c] /\ user[c] # None
              \/ ri[c] = i /\ request[c] = "clearSock")'
  <2>1. CASE StoreName(c) /\ ri[c] = i
    <3>1. username'[i] = user[c] /\ user'[c] = user[c]
      BY <1>0, <2>1 DEF StoreName, TypeOK, TableType, clientVars
    <3>2. user[c] \in Users
      BY <1>0, <2>1 DEF StoreName, RequestIn, Manners, Asks, LoginPcs
    <3> QED BY <3>1, <3>2, NotNone
  <2>2. CASE StoreName(c) /\ ri[c] # i
    <3>1. Occupies(c, i) /\ request[c] = "storeName" /\ client[c] = "login"
      BY <1>0, <1>2, <2>2, OwnEntries DEF StoreName, RequestIn, Asks, LoginPcs
    <3>2. token[i] # c
      BY <3>1, Known DEF Unused, MayGetToken, LoginPcs
    <3> QED BY <1>0, <3>1, <3>2 DEF Occupies, Manners
  <2>3. CASE ~StoreName(c)
    <3>1. Occupies(c, i)
      BY <1>2, <2>3, OwnEntries
    <3>2. user'[c] = user[c]
      <4>1. ASSUME NEW u \in Users, AskLogin(c, u) PROVE FALSE
        BY <3>1, <4>1, OwnsNothing DEF AskLogin, AtPrompt
      <4>2. CASE ClientStep(c)
        BY <4>1, <4>2 DEF ClientStep, Connect, AskLogout, LoginAnswered,
           LogoutAnswered, TypeLine, Leave, Exit, Killed, clientVars
      <4>3. CASE RequestStep(c)
        BY <4>3 DEF RequestStep, Credentials, CheckUnique, FindFree, StoreName,
           StoreToken, Find, RemoveToken, RemoveName, RemoveSock, clientVars
      <4>4. CASE ConnStep(c)
        BY <4>4 DEF ConnStep, Recv, RecvEnd, Match, Attach, Broadcast, Close,
           CheckSock, ClearSock, ClearToken, ClearName, ConnAt, clientVars
      <4> QED BY <4>2, <4>3, <4>4
    <3>3. CASE username'[i] = username[i] /\ ~RemoveSock(c)
      <4>1. ri[c] = i /\ request[c] = "clearSock" => UNCHANGED <<ri[c], request[c]>>
        <5>1. SUFFICES ASSUME request[c] = "clearSock" PROVE UNCHANGED requestVars
          BY DEF requestVars
        <5>2. client[c] = "logout"
          BY <1>0, <5>1 DEF Asks, LogoutPcs
        <5>3. CASE ClientStep(c)
          BY <5>1, <5>2, <5>3, Known DEF ClientStep, Connect, AskLogin, AskLogout,
             LoginAnswered, LogoutAnswered, TypeLine, Leave, Exit, Killed, AtPrompt,
             Course, LogoutPcs
        <5>4. CASE RequestStep(c)
          BY <3>3, <5>1, <5>4 DEF RequestStep, RequestIn, Credentials, CheckUnique,
             FindFree, StoreName, StoreToken, Find, RemoveToken, RemoveName
        <5>5. CASE ConnStep(c)
          BY <5>5 DEF ConnStep, Recv, RecvEnd, Match, Attach, Broadcast, Close,
             CheckSock, ClearSock, ClearToken, ClearName, ConnAt
        <5> QED BY <5>3, <5>4, <5>5
      <4> QED BY <3>1, <3>2, <3>3, <4>1 DEF OrderlyInv, OwnName
    <3>4. CASE RemoveSock(c)
      <4>1. /\ request'[c] = "none" /\ client[c] = "logout"
            /\ token'[i] = token[i] /\ token[i] # c /\ UNCHANGED connVars
        BY <1>0, <3>4 DEF RemoveSock, RequestIn, RequestEnds, Asks, LogoutPcs, Seat,
           TypeOK, RequestType
      <4> QED BY <1>0, <1>2, <4>1 DEF Occupies, Manners, connVars
    <3>5. CASE username'[i] # username[i]
      <4>1. \/ RemoveName(c) /\ ri[c] = i
            \/ ClearName(c) /\ memory_index[c] = i
        <5> USE <1>0, <2>3, <3>5 DEF TypeOK, TableType, table
        <5>1. CASE ClientStep(c)
          BY <5>1 DEF ClientStep, Connect, AskLogin, AskLogout, LoginAnswered,
                      LogoutAnswered, TypeLine, Leave, Exit, Killed
        <5>2. CASE RequestStep(c)
          BY <5>2 DEF RequestStep, Credentials, CheckUnique, FindFree, StoreToken,
                      Find, RemoveToken, RemoveName, RemoveSock
        <5>3. CASE ConnStep(c)
          BY <5>3 DEF ConnStep, Recv, RecvEnd, Match, Attach, Broadcast, Close,
                      CheckSock, ClearSock, ClearToken, ClearName
        <5> QED BY <5>1, <5>2, <5>3
      <4>2. CASE RemoveName(c) /\ ri[c] = i
        BY <1>0, <4>2 DEF RemoveName, RequestAt, TypeOK, RequestType
      <4>3. CASE ClearName(c) /\ memory_index[c] = i
        <5>1. /\ conn[c] = "clearName" /\ conn'[c] = "done" /\ client[c] = "gone"
              /\ UNCHANGED <<token, requestVars>>
          BY <1>0, <4>3 DEF ClearName, ConnIn, ConnAt, Manners, TypeOK, ConnType
        <5>2. token[i] # c
          BY <1>0, <5>1 DEF Seat
        <5> QED BY <1>0, <1>2, <5>1, <5>2 DEF Occupies, Asks, LoginPcs, LogoutPcs,
                requestVars
      <4> QED BY <4>1, <4>2, <4>3
    <3> QED BY <3>3, <3>4, <3>5
  <2> QED BY <2>1, <2>2, <2>3
<1> QED BY <1>1, <1>2 DEF OwnName

\* The descriptor of a connection is in an entry only while its thread may
\* still clear it.
LEMMA SocketPlace ==
  ASSUME OrderlyInv, NEW c \in Clients, NEW i \in Slots,
         sock[i] # None, sock[i] = sock_c[c]
  PROVE  WillClear(c, i) /\ Occupies(c, i)
<1>1. PICK d \in Clients : WillClear(d, i) /\ sock_c[d] = sock[i]
  BY DEF OrderlyInv, NoOrphanSocket
<1>2. d = c
  BY <1>1 DEF OrderlyInv, OwnDescriptor
<1> QED BY <1>1, <1>2 DEF OrderlyInv, OwnSocket

LEMMA OwnSocketKept ==
  ASSUME Orderly, OrderlyInv, NEW c \in Clients,
         ClientStep(c) \/ RequestStep(c) \/ ConnStep(c)
  PROVE  OwnSocket'
<1>0. TypeOK /\ Manners(c) /\ Asks(c) /\ Seat(c)
  BY Known
<1>1. ASSUME NEW i \in Slots, sock'[i] \notin {None, sock[i]}
      PROVE  /\ Attach(c) /\ ci[c] = i /\ sock'[i] = sock_c[c]
             /\ Occupies(c, i)' /\ UNCHANGED sock_c
  <2>1. Attach(c)
    BY <1>0, <1>1, TableWriters
  <2>2. ci[c] = i /\ sock'[i] = sock_c[c]
    BY <1>0, <1>1, <2>1 DEF Attach, TypeOK, TableType
  <2> QED BY <2>1, <2>2, AttachAtOwn DEF Attach, ConnIn, Occupies
<1>2. ASSUME NEW i \in Slots, NEW d \in Clients \ {c}, sock'[i] # None,
             sock'[i] = sock_c'[d]
      PROVE  Occupies(d, i)'
  <2>1. sock_c'[d] = sock_c[d]
    BY <1>0, Locality DEF Locals
  <2>2. sock'[i] = sock[i]
    BY <1>1, <1>2, <2>1 DEF OrderlyInv, OwnDescriptor
  <2> QED BY <1>2, <2>1, <2>2, OthersLeft DEF OrderlyInv, OwnSocket
<1>3. ASSUME NEW i \in Slots, sock'[i] # None, sock'[i] = sock_c'[c]
      PROVE  Occupies(c, i)'
  <2>1. CASE sock'[i] # sock[i]
    BY <1>1, <1>3, <2>1
  <2>2. CASE sock'[i] = sock[i] /\ sock_c'[c] # sock_c[c]
    <3>1. PICK f \in Fds : Connect(c, f)
      <4>1. CASE ClientStep(c)
        BY <2>2, <4>1 DEF ClientStep, AskLogin, AskLogout, LoginAnswered,
           LogoutAnswered, TypeLine, Leave, Exit, Killed, connVars
      <4>2. CASE RequestStep(c)
        BY <2>2, <4>2 DEF RequestStep, Credentials, CheckUnique, FindFree, StoreName,
           StoreToken, Find, RemoveToken, RemoveName, RemoveSock, connVars
      <4>3. CASE ConnStep(c)
        BY <2>2, <4>3 DEF ConnStep, Recv, RecvEnd, Match, Attach, Broadcast, Close,
           CheckSock, ClearSock, ClearToken, ClearName, ConnAt
      <4> QED BY <4>1, <4>2, <4>3
    <3>2. \A d \in Clients : sock_c[d] # sock'[i]
      BY <1>0, <1>3, <3>1 DEF Connect, Orderly, TypeOK, ConnType
    <3> QED BY <1>3, <2>2, <3>2 DEF OrderlyInv, NoOrphanSocket
  <2>3. CASE sock'[i] = sock[i] /\ sock_c'[c] = sock_c[c]
    <3>1. WillClear(c, i) /\ Occupies(c, i)
      BY <1>3, <2>3, SocketPlace
    <3>2. memory_index[c] = i /\ conn[c] \notin {"none", "attach", "clearToken", "clearName"}
      BY <3>1 DEF WillClear
    <3> USE <1>0, <3>1, <3>2 DEF Occupies, TypeOK, TableType, RequestType, ConnType, table
    <3>3. CASE ClientStep(c)
      <4>1. UNCHANGED <<table, ri, memory_index>>
        BY <3>3 DEF ClientStep, Connect, AskLogin, AskLogout, LoginAnswered,
                    LogoutAnswered, TypeLine, Leave, Exit, Killed, requestVars, connVars
      <4>2. conn'[c] = conn[c]
        BY <3>3, Known DEF ClientStep, Connect, AskLogin, AskLogout, LoginAnswered,
           LogoutAnswered, TypeLine, Leave, Exit, Killed, connVars, Course
      <4>3. request'[c] = request[c] \/ request[c] = "none"
        BY <3>3, Known DEF ClientStep, Connect, AskLogin, AskLogout, LoginAnswered,
           LogoutAnswered, TypeLine, Leave, Exit, Killed, AtPrompt, requestVars, Course
      <4> QED BY <4>1, <4>2, <4>3
    <3>4. CASE RequestStep(c)
      <4>0. UNCHANGED connVars
        BY <3>4 DEF RequestStep, Credentials, CheckUnique, FindFree, StoreName,
                    StoreToken, Find, RemoveToken, RemoveName, RemoveSock
      <4>1. CASE RemoveSock(c)
        <5>1. ri[c] # i /\ token[i] # c /\ client[c] = "logout"
          BY <1>3, <4>1 DEF RemoveSock, RequestIn, Seat, Asks, LogoutPcs
        <5> QED BY <4>1, <5>1 DEF RemoveSock, RequestIn, Manners
      <4>2. CASE RemoveToken(c)
        BY <4>0, <4>2 DEF RemoveToken, RequestIn, RequestAt, connVars
      <4>3. CASE RemoveName(c)
        BY <4>0, <4>3 DEF RemoveName, RequestIn, RequestAt, connVars
      <4>4. CASE StoreToken(c)
        BY <4>0, <4>4 DEF StoreToken, RequestIn, connVars
      <4>5. CASE ~RemoveSock(c) /\ ~RemoveToken(c) /\ ~RemoveName(c) /\ ~StoreToken(c)
        BY <3>4, <4>0, <4>5 DEF RequestStep, RequestIn, Credentials, CheckUnique,
           FindFree, StoreName, Find, connVars
      <4> QED BY <4>1, <4>2, <4>3, <4>4, <4>5
    <3>5. CASE ConnStep(c)
      <4>1. CASE ClearSock(c)
        BY <1>3, <4>1 DEF ClearSock, ConnIn
      <4>2. UNCHANGED requestVars
        BY <3>5 DEF ConnStep, Recv, RecvEnd, Match, Attach, Broadcast, Close, CheckSock,
                    ClearSock, ClearToken, ClearName, ConnAt
      <4>3. CASE ~ClearSock(c)
        <5>1. UNCHANGED token /\ conn[c] # "clearSock"
          BY <3>5, <4>3 DEF ConnStep, ConnIn, Recv, RecvEnd, Match, Attach, Broadcast, Close,
             CheckSock, ClearSock, ClearToken, ClearName, ConnAt
        <5> QED BY <4>2, <5>1 DEF requestVars
      <4> QED BY <4>1, <4>3
    <3> QED BY <3>3, <3>4, <3>5
  <2> QED BY <2>1, <2>2, <2>3
<1> QED BY <1>2, <1>3 DEF OwnSocket

LEMMA OwnDescriptorKept ==
  ASSUME Orderly, OrderlyInv, NEW c \in Clients,
         ClientStep(c) \/ RequestStep(c) \/ ConnStep(c)
  PROVE  OwnDescriptor'
<1>0. TypeOK /\ Manners(c) /\ Course(c) /\ OwnDescriptor
  BY Known DEF OrderlyInv
<1>1. ASSUME NEW f \in Fds, Connect(c, f) PROVE OwnDescriptor'
  <2>1. \A d \in Clients : sock_c[d] # f
    BY <1>1 DEF Connect, Orderly
  <2>2. sock_c[c] = None
    BY <1>0, <1>1 DEF Connect, Course, Manners
  <2>3. /\ open' = [open EXCEPT ![f] = c] /\ sock_c' = [sock_c EXCEPT ![c] = f]
        /\ open \in [Fds -> Clients \cup {None}]
        /\ sock_c \in [Clients -> Fds \cup {None}]
    BY <1>0, <1>1 DEF Connect, TypeOK, NetType, ConnType
  <2> QED BY <1>0, <2>1, <2>2, <2>3, NotNone DEF OwnDescriptor
<1>2. CASE Close(c)
  <2>1. UNCHANGED sock_c /\ \A f \in Fds : open'[f] \in {open[f], None}
    BY <1>0, <1>2 DEF Close, TypeOK, NetType
  <2> QED BY <1>0, <2>1 DEF OwnDescriptor
<1>3. CASE UNCHANGED <<open, sock_c>>
  BY <1>0, <1>3 DEF OwnDescriptor
<1>4. CASE ClientStep(c)
  BY <1>1, <1>3, <1>4 DEF ClientStep, AskLogin, AskLogout, LoginAnswered,
     LogoutAnswered, TypeLine, Leave, Exit, Killed, net, connVars
<1>5. CASE RequestStep(c)
  BY <1>3, <1>5 DEF RequestStep, Credentials, CheckUnique, FindFree, StoreName,
     StoreToken, Find, RemoveToken, RemoveName, RemoveSock, net, connVars
<1>6. CASE ConnStep(c)
  BY <1>2, <1>3, <1>6 DEF ConnStep, Recv, RecvEnd, Match, Attach, Broadcast, CheckSock,
     ClearSock, ClearToken, ClearName, ConnAt, net
<1> QED BY <1>4, <1>5, <1>6

-----------------------------------------------------------------------------
(* What a step does to the client that takes it.                           *)

\* A broadcast reaches its own sender at the sender's entry only.
LEMMA EchoAtOwn ==
  ASSUME OrderlyInv, NEW c \in Clients, ConnIn(c, "send"),
         sock[ci[c]] # None, open[sock[ci[c]]] = c
  PROVE  memory_index[c] = ci[c]
<1>1. ci[c] \in Slots /\ sock[ci[c]] \in Fds
  BY Known, LocalTypes DEF TypeOK, TableType
<1>2. sock_c[c] = sock[ci[c]]
  BY <1>1, NotNone DEF OrderlyInv, OwnDescriptor
<1> QED BY <1>1, <1>2, SocketPlace DEF WillClear

LEMMA MannersKept ==
  ASSUME Orderly, OrderlyInv, NEW c \in Clients,
         ClientStep(c) \/ RequestStep(c) \/ ConnStep(c)
  PROVE  Manners(c)'
<1>0. /\ TypeOK /\ Manners(c) /\ Asks(c) /\ EchoPassed(c) /\ Seat(c) /\ Course(c)
      /\ LoginKnows(c)
  BY Known
<1>t. /\ stream[c] \in Seq(Items) /\ conn[c] \in ConnPc /\ request[c] \in RequestPc
      /\ memory_index[c] \in Slots \cup {None}
  BY <1>0, LocalTypes
<1> USE <1>0, <1>t DEF Manners, TypeOK, ClientType, ConnType
<1>1. CASE ClientStep(c)
  <2> USE DEF AtPrompt, Orderly, Course, clientVars, connVars, ConnPc
  <2>0. Append(<<>>, "token") = <<"token">> /\ Append(<<>>, "line") = <<"line">>
        /\ Append(<<>>, "/logout") = <<"/logout">>
    OBVIOUS
  <2>1. ASSUME NEW f \in Fds, Connect(c, f) PROVE Manners(c)'
    <3>1. /\ client[c] = "out" /\ client'[c] = "idle" /\ conn'[c] = "recv"
          /\ UNCHANGED <<answered, stream, held, user, memory_index, ci>>
      BY <2>1 DEF Connect
    <3>2. conn[c] = "none" /\ stream[c] = <<>> /\ ~held[c] /\ answered[c] /\ ci[c] = 1
      BY <3>1
    <3> QED BY <3>1, <3>2
  <2>2. ASSUME NEW u \in Users, AskLogin(c, u) PROVE Manners(c)'
    BY <2>2 DEF AskLogin
  <2>3. CASE AskLogout(c) BY <2>3 DEF AskLogout
  <2>4. CASE LoginAnswered(c)
    <3>1. client[c] = "login" /\ client'[c] = "idle" /\ answered[c] /\ stream[c] = <<>>
          /\ UNCHANGED <<user, connVars>> /\ user[c] \in Users
          /\ conn[c] \in {"recv", "send"}
      BY <2>4 DEF LoginAnswered
    <3>2. CASE reply[c] = "ok"
      BY <2>0, <2>4, <3>1, <3>2 DEF LoginAnswered
    <3>3. CASE reply[c] # "ok"
      BY <2>4, <3>1, <3>3 DEF LoginAnswered
    <3> QED BY <3>2, <3>3
  <2>5. CASE LogoutAnswered(c)
    <3>1. reply[c] = "ok" /\ client[c] = "logout"
      BY <2>5 DEF LogoutAnswered, Asks, LogoutPcs, LoginPcs, RequestPc
    <3> QED BY <2>0, <2>5, <3>1 DEF LogoutAnswered
  <2>6. CASE TypeLine(c)
    BY <2>0, <2>6 DEF TypeLine
  <2>7. CASE Exit(c) \/ Killed(c)
    BY <2>7 DEF Exit, Killed, Leave
  <2> QED BY <1>1, <2>1, <2>2, <2>3, <2>4, <2>5, <2>6, <2>7 DEF ClientStep
<1>2. CASE RequestStep(c)
  BY <1>2 DEF RequestStep, Credentials, CheckUnique, FindFree, StoreName, StoreToken,
     Find, RemoveToken, RemoveName, RemoveSock, clientVars, connVars
<1>3. CASE ConnStep(c)
  <2> USE DEF ConnIn, ConnAt, NextEntry, Notify, clientVars, connVars
  <2>1. ASSUME NEW k \in 1 .. Len(stream[c]), Recv(c, k) PROVE Manners(c)'
    BY <2>1, OneText
  <2>2. CASE RecvEnd(c) BY <2>2 DEF RecvEnd
  <2>3. CASE Match(c) BY <2>3 DEF Match
  <2>4. CASE Attach(c) BY <2>4 DEF Attach, Course
  <2>5. CASE Broadcast(c)
    <3>1. ~answered[c] /\ answered'[c] => stream[c] = <<>>
      <4>1. SUFFICES ASSUME ~answered[c], answered'[c], stream[c] # <<>>
                     PROVE  FALSE
        OBVIOUS
      <4>2. sock[ci[c]] # None /\ open[sock[ci[c]]] = c
        BY <2>5, <4>1 DEF Broadcast
      <4>3. ci[c] > memory_index[c] /\ memory_index[c] = ci[c]
        BY <2>5, <4>1, <4>2, EchoAtOwn DEF Broadcast, EchoPassed
      <4> QED BY <4>3, NotNone
    <3>2. answered[c] => answered'[c]
      BY <2>5 DEF Broadcast
    <3>3. /\ conn[c] = "send" /\ conn'[c] \in {"send", "recv"}
          /\ conn'[c] = "recv" => ci'[c] = 1
          /\ UNCHANGED <<client, user, held, stream, memory_index, sock_c>>
      BY <2>5 DEF Broadcast
    <3> QED BY <3>1, <3>2, <3>3
  <2>6. CASE Close(c) BY <2>6 DEF Close
  <2>7. CASE CheckSock(c) BY <2>7 DEF CheckSock
  <2>8. CASE ClearSock(c) BY <2>8 DEF ClearSock
  <2>9. CASE ClearToken(c) BY <2>9 DEF ClearToken
  <2>10. CASE ClearName(c) BY <2>10 DEF ClearName
  <2> QED BY <1>3, <2>1, <2>2, <2>3, <2>4, <2>5, <2>6, <2>7, <2>8, <2>9, <2>10
          DEF ConnStep
<1> QED BY <1>1, <1>2, <1>3

LEMMA AsksKept ==
  ASSUME OrderlyInv, Orderly, NEW c \in Clients,
         ClientStep(c) \/ RequestStep(c) \/ ConnStep(c)
  PROVE  Asks(c)'
<1>0. TypeOK /\ Manners(c) /\ Asks(c) /\ Seat(c) /\ Course(c)
  BY Known
<1>t. request[c] \in RequestPc /\ ri[c] \in Slots
  BY <1>0, LocalTypes
<1> USE <1>0, <1>t DEF Asks, LoginPcs, LogoutPcs, TypeOK, ClientType, RequestType
<1>1. CASE ClientStep(c)
  BY <1>1 DEF ClientStep, Connect, AskLogin, AskLogout, LoginAnswered, LogoutAnswered,
     TypeLine, Leave, Exit, Killed, AtPrompt, Orderly, Course, requestVars, RequestPc
<1>2. CASE RequestStep(c)
  <2> USE DEF RequestIn, RequestAt, RequestEnds, clientVars
  <2>1. CASE Credentials(c) BY <2>1 DEF Credentials
  <2>2. CASE CheckUnique(c) BY <2>2 DEF CheckUnique
  <2>3. CASE FindFree(c) BY <2>3 DEF FindFree
  <2>4. CASE StoreName(c) BY <2>4 DEF StoreName
  <2>5. CASE StoreToken(c) BY <2>5 DEF StoreToken
  <2>6. CASE Find(c)
    <3>1. ~(Last(ri[c]) /\ token[ri[c]] # c)
      BY <2>6 DEF Find, Seat, Last, Slots
    <3> QED BY <2>6, <3>1 DEF Find
  <2>7. CASE RemoveToken(c) BY <2>7 DEF RemoveToken
  <2>8. CASE RemoveName(c) BY <2>8 DEF RemoveName
  <2>9. CASE RemoveSock(c) BY <2>9 DEF RemoveSock
  <2> QED BY <1>2, <2>1, <2>2, <2>3, <2>4, <2>5, <2>6, <2>7, <2>8, <2>9 DEF RequestStep
<1>3. CASE ConnStep(c)
  BY <1>3 DEF ConnStep, Recv, RecvEnd, Match, Attach, Broadcast, Close, CheckSock,
     ClearSock, ClearToken, ClearName, ConnAt, clientVars, requestVars
<1> QED BY <1>1, <1>2, <1>3

LEMMA EchoPassedKept ==
  ASSUME Orderly, OrderlyInv, NEW c \in Clients,
         ClientStep(c) \/ RequestStep(c) \/ ConnStep(c)
  PROVE  EchoPassed(c)'
<1>0. TypeOK /\ Manners(c) /\ Asks(c) /\ EchoPassed(c) /\ Course(c)
  BY Known
<1>t. ci[c] \in Slots /\ memory_index[c] \in Slots \cup {None} /\ request[c] \in RequestPc
  BY <1>0, LocalTypes
<1> USE <1>0, <1>t DEF EchoPassed, TypeOK, ClientType, ConnType
<1>1. CASE ClientStep(c)
  <2> USE DEF clientVars, connVars
  <2>1. ASSUME NEW f \in Fds, Connect(c, f) PROVE EchoPassed(c)'
    BY <2>1 DEF Connect
  <2>2. ASSUME NEW u \in Users, AskLogin(c, u) PROVE EchoPassed(c)'
    BY <2>2 DEF AskLogin
  <2>3. CASE AskLogout(c) BY <2>3 DEF AskLogout
  <2>4. CASE LoginAnswered(c)
    <3>1. conn[c] # "send"
      BY <2>4 DEF LoginAnswered, Manners, Course
    <3> QED BY <2>4, <3>1 DEF LoginAnswered
  <2>5. CASE LogoutAnswered(c)
    <3>1. reply[c] = "ok"
      BY <2>5 DEF LogoutAnswered, Asks, Course, LogoutPcs, LoginPcs, RequestPc
    <3> QED BY <2>5, <3>1 DEF LogoutAnswered
  <2>6. CASE TypeLine(c) BY <2>6 DEF TypeLine, AtPrompt, Orderly
  <2>7. CASE Exit(c) \/ Killed(c) BY <2>7 DEF Exit, Killed, Leave
  <2> QED BY <1>1, <2>1, <2>2, <2>3, <2>4, <2>5, <2>6, <2>7 DEF ClientStep
<1>2. CASE RequestStep(c)
  BY <1>2 DEF RequestStep, Credentials, CheckUnique, FindFree, StoreName, StoreToken,
     Find, RemoveToken, RemoveName, RemoveSock, clientVars, connVars
<1>3. CASE ConnStep(c)
  <2> USE DEF ConnIn, ConnAt, NextEntry, clientVars
  <2>1. ASSUME NEW k \in 1 .. Len(stream[c]), Recv(c, k) PROVE EchoPassed(c)'
    BY <2>1, OneText
  <2>2. CASE Broadcast(c)
    <3>1. SUFFICES ASSUME conn'[c] = "send", client[c] = "idle",
                          answered'[c] \/ stream[c] # <<>>
                   PROVE  ci'[c] > memory_index'[c]
      BY <2>2 DEF Broadcast
    <3>2. ci'[c] = ci[c] + 1 /\ memory_index'[c] = memory_index[c] /\ memory_index[c] # None
      BY <2>2, <3>1 DEF Broadcast, Manners
    <3>3. ci[c] > memory_index[c] \/ memory_index[c] = ci[c]
      <4>1. CASE answered[c] \/ stream[c] # <<>>
        BY <2>2, <3>1, <4>1 DEF Broadcast
      <4>2. CASE ~answered[c] /\ stream[c] = <<>>
        BY <2>2, <3>1, <4>2, EchoAtOwn DEF Broadcast
      <4> QED BY <4>1, <4>2
    <3> QED BY <3>2, <3>3, NotNone
  <2>3. CASE ~Broadcast(c) /\ ~\E k \in 1 .. Len(stream[c]) : Recv(c, k)
    <3>1. conn'[c] # "send"
      BY <1>3, <2>3 DEF ConnStep, RecvEnd, Match, Attach, Close, CheckSock, ClearSock,
         ClearToken, ClearName
    <3> QED BY <3>1
  <2> QED BY <2>1, <2>2, <2>3
<1> QED BY <1>1, <1>2, <1>3

LEMMA SeatKeptByClient ==
  ASSUME Orderly, OrderlyInv, NEW c \in Clients, ClientStep(c)
  PROVE  Seat(c)'
<1>0. TypeOK /\ Manners(c) /\ Asks(c) /\ Seat(c) /\ Course(c) /\ Unused(c)
  BY Known
<1>1. UNCHANGED <<token, sock, ri, memory_index>>
  BY DEF ClientStep, Connect, AskLogin, AskLogout, LoginAnswered, LogoutAnswered,
         TypeLine, Leave, Exit, Killed, table, requestVars, connVars
<1>2. request[c] \in RequestPc /\ conn[c] \in ConnPc /\ ri[c] \in Slots
  BY <1>0, LocalTypes
<1> USE <1>0, <1>1, <1>2 DEF TypeOK, ClientType, RequestType, ConnType
<1>3. ASSUME NEW f \in Fds, Connect(c, f) PROVE Seat(c)'
  <2>1. /\ client'[c] = "idle" /\ client[c] = "out" /\ UNCHANGED <<held, request>>
        /\ request[c] = "none" /\ ~held[c]
    BY <1>3 DEF Connect, requestVars, Course
  <2> QED BY <2>1 DEF Seat
<1>4. ASSUME NEW u \in Users, AskLogin(c, u) PROVE Seat(c)'
  <2>1. client'[c] = "login" /\ request'[c] = "check" /\ reply'[c] = "none"
    BY <1>4 DEF AskLogin, AtPrompt, Course
  <2> QED BY <2>1 DEF Seat
<1>5. ASSUME client[c] = "idle", answered[c], NEW i \in Slots, token[i] = c
      PROVE  memory_index[c] = i /\ sock[i] = sock_c[c] /\ ri[c] <= i
  <2>1. held[c] /\ request[c] = "none"
    BY <1>5 DEF Unused, MayGetToken, Course
  <2>2. ri[c] = 1 BY <2>1 DEF Asks
  <2>3. PICK j \in Slots : token[j] = c /\ Attached(c, j)
    BY <1>5, <2>1 DEF Seat
  <2>4. j = i BY <1>5, <2>3, Known, NotNone DEF TokenInOneSlot
  <2> QED BY <1>5, <2>2, <2>3, <2>4, SlotsAssumption DEF Attached, Slots
<1>6. CASE AskLogout(c)
  <2>1. /\ client[c] = "idle" /\ answered[c] /\ held[c] /\ client'[c] = "logout"
        /\ request'[c] = "find" /\ UNCHANGED <<conn, sock_c>>
    BY <1>6 DEF AskLogout, AtPrompt, Orderly, connVars
  <2>2. PICK i \in Slots : token[i] = c BY <2>1 DEF Seat
  <2> QED BY <1>5, <2>1, <2>2 DEF Seat, Manners
<1>7. CASE LoginAnswered(c)
  <2>1. /\ client[c] = "login" /\ client'[c] = "idle" /\ request[c] = "none"
        /\ ~held[c] /\ memory_index[c] = None /\ answered[c] /\ stream[c] = <<>>
        /\ UNCHANGED <<request, conn, ci>>
    BY <1>7 DEF LoginAnswered, Course, Manners, Asks, LoginPcs, LogoutPcs, RequestPc,
                connVars
  <2>2. CASE reply[c] = "ok"
    <3>1. PICK i \in Slots : token[i] = c BY <2>1, <2>2 DEF Seat
    <3>2. stream'[c] = <<"token">> /\ ~answered'[c]
      <4>1. Append(<<>>, "token") = <<"token">> OBVIOUS
      <4> QED BY <1>7, <2>1, <2>2, <4>1 DEF LoginAnswered
    <3>3. conn[c] = "recv" BY <2>1 DEF Manners, ConnPc
    <3> QED BY <2>1, <3>1, <3>2, <3>3 DEF Seat, Attached
  <2>3. CASE reply[c] # "ok"
    BY <1>7, <2>1, <2>3 DEF LoginAnswered, Seat
  <2> QED BY <2>2, <2>3
<1>8. CASE LogoutAnswered(c)
  <2>1. /\ reply[c] = "ok" /\ client[c] = "logout" /\ request[c] = "none"
        /\ UNCHANGED <<request, conn, sock_c>>
    BY <1>8 DEF LogoutAnswered, Asks, Course, LogoutPcs, LoginPcs, RequestPc, connVars
  <2> QED BY <1>8, <2>1 DEF LogoutAnswered, Seat
<1>9. CASE TypeLine(c)
  <2>1. /\ client[c] = "idle" /\ answered[c] /\ request[c] = "none"
        /\ UNCHANGED <<client, held, request, conn, sock_c>>
    BY <1>9 DEF TypeLine, AtPrompt, Orderly, Course, requestVars, connVars
  <2>2. ASSUME held[c] PROVE \E i \in Slots : token[i] = c /\ Attached(c, i)'
    <3>1. PICK i \in Slots : token[i] = c /\ Attached(c, i) BY <2>1, <2>2 DEF Seat
    <3> QED BY <2>1, <3>1 DEF Attached
  <2> QED BY <2>1, <2>2 DEF Seat
<1>10. CASE Exit(c) \/ Killed(c)
  <2>1. /\ client[c] = "idle" /\ answered[c] /\ client'[c] = "gone" /\ request[c] = "none"
        /\ UNCHANGED <<request, conn, sock_c>>
    BY <1>10 DEF Exit, Killed, Leave, AtPrompt, Orderly, Course, requestVars, connVars
  <2> QED BY <1>5, <2>1 DEF Seat, Manners
<1> QED BY <1>3, <1>4, <1>6, <1>7, <1>8, <1>9, <1>10 DEF ClientStep

LEMMA SeatKeptByRequest ==
  ASSUME OrderlyInv, NEW c \in Clients, RequestStep(c)
  PROVE  Seat(c)'
<1>0. /\ TypeOK /\ Asks(c) /\ Seat(c) /\ Course(c) /\ Manners(c) /\ TokenInOneSlot
      /\ request[c] \in RequestPc /\ ri[c] \in Slots
  BY Known, LocalTypes
<1>1. UNCHANGED <<clientVars, connVars>>
  BY DEF RequestStep, Credentials, CheckUnique, FindFree, StoreName, StoreToken, Find,
         RemoveToken, RemoveName, RemoveSock
<1> USE <1>0, <1>1 DEF TypeOK, TableType, RequestType, table, clientVars, connVars,
        RequestIn, RequestAt, RequestEnds
<1>2. CASE Credentials(c) \/ CheckUnique(c) \/ FindFree(c) \/ StoreName(c)
  <2>1. /\ client[c] = "login" /\ reply'[c] # "ok" /\ UNCHANGED token
        /\ request'[c] \in LoginPcs \cup {"none"}
    BY <1>2 DEF Credentials, CheckUnique, FindFree, StoreName, Asks, LoginPcs, Course
  <2> QED BY <2>1 DEF Seat, LoginPcs
<1>3. CASE StoreToken(c)
  <2>1. client[c] = "login" /\ token'[ri[c]] = c /\ request'[c] = "none"
    BY <1>3 DEF StoreToken, Asks, LoginPcs
  <2> QED BY <2>1 DEF Seat
<1>4. CASE Find(c)
  <2>1. client[c] = "logout" /\ UNCHANGED <<token, sock>> /\ request[c] = "find"
    BY <1>4 DEF Find, Asks, LogoutPcs
  <2>2. PICK i \in Slots : token[i] = c /\ ri[c] <= i
    BY <2>1 DEF Seat
  <2>3. \/ request'[c] = "clearToken" /\ ri'[c] = ri[c] /\ token[ri[c]] = c
        \/ request'[c] = "find" /\ ri'[c] = ri[c] + 1 /\ ri'[c] <= i
    <3>1. token[ri[c]] # c => ri[c] + 1 <= i /\ ~Last(ri[c])
      BY <2>2, SlotsAssumption DEF Last, Slots
    <3> QED BY <1>4, <3>1 DEF Find
  <2> QED BY <2>1, <2>2, <2>3 DEF Seat
<1>5. CASE RemoveToken(c)
  <2>1. /\ client[c] = "logout" /\ token[ri[c]] = c /\ request'[c] = "clearName"
        /\ token' = [token EXCEPT ![ri[c]] = None]
    BY <1>5 DEF RemoveToken, Asks, LogoutPcs, Seat
  <2>2. \A i \in Slots : token'[i] # c
    BY <2>1, NotNone DEF TokenInOneSlot
  <2> QED BY <2>1, <2>2 DEF Seat
<1>6. CASE RemoveName(c)
  BY <1>6 DEF RemoveName, Asks, LogoutPcs, Seat
<1>7. CASE RemoveSock(c)
  BY <1>7 DEF RemoveSock, Asks, LogoutPcs, Seat
<1> QED BY <1>2, <1>3, <1>4, <1>5, <1>6, <1>7 DEF RequestStep

\* Clause by clause, a client that left or leaves keeps its own entry.
Parting(c, i) ==
  /\ memory_index[c] = i
  /\ conn[c] # "clearToken" => sock[i] = sock_c[c]
  /\ conn[c] \notin {"clearName", "done"}

LEMMA SeatKeptByReceiver ==
  ASSUME OrderlyInv, NEW c \in Clients, ConnStep(c)
  PROVE  Seat(c)'
<1>0. /\ TypeOK /\ Manners(c) /\ Asks(c) /\ Seat(c) /\ Course(c) /\ AttachOnce(c)
      /\ TokenInOneSlot /\ ci[c] \in Slots /\ memory_index[c] \in Slots \cup {None}
      /\ conn[c] # "none" => sock_c[c] \in Fds
  BY Known, LocalTypes
<1>1. UNCHANGED <<client, user, held, requestVars, sock_c>>
  BY DEF ConnStep, Recv, RecvEnd, Match, Attach, Broadcast, Close, CheckSock, ClearSock,
         ClearToken, ClearName, ConnAt, clientVars
<1> USE <1>0, <1>1 DEF TypeOK, TableType, ClientType, ConnType, requestVars
<1>2. ASSUME UNCHANGED token,
             client[c] = "idle" /\ held[c] =>
               \A i \in Slots : token[i] = c /\ Attached(c, i) => Attached(c, i)',
             client[c] \in {"logout", "gone"} =>
               \A i \in Slots : token[i] = c /\ Parting(c, i) => Parting(c, i)'
      PROVE  Seat(c)'
  BY <1>2 DEF Seat, Parting
<1> USE DEF ConnIn, ConnAt, table
<1>3. ASSUME NEW k \in 1 .. Len(stream[c]), Recv(c, k) PROVE Seat(c)'
  <2>1. /\ UNCHANGED <<table, ci, memory_index>> /\ conn[c] = "recv" /\ ci[c] = 1
        /\ stream' = [stream EXCEPT ![c] = <<>>]
    BY <1>3, OneText DEF Manners
  <2>2. conn'[c] \in {"recv", "match", "send", "close"}
    BY <1>3, OneText
  <2>3. ASSUME client[c] = "idle", held[c], NEW i \in Slots, Attached(c, i)
        PROVE  Attached(c, i)'
    <3>1. CASE memory_index[c] = None
      <4>1. stream[c] = <<"token">> /\ ~answered[c]
        BY <2>1, <2>3, <3>1 DEF Attached
      <4>2. conn'[c] = "match" /\ ~answered'[c]
        BY <1>3, <3>1, <4>1, OneText
      <4> QED BY <2>1, <3>1, <4>2 DEF Attached, Slots
    <3>2. CASE memory_index[c] # None
      BY <2>1, <2>3, <3>2 DEF Attached
    <3> QED BY <3>1, <3>2
  <2> QED BY <1>2, <2>1, <2>2, <2>3 DEF Parting
<1>4. CASE RecvEnd(c)
  BY <1>2, <1>4 DEF RecvEnd, Parting, Manners
<1>5. CASE Match(c)
  <2>1. /\ UNCHANGED <<table, memory_index>> /\ client[c] = "idle" /\ ~answered[c]
        /\ conn[c] = "match" /\ held[c]
    BY <1>5 DEF Match, Manners, Course
  <2>2. ASSUME NEW i \in Slots, token[i] = c, Attached(c, i) PROVE Attached(c, i)'
    <3>1. CASE memory_index[c] # None
      BY <2>1, <2>2, <3>1 DEF Attached
    <3>2. CASE memory_index[c] = None
      <4>1. ci[c] <= i BY <2>1, <2>2, <3>2 DEF Attached
      <4>2. CASE token[ci[c]] = c
        BY <1>5, <2>1, <3>2, <4>2 DEF Match, Attached
      <4>3. CASE token[ci[c]] # c
        <5>1. ci[c] + 1 <= i /\ ~Last(ci[c])
          BY <2>2, <4>1, <4>3, SlotsAssumption DEF Last, Slots
        <5> QED BY <1>5, <2>1, <3>2, <4>3, <5>1 DEF Match, NextEntry, Attached
      <4> QED BY <4>2, <4>3
    <3> QED BY <3>1, <3>2
  <2> QED BY <1>2, <2>1, <2>2
<1>6. CASE Attach(c)
  <2>1. /\ token[ci[c]] = c /\ client[c] = "idle" /\ UNCHANGED token
        /\ memory_index'[c] = ci[c] /\ sock'[ci[c]] = sock_c[c]
    BY <1>6, AttachAtOwn DEF Attach
  <2>2. \A i \in Slots : token[i] = c => i = ci[c]
    BY <2>1, NotNone DEF TokenInOneSlot
  <2> QED BY <1>2, <2>1, <2>2, NotNone DEF Attached
<1>7. CASE Broadcast(c)
  <2>1. /\ UNCHANGED <<table, memory_index>> /\ memory_index[c] # None
        /\ conn[c] = "send" /\ conn'[c] \in {"send", "recv"}
    BY <1>7 DEF Broadcast, Manners
  <2> QED BY <1>2, <2>1 DEF Attached, Parting
<1>8. CASE Close(c)
  BY <1>2, <1>8 DEF Close, Parting, Manners
<1>9. CASE CheckSock(c)
  <2>1. client[c] = "gone" /\ conn[c] = "guard" /\ UNCHANGED <<table, memory_index>>
    BY <1>9 DEF CheckSock, Manners
  <2>2. ASSUME NEW i \in Slots, Parting(c, i) PROVE Parting(c, i)'
    <3>1. memory_index[c] # None /\ sock[memory_index[c]] = sock_c[c]
      BY <2>1, <2>2, NotNone DEF Parting
    <3> QED BY <1>9, <2>1, <2>2, <3>1 DEF CheckSock, Parting
  <2> QED BY <1>2, <2>1, <2>2
<1>10. CASE ClearSock(c)
  BY <1>2, <1>10 DEF ClearSock, Parting, Manners
<1>11. CASE ClearToken(c)
  <2>1. /\ client[c] = "gone" /\ token' = [token EXCEPT ![memory_index[c]] = None]
        /\ request[c] \notin {"find", "clearToken", "clearName", "clearSock"}
    BY <1>11 DEF ClearToken, Manners, Asks, LogoutPcs
  <2>2. \A i \in Slots : token'[i] # c
    BY <2>1, NotNone DEF Seat
  <2> QED BY <2>1, <2>2 DEF Seat
<1>12. CASE ClearName(c)
  BY <1>2, <1>12 DEF ClearName, Parting, Manners
<1> QED
  BY <1>3, <1>4, <1>5, <1>6, <1>7, <1>8, <1>9, <1>10, <1>11, <1>12 DEF ConnStep

-----------------------------------------------------------------------------
(* The invariant holds.                                                    *)

\* A step leaves what is said of the other clients true.
LEMMA OthersKept ==
  ASSUME OrderlyInv, NEW c \in Clients,
         ClientStep(c) \/ RequestStep(c) \/ ConnStep(c), NEW d \in Clients \ {c}
  PROVE  ClientInv(d)'
<1>0. /\ TypeOK /\ Manners(d) /\ Asks(d) /\ EchoPassed(d) /\ Seat(d)
      /\ ri[d] \in Slots
  BY Known, LocalTypes
<1>1. UNCHANGED Locals(d) /\ answered'[d] = answered[d]
  BY <1>0, Locality, AnsweredOwn
<1>2. \A i \in Slots :
        /\ token'[i] = d <=> token[i] = d
        /\ token[i] = d => sock'[i] = sock[i]
  BY OthersLeft DEF Occupies
<1>3. Manners(d)' /\ Asks(d)' /\ EchoPassed(d)'
  BY <1>0, <1>1 DEF Locals, Manners, Asks, EchoPassed
<1>4. Seat(d)'
  <2> USE <1>0, <1>1, <1>2 DEF Locals
  <2>1. (client[d] = "login" /\ reply[d] = "ok" => \E i \in Slots : token[i] = d)'
    BY DEF Seat
  <2>2. (client[d] = "idle" /\ held[d] =>
           \E i \in Slots : token[i] = d /\ Attached(d, i))'
    <3>1. ASSUME NEW i \in Slots, token[i] = d, Attached(d, i) PROVE Attached(d, i)'
      BY <3>1 DEF Attached
    <3> QED BY <3>1 DEF Seat
  <2>3. (request[d] = "find" => \E i \in Slots : token[i] = d /\ ri[d] <= i)'
    BY DEF Seat
  <2>4. (request[d] = "clearToken" => token[ri[d]] = d)'
    BY DEF Seat
  <2>5. (request[d] \in {"clearName", "clearSock"} => \A i \in Slots : token[i] # d)'
    BY DEF Seat
  <2>6. (client[d] \in {"logout", "gone"} => \A i \in Slots : token[i] = d =>
           /\ memory_index[d] = i
           /\ conn[d] # "clearToken" => sock[i] = sock_c[d]
           /\ conn[d] \notin {"clearName", "done"})'
    BY DEF Seat
  <2> QED BY <2>1, <2>2, <2>3, <2>4, <2>5, <2>6 DEF Seat
<1> QED BY <1>3, <1>4 DEF ClientInv

LEMMA OrderlyInvInit == Init => OrderlyInv
<1> SUFFICES ASSUME Init PROVE OrderlyInv
  OBVIOUS
<1>1. LoginInv
  BY LoginInvInit
<1>2. \A c \in Clients : ClientInv(c)
  BY DEF Init, ClientInv, Manners, Asks, EchoPassed, Seat, LoginPcs, LogoutPcs
<1>3. NoOrphanSocket /\ OwnSocket
  BY DEF Init, NoOrphanSocket, OwnSocket
<1>4. \A i \in Slots, c \in Clients : ~Occupies(c, i)
  BY NotNone DEF Init, Occupies
<1>5. OneOccupant /\ OwnName
  BY <1>4 DEF OneOccupant, OwnName
<1>6. OwnDescriptor
  BY NotNone DEF Init, OwnDescriptor
<1> QED BY <1>1, <1>2, <1>3, <1>5, <1>6 DEF OrderlyInv

LEMMA OrderlyInvKept ==
  ASSUME Orderly, OrderlyInv, [Next]_vars
  PROVE  OrderlyInv'
<1>1. LoginInv'
  BY LoginInvKept DEF Orderly, OrderlyInv
<1>2. CASE UNCHANGED vars
  <2> USE <1>2 DEF vars, table, net, clientVars, requestVars, connVars
  <2>1. NoOrphanSocket' /\ OneOccupant' /\ OwnName' /\ OwnSocket' /\ OwnDescriptor'
    BY DEF OrderlyInv, NoOrphanSocket, WillClear, OneOccupant, OwnName, OwnSocket,
       OwnDescriptor, Occupies
  <2>2. ASSUME NEW c \in Clients PROVE ClientInv(c)'
    <3>1. ClientInv(c) BY DEF OrderlyInv
    <3> QED BY <3>1 DEF ClientInv, Manners, Asks, EchoPassed, Seat, Attached
  <2> QED BY <1>1, <2>1, <2>2 DEF OrderlyInv
<1>3. ASSUME NEW c \in Clients, ClientStep(c) \/ RequestStep(c) \/ ConnStep(c)
      PROVE  OrderlyInv'
  <2>1. NoOrphanSocket'
    BY <1>3, NoOrphanKept DEF OrderlyInv, LoginInv
  <2>2. ClientInv(c)'
    BY <1>3, MannersKept, AsksKept, EchoPassedKept, SeatKeptByClient,
       SeatKeptByRequest, SeatKeptByReceiver DEF ClientInv
  <2>3. \A d \in Clients \ {c} : ClientInv(d)'
    BY <1>3, OthersKept
  <2>4. OneOccupant' /\ OwnName' /\ OwnSocket' /\ OwnDescriptor'
    BY <1>3, OneOccupantKept, OwnNameKept, OwnSocketKept, OwnDescriptorKept
  <2> QED BY <1>1, <2>1, <2>2, <2>3, <2>4 DEF OrderlyInv
<1> QED BY <1>2, <1>3 DEF Next

LEMMA OrderlyInvHolds ==
  ASSUME Orderly
  PROVE  Spec => []OrderlyInv
<1>1. OrderlyInv /\ [Next]_vars => OrderlyInv'
  BY OrderlyInvKept
<1> QED BY <1>1, OrderlyInvInit, PTL DEF Spec

-----------------------------------------------------------------------------
(* What follows from it.                                                   *)

\* The name in a broadcast is read from the entry when the line is received,
\* and that entry is still the client's own.
LEMMA SenderKept ==
  ASSUME OrderlyInv, Attribution, [Next]_vars
  PROVE  Attribution'
<1>1. CASE UNCHANGED vars
  BY <1>1 DEF vars, clientVars, connVars, Attribution
<1>2. ASSUME NEW c \in Clients, ClientStep(c) \/ RequestStep(c) \/ ConnStep(c)
      PROVE  Attribution'
  <2>0. TypeOK /\ Manners(c) /\ Seat(c) /\ memory_index[c] \in Slots \cup {None}
    BY Known, LocalTypes
  <2>1. ASSUME NEW d \in Clients \ {c}, conn'[d] = "send" PROVE sender'[d] = user'[d]
    BY <1>2, <2>0, <2>1, Locality DEF Locals, Attribution
  <2>2. ASSUME conn'[c] = "send" PROVE sender'[c] = user'[c]
    <3>1. ASSUME NEW k \in 1 .. Len(stream[c]), Recv(c, k) PROVE sender'[c] = user'[c]
      <4>1. /\ client[c] = "idle" /\ held[c] /\ memory_index[c] # None
            /\ sender' = [sender EXCEPT ![c] = username[memory_index[c]]]
            /\ user'[c] = user[c] /\ request[c] = "none"
        BY <2>0, <2>2, <3>1, OneText, Known DEF Manners, Course, TypeOK, ConnType
      <4>2. token[memory_index[c]] = c
        BY <2>0, <4>1 DEF Seat, Attached
      <4>3. username[memory_index[c]] = user[c]
        BY <2>0, <4>1, <4>2 DEF OrderlyInv, OwnName, Occupies
      <4> QED BY <2>0, <4>1, <4>3 DEF TypeOK, ConnType
    <3>2. CASE Broadcast(c)
      BY <2>0, <2>2, <3>2 DEF Broadcast, ConnIn, Attribution, TypeOK, ConnType
    <3>3. CASE ClientStep(c)
      <4>1. conn[c] = "send" /\ sender'[c] = sender[c]
        BY <2>0, <2>2, <3>3 DEF ClientStep, Connect, AskLogin, AskLogout, LoginAnswered,
           LogoutAnswered, TypeLine, Leave, Exit, Killed, connVars, TypeOK, ConnType
      <4>2. user'[c] = user[c]
        BY <2>0, <3>3, <4>1 DEF ClientStep, Connect, AskLogin, AskLogout, LoginAnswered,
           LogoutAnswered, TypeLine, Leave, Exit, Killed, clientVars, Manners
      <4> QED BY <4>1, <4>2 DEF Attribution
    <3>4. CASE RequestStep(c)
      BY <2>2, <3>4 DEF RequestStep, Credentials, CheckUnique, FindFree, StoreName,
         StoreToken, Find, RemoveToken, RemoveName, RemoveSock, clientVars, connVars,
         Attribution
    <3>5. CASE ConnStep(c) /\ ~Broadcast(c) /\ ~\E k \in 1 .. Len(stream[c]) : Recv(c, k)
      <4>1. conn'[c] # "send"
        BY <2>0, <3>5 DEF ConnStep, ConnIn, RecvEnd, Match, Attach, Close, CheckSock, ClearSock,
           ClearToken, ClearName, NextEntry, ConnAt, TypeOK, ConnType
      <4> QED BY <2>2, <4>1
    <3> QED BY <1>2, <3>1, <3>2, <3>3, <3>4, <3>5
  <2> QED BY <2>1, <2>2 DEF Attribution
<1> QED BY <1>1, <1>2 DEF Next

\* In the orderly workload a line is broadcast under the name of the user who
\* typed it (main.c:44, 48), although the thread reads that name from an entry
\* of the table it does not lock.
THEOREM LinesAttributed ==
  ASSUME Orderly
  PROVE  Spec => []Attribution
<1>1. Init => Attribution
  BY DEF Init, Attribution
<1>2. OrderlyInv /\ Attribution /\ [Next]_vars => Attribution'
  BY SenderKept
<1> QED BY <1>1, <1>2, OrderlyInvHolds, PTL DEF Spec

\* In the orderly workload a client that is logged in keeps its entry, with its
\* name and, once it was answered, its descriptor.
THEOREM LoginsKept ==
  ASSUME Orderly
  PROVE  Spec => []LoginKept
<1>1. OrderlyInv => LoginKept
  <2> SUFFICES ASSUME OrderlyInv, NEW c \in Clients, client[c] = "idle", held[c]
               PROVE  Seated(c)
    BY DEF LoginKept
  <2>1. PICK i \in Slots : token[i] = c /\ Attached(c, i)
    BY Known DEF Seat
  <2>2. username[i] = user[c]
    <3>1. request[c] = "none" BY Known DEF Course
    <3> QED BY <2>1, <3>1 DEF OrderlyInv, OwnName, Occupies
  <2> QED BY <2>1, <2>2 DEF Attached, Seated
<1> QED BY <1>1, OrderlyInvHolds, PTL

\* In the orderly workload the table is empty once everybody has left: log outs
\* over UDP and ends of connections together give back every entry.
THEOREM AllReleased ==
  ASSUME Orderly
  PROVE  Spec => []ReleasedWhenQuiet
<1>1. OrderlyInv /\ HalfOpenHasWorker => ReleasedWhenQuiet
  <2> SUFFICES ASSUME OrderlyInv, HalfOpenHasWorker, \A c \in Clients : Quiet(c),
                      NEW i \in Slots
               PROVE  username[i] = None /\ token[i] = None /\ sock[i] = None
    BY DEF ReleasedWhenQuiet
  <2>1. token[i] = None
    <3>1. SUFFICES ASSUME NEW c \in Clients, token[i] = c PROVE FALSE
      BY Known DEF OrderlyInv, LoginInv, TokenInv, TypeOK, TableType
    <3>2. client[c] = "gone" /\ conn[c] \in {"none", "done"}
      BY <3>1, Known DEF Quiet, Unused, MayGetToken
    <3>3. conn[c] # "none"
      BY <3>2, Known DEF Manners
    <3> QED BY <3>1, <3>2, <3>3, Known DEF Seat
  <2>2. sock[i] = None
    BY DEF OrderlyInv, NoOrphanSocket, WillClear, Quiet
  <2>3. username[i] = None
    BY <2>1 DEF HalfOpenHasWorker, HalfWay, Quiet
  <2> QED BY <2>1, <2>2, <2>3
<1> QED BY <1>1, OrderlyInvHolds, HalfOpenTended, PTL

=============================================================================
