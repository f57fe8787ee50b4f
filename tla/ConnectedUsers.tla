--------------------------- MODULE ConnectedUsers ---------------------------
(***************************************************************************)
(* The table of connected users (shared_memory) and every thread that      *)
(* touches it without a lock:                                              *)
(*                                                                         *)
(*  - the request threads started for a UDP log in or log out, which run   *)
(*    add_user and remove_user;                                            *)
(*  - one message_receiver thread per TCP connection, which attaches its   *)
(*    socket to the entry that holds the token it received, broadcasts     *)
(*    lines, and clears the entry when the connection ends;                *)
(*  - the clients, whose command loop decides what is sent and when.       *)
(*                                                                         *)
(* One step reads or writes one field of one entry, as far as another      *)
(* thread can tell. A client logs in successfully at most once in its life *)
(* (/login is refused while it has a token, and it ends after /logout), so *)
(* the client's name also names its connection, its message_receiver       *)
(* thread, its request thread and the token it is given.                   *)
(***************************************************************************)
EXTENDS Naturals, Sequences

CONSTANTS
  MAX_USERS_CONNECTED,  \* entries of shared_memory
  Clients,              \* client processes over the server's life
  Users,                \* accounts
  Fds,                  \* descriptors accept() may return
  None,                 \* the empty string, descriptor 0, memory_index -1
  MaxUnread,            \* bound: lines typed that the server has not read
  Hasty,                \* clients that type on before the server answered
  Killable,             \* clients that may be killed at any moment
  Overlap,              \* may two request threads run at the same time?
  ReuseFds              \* may accept() return a descriptor closed before?

ASSUME SlotsAssumption == MAX_USERS_CONNECTED \in Nat \ {0}
ASSUME NoneAssumption  ==
  None \notin Clients \cup Users \cup Fds \cup (1 .. MAX_USERS_CONNECTED)
ASSUME ModeAssumption  == Overlap \in BOOLEAN /\ ReuseFds \in BOOLEAN
ASSUME BoundAssumption == MaxUnread \in Nat

VARIABLES
  username, token, sock,        \* shared_memory[i], one function per field
  alive,                        \* the server process runs
  open,                         \* descriptor -> client at its other end
  reset,                        \* clients gone whose side answered with RST
  client, user, held,           \* command loop, account named, token # ""
  answered, stream,             \* server answered last line; unread TCP bytes
  request, ri,                  \* request thread of a client, its index i
  reply,                        \* datagram on its way to the client
  conn, ci,                     \* message_receiver thread, its index i
  memory_index, sock_c,         \* its locals of these names
  sender                        \* username copied into broadcast_message

table       == <<username, token, sock>>
net         == <<alive, open, reset>>
clientVars  == <<client, user, held, answered, stream>>
requestVars == <<request, ri, reply>>
connVars    == <<conn, ci, memory_index, sock_c, sender>>
vars        == <<table, net, clientVars, requestVars, connVars>>

Slots == 1 .. MAX_USERS_CONNECTED

\* What one write() of the client puts on the TCP stream.
Items == {"token", "line", "/logout"}

ClientPc  == {"out", "idle", "login", "logout", "gone"}
RequestPc == {"none", "check", "unique", "free", "storeName", "storeToken",
              "find", "clearToken", "clearName", "clearSock"}
ConnPc    == {"none", "recv", "match", "attach", "send", "close", "guard",
              "clearSock", "clearToken", "clearName", "done"}

TableType ==
  /\ username \in [Slots -> Users \cup {None}]
  /\ token \in [Slots -> Clients \cup {None}]
  /\ sock \in [Slots -> Fds \cup {None}]

NetType ==
  /\ alive \in BOOLEAN
  /\ open \in [Fds -> Clients \cup {None}]
  /\ reset \in SUBSET Clients

ClientType ==
  /\ client \in [Clients -> ClientPc]
  /\ user \in [Clients -> Users \cup {None}]
  /\ held \in [Clients -> BOOLEAN]
  /\ answered \in [Clients -> BOOLEAN]
  /\ stream \in [Clients -> Seq(Items)]

RequestType ==
  /\ request \in [Clients -> RequestPc]
  /\ ri \in [Clients -> Slots]
  /\ reply \in [Clients -> {"none", "ok", "refused"}]

ConnType ==
  /\ conn \in [Clients -> ConnPc]
  /\ ci \in [Clients -> Slots]
  /\ memory_index \in [Clients -> Slots \cup {None}]
  /\ sock_c \in [Clients -> Fds \cup {None}]
  /\ sender \in [Clients -> Users \cup {None}]
  /\ \A c \in Clients : conn[c] # "none" => sock_c[c] \in Fds

\* No thread ever indexes shared_memory outside of its MAX_USERS_CONNECTED
\* entries, and every field and local has the values it is meant for.
TypeOK == TableType /\ NetType /\ ClientType /\ RequestType /\ ConnType

Init ==
  /\ username = [i \in Slots |-> None]
  /\ token = [i \in Slots |-> None]
  /\ sock = [i \in Slots |-> None]
  /\ alive = TRUE
  /\ open = [f \in Fds |-> None]
  /\ reset = {}
  /\ client = [c \in Clients |-> "out"]
  /\ user = [c \in Clients |-> None]
  /\ held = [c \in Clients |-> FALSE]
  /\ answered = [c \in Clients |-> TRUE]
  /\ stream = [c \in Clients |-> <<>>]
  /\ request = [c \in Clients |-> "none"]
  /\ ri = [c \in Clients |-> 1]
  /\ reply = [c \in Clients |-> "none"]
  /\ conn = [c \in Clients |-> "none"]
  /\ ci = [c \in Clients |-> 1]
  /\ memory_index = [c \in Clients |-> None]
  /\ sock_c = [c \in Clients |-> None]
  /\ sender = [c \in Clients |-> None]

-----------------------------------------------------------------------------
(* The client: connection, command loop, end.                              *)

\* connect() of the client meets accept() of the communication thread, which
\* starts message_receiver on the new descriptor.
Connect(c, f) ==
  /\ alive /\ client[c] = "out"
  /\ open[f] = None
  /\ ReuseFds \/ \A d \in Clients : sock_c[d] # f
  /\ open' = [open EXCEPT ![f] = c]
  /\ sock_c' = [sock_c EXCEPT ![c] = f]
  /\ conn' = [conn EXCEPT ![c] = "recv"]
  /\ client' = [client EXCEPT ![c] = "idle"]
  /\ UNCHANGED <<table, alive, reset, user, held, answered, stream,
                 requestVars, ci, memory_index, sender>>

\* The user types the next line: at once, or when the server has answered.
AtPrompt(c) == alive /\ client[c] = "idle" /\ (c \in Hasty \/ answered[c])

\* recvfrom() of the request manager takes the datagram and starts a thread.
CanStart == Overlap \/ \A d \in Clients : request[d] = "none"

AskLogin(c, u) ==
  /\ AtPrompt(c)
  /\ ~held[c]
  /\ CanStart
  /\ client' = [client EXCEPT ![c] = "login"]
  /\ user' = [user EXCEPT ![c] = u]
  /\ request' = [request EXCEPT ![c] = "check"]
  /\ UNCHANGED <<table, net, held, answered, stream, ri, reply, connVars>>

AskLogout(c) ==
  /\ AtPrompt(c)
  /\ held[c]
  /\ CanStart
  /\ client' = [client EXCEPT ![c] = "logout"]
  /\ request' = [request EXCEPT ![c] = "find"]
  /\ UNCHANGED <<table, net, user, held, answered, stream, ri, reply, connVars>>

\* login() of the client: the token received is kept and written to TCP.
LoginAnswered(c) ==
  /\ alive /\ client[c] = "login"
  /\ reply[c] # "none"
  /\ client' = [client EXCEPT ![c] = "idle"]
  /\ reply' = [reply EXCEPT ![c] = "none"]
  /\ IF reply[c] = "ok"
       THEN /\ held' = [held EXCEPT ![c] = TRUE]
            /\ stream' = [stream EXCEPT ![c] = Append(@, "token")]
            /\ answered' = [answered EXCEPT ![c] = FALSE]
       ELSE UNCHANGED <<held, stream, answered>>
  /\ UNCHANGED <<table, net, user, request, ri, connVars>>

\* logout() of the client: on success /logout goes to TCP and the loop ends.
LogoutAnswered(c) ==
  /\ alive /\ client[c] = "logout"
  /\ reply[c] # "none"
  /\ reply' = [reply EXCEPT ![c] = "none"]
  /\ IF reply[c] = "ok"
       THEN /\ client' = [client EXCEPT ![c] = "gone"]
            /\ stream' = [stream EXCEPT ![c] = Append(@, "/logout")]
       ELSE /\ client' = [client EXCEPT ![c] = "idle"]
            /\ UNCHANGED stream
  /\ UNCHANGED <<table, net, user, held, answered, request, ri, connVars>>

TypeLine(c) ==
  /\ AtPrompt(c)
  /\ Len(stream[c]) < MaxUnread
  /\ stream' = [stream EXCEPT ![c] = Append(@, "line")]
  /\ answered' = [answered EXCEPT ![c] = FALSE]
  /\ UNCHANGED <<table, net, client, user, held, requestVars, connVars>>

\* The client ends and its connection is closed.
Leave(c) ==
  /\ client' = [client EXCEPT ![c] = "gone"]
  /\ UNCHANGED <<table, net, user, held, answered, stream, requestVars, connVars>>

\* /exit.
Exit(c) == AtPrompt(c) /\ Leave(c)

\* A signal, at any moment.
Killed(c) ==
  /\ alive /\ c \in Killable
  /\ client[c] \in {"idle", "login", "logout"}
  /\ Leave(c)

-----------------------------------------------------------------------------
(* Request threads: login() and logout() of the server.                    *)

Last(i) == i = MAX_USERS_CONNECTED

\* Where the threads stand, as long as the server runs at all.
RequestIn(c, pc) == alive /\ request[c] = pc
ConnIn(c, pc)    == alive /\ conn[c] = pc

\* The thread c of request goes on to pc at entry i.
RequestAt(c, pc, i) ==
  /\ request' = [request EXCEPT ![c] = pc]
  /\ ri' = [ri EXCEPT ![c] = i]
  /\ UNCHANGED reply

\* The thread sends its reply and exits.
RequestEnds(c, answer) ==
  /\ request' = [request EXCEPT ![c] = "none"]
  /\ ri' = [ri EXCEPT ![c] = 1]
  /\ reply' = [reply EXCEPT ![c] = answer]

\* Lengths and password of the request: what the account file holds is any.
Credentials(c) ==
  /\ RequestIn(c, "check")
  /\ RequestAt(c, "unique", 1) \/ RequestEnds(c, "refused")
  /\ UNCHANGED <<table, net, clientVars, connVars>>

\* Faults: the loop runs one entry too far, or skips who is not attached yet.
CheckUniqueTooFar(c) ==
  /\ RequestIn(c, "unique")
  /\ IF username[ri[c]] = user[c] THEN RequestEnds(c, "refused")
     ELSE IF ri[c] > MAX_USERS_CONNECTED THEN RequestAt(c, "free", 1)
     ELSE RequestAt(c, "unique", ri[c] + 1)
  /\ UNCHANGED <<table, net, clientVars, connVars>>

CheckUniqueAttached(c) ==
  /\ RequestIn(c, "unique")
  /\ IF username[ri[c]] = user[c] /\ sock[ri[c]] # None
       THEN RequestEnds(c, "refused")
     ELSE IF Last(ri[c]) THEN RequestAt(c, "free", 1)
     ELSE RequestAt(c, "unique", ri[c] + 1)
  /\ UNCHANGED <<table, net, clientVars, connVars>>

\* First loop of add_user: is the name in the table already?
CheckUnique(c) ==
  /\ RequestIn(c, "unique")
  /\ IF username[ri[c]] = user[c] THEN RequestEnds(c, "refused")
     ELSE IF Last(ri[c]) THEN RequestAt(c, "free", 1)
     ELSE RequestAt(c, "unique", ri[c] + 1)
  /\ UNCHANGED <<table, net, clientVars, connVars>>

\* Fault: an entry is taken for free when it has no token.
FindFreeByToken(c) ==
  /\ RequestIn(c, "free")
  /\ IF token[ri[c]] = None THEN RequestAt(c, "storeName", ri[c])
     ELSE IF Last(ri[c]) THEN RequestEnds(c, "refused")
     ELSE RequestAt(c, "free", ri[c] + 1)
  /\ UNCHANGED <<table, net, clientVars, connVars>>

\* Second loop of add_user: the first entry without a name.
FindFree(c) ==
  /\ RequestIn(c, "free")
  /\ IF username[ri[c]] = None THEN RequestAt(c, "storeName", ri[c])
     ELSE IF Last(ri[c]) THEN RequestEnds(c, "refused")
     ELSE RequestAt(c, "free", ri[c] + 1)
  /\ UNCHANGED <<table, net, clientVars, connVars>>

\* shared_memory[i] = new_user copies the words of username and sock first,
\* the words of the token last.
StoreName(c) ==
  /\ RequestIn(c, "storeName")
  /\ username' = [username EXCEPT ![ri[c]] = user[c]]
  /\ sock' = [sock EXCEPT ![ri[c]] = None]
  /\ RequestAt(c, "storeToken", ri[c])
  /\ UNCHANGED <<token, net, clientVars, connVars>>

\* Fault: no return after the entry was filled in, the loop goes on.
StoreTokenGoOn(c) ==
  /\ RequestIn(c, "storeToken")
  /\ token' = [token EXCEPT ![ri[c]] = c]
  /\ IF Last(ri[c]) THEN RequestEnds(c, "ok") ELSE RequestAt(c, "free", ri[c] + 1)
  /\ UNCHANGED <<username, sock, net, clientVars, connVars>>

StoreToken(c) ==
  /\ RequestIn(c, "storeToken")
  /\ token' = [token EXCEPT ![ri[c]] = c]
  /\ RequestEnds(c, "ok")
  /\ UNCHANGED <<username, sock, net, clientVars, connVars>>

\* Fault: the first entry in use is taken for the one with the token.
FindAny(c) ==
  /\ RequestIn(c, "find")
  /\ IF token[ri[c]] # None THEN RequestAt(c, "clearToken", ri[c])
     ELSE IF Last(ri[c]) THEN RequestEnds(c, "refused")
     ELSE RequestAt(c, "find", ri[c] + 1)
  /\ UNCHANGED <<table, net, clientVars, connVars>>

\* remove_user: the first entry with the token, cleared field by field.
Find(c) ==
  /\ RequestIn(c, "find")
  /\ IF token[ri[c]] = c THEN RequestAt(c, "clearToken", ri[c])
     ELSE IF Last(ri[c]) THEN RequestEnds(c, "refused")
     ELSE RequestAt(c, "find", ri[c] + 1)
  /\ UNCHANGED <<table, net, clientVars, connVars>>

RemoveToken(c) ==
  /\ RequestIn(c, "clearToken")
  /\ token' = [token EXCEPT ![ri[c]] = None]
  /\ RequestAt(c, "clearName", ri[c])
  /\ UNCHANGED <<username, sock, net, clientVars, connVars>>

RemoveName(c) ==
  /\ RequestIn(c, "clearName")
  /\ username' = [username EXCEPT ![ri[c]] = None]
  /\ RequestAt(c, "clearSock", ri[c])
  /\ UNCHANGED <<token, sock, net, clientVars, connVars>>

RemoveSock(c) ==
  /\ RequestIn(c, "clearSock")
  /\ sock' = [sock EXCEPT ![ri[c]] = None]
  /\ RequestEnds(c, "ok")
  /\ UNCHANGED <<username, token, net, clientVars, connVars>>

RequestStep(c) ==
  \/ Credentials(c) \/ CheckUnique(c) \/ FindFree(c)
  \/ StoreName(c) \/ StoreToken(c)
  \/ Find(c) \/ RemoveToken(c) \/ RemoveName(c) \/ RemoveSock(c)

-----------------------------------------------------------------------------
(* message_receiver threads.                                               *)

\* send() on descriptor f. A closed descriptor is an error nobody looks at.
\* The first send to a client that is gone is answered with a reset; on a
\* connection that was reset, send raises SIGPIPE, which nobody handles.
SendTo(f) ==
  IF open[f] # None /\ client[open[f]] = "gone"
    THEN /\ reset' = reset \cup {open[f]}
         /\ alive' = (open[f] \notin reset)
    ELSE UNCHANGED <<reset, alive>>

\* A 5, 6 or 7 message to the thread's own client.
Notify(c) ==
  /\ SendTo(sock_c[c])
  /\ answered' = [answered EXCEPT ![c] = TRUE]

\* recv() returns the first k writes of the client as one text. A token or
\* /logout is recognised only alone.
Recv(c, k) ==
  LET text == IF k = 1 THEN Head(stream[c]) ELSE "line"
  IN  /\ ConnIn(c, "recv")
      /\ k \in 1 .. Len(stream[c])
      /\ stream' = [stream EXCEPT ![c] = SubSeq(@, k + 1, Len(@))]
      /\ CASE memory_index[c] = None /\ text = "token" ->
                /\ conn' = [conn EXCEPT ![c] = "match"]
                /\ UNCHANGED <<alive, reset, answered, sender>>
           [] memory_index[c] = None /\ text # "token" ->
                /\ Notify(c)
                /\ UNCHANGED <<conn, sender>>
           [] memory_index[c] # None /\ text = "/logout" ->
                /\ Notify(c)
                /\ conn' = [conn EXCEPT ![c] = "close"]
                /\ UNCHANGED sender
           [] memory_index[c] # None /\ text # "/logout" ->
                /\ sender' = [sender EXCEPT ![c] = username[memory_index[c]]]
                /\ conn' = [conn EXCEPT ![c] = "send"]
                /\ UNCHANGED <<alive, reset, answered>>
      /\ UNCHANGED <<table, open, client, user, held, requestVars, ci,
                     memory_index, sock_c>>

\* Faults: the end of the connection is taken for no message yet, or the
\* thread returns instead of leaving its loop.
RecvEndMissed(c) == FALSE /\ ConnIn(c, "recv") /\ UNCHANGED vars

RecvEndReturns(c) ==
  /\ ConnIn(c, "recv")
  /\ stream[c] = <<>>
  /\ client[c] = "gone"
  /\ conn' = [conn EXCEPT ![c] = "done"]
  /\ UNCHANGED <<table, net, clientVars, requestVars, ci, memory_index,
                 sock_c, sender>>

\* recv() returns 0 or an error: the client closed the connection.
RecvEnd(c) ==
  /\ ConnIn(c, "recv")
  /\ stream[c] = <<>>
  /\ client[c] = "gone"
  /\ conn' = [conn EXCEPT ![c] = "close"]
  /\ UNCHANGED <<table, net, clientVars, requestVars, ci, memory_index,
                 sock_c, sender>>

\* The scan for the token goes on behind a match; at its end 5 or 7 is sent.
NextEntry(c) ==
  IF Last(ci[c])
    THEN /\ Notify(c)
         /\ conn' = [conn EXCEPT ![c] = "recv"]
         /\ ci' = [ci EXCEPT ![c] = 1]
    ELSE /\ conn' = [conn EXCEPT ![c] = "match"]
         /\ ci' = [ci EXCEPT ![c] = @ + 1]
         /\ UNCHANGED <<alive, reset, answered>>

\* Fault: any token will do.
MatchAny(c) ==
  /\ ConnIn(c, "match")
  /\ IF token[ci[c]] # None
       THEN /\ conn' = [conn EXCEPT ![c] = "attach"]
            /\ UNCHANGED <<ci, alive, reset, answered>>
       ELSE NextEntry(c)
  /\ UNCHANGED <<table, open, client, user, held, stream, requestVars,
                 memory_index, sock_c, sender>>

Match(c) ==
  /\ ConnIn(c, "match")
  /\ IF token[ci[c]] = c
       THEN /\ conn' = [conn EXCEPT ![c] = "attach"]
            /\ UNCHANGED <<ci, alive, reset, answered>>
       ELSE NextEntry(c)
  /\ UNCHANGED <<table, open, client, user, held, stream, requestVars,
                 memory_index, sock_c, sender>>

Attach(c) ==
  /\ ConnIn(c, "attach")
  /\ sock' = [sock EXCEPT ![ci[c]] = sock_c[c]]
  /\ memory_index' = [memory_index EXCEPT ![c] = ci[c]]
  /\ NextEntry(c)
  /\ UNCHANGED <<username, token, open, client, user, held, stream,
                 requestVars, sock_c, sender>>

\* Fault: the sender is left out.
BroadcastToOthers(c) ==
  LET f == sock[ci[c]]
  IN  /\ ConnIn(c, "send")
      /\ IF f = None \/ f = sock_c[c]
           THEN UNCHANGED <<alive, reset>>
           ELSE SendTo(f)
      /\ IF Last(ci[c])
           THEN /\ conn' = [conn EXCEPT ![c] = "recv"]
                /\ ci' = [ci EXCEPT ![c] = 1]
                /\ sender' = [sender EXCEPT ![c] = None]
           ELSE /\ ci' = [ci EXCEPT ![c] = @ + 1]
                /\ UNCHANGED <<conn, sender>>
      /\ UNCHANGED <<table, open, client, user, held, answered, stream,
                     requestVars, memory_index, sock_c>>

\* One round of the loop of broadcastMessage.
Broadcast(c) ==
  LET f == sock[ci[c]]
  IN  /\ ConnIn(c, "send")
      /\ IF f = None
           THEN UNCHANGED <<alive, reset, answered>>
           ELSE /\ SendTo(f)
                /\ answered' = [answered EXCEPT ![c] = @ \/ open[f] = c]
      /\ IF Last(ci[c])
           THEN /\ conn' = [conn EXCEPT ![c] = "recv"]
                /\ ci' = [ci EXCEPT ![c] = 1]
                /\ sender' = [sender EXCEPT ![c] = None]
           ELSE /\ ci' = [ci EXCEPT ![c] = @ + 1]
                /\ UNCHANGED <<conn, sender>>
      /\ UNCHANGED <<table, open, client, user, held, stream, requestVars,
                     memory_index, sock_c>>

ConnAt(c, pc) ==
  /\ conn' = [conn EXCEPT ![c] = pc]
  /\ UNCHANGED <<net, clientVars, requestVars, ci, memory_index, sock_c, sender>>

Close(c) ==
  /\ ConnIn(c, "close")
  /\ open' = [open EXCEPT ![sock_c[c]] = None]
  /\ conn' = [conn EXCEPT ![c] = "guard"]
  /\ UNCHANGED <<table, alive, reset, clientVars, requestVars, ci,
                 memory_index, sock_c, sender>>

\* Fault: the entry is cleared whoever has it now.
CheckSockNot(c) ==
  /\ ConnIn(c, "guard")
  /\ ConnAt(c, IF memory_index[c] # None THEN "clearSock" ELSE "done")
  /\ UNCHANGED table

\* Is the entry still this connection's, as far as the descriptor tells?
CheckSock(c) ==
  /\ ConnIn(c, "guard")
  /\ ConnAt(c, IF /\ memory_index[c] # None
                  /\ sock[memory_index[c]] = sock_c[c]
               THEN "clearSock" ELSE "done")
  /\ UNCHANGED table

\* Fault: the descriptor stays in the entry.
ClearSockForgotten(c) ==
  /\ ConnIn(c, "clearSock")
  /\ ConnAt(c, "clearToken")
  /\ UNCHANGED table

ClearSock(c) ==
  /\ ConnIn(c, "clearSock")
  /\ sock' = [sock EXCEPT ![memory_index[c]] = None]
  /\ ConnAt(c, "clearToken")
  /\ UNCHANGED <<username, token>>

\* Fault: the name stays in the entry.
ClearTokenOnly(c) ==
  /\ ConnIn(c, "clearToken")
  /\ token' = [token EXCEPT ![memory_index[c]] = None]
  /\ ConnAt(c, "done")
  /\ UNCHANGED <<username, sock>>

ClearToken(c) ==
  /\ ConnIn(c, "clearToken")
  /\ token' = [token EXCEPT ![memory_index[c]] = None]
  /\ ConnAt(c, "clearName")
  /\ UNCHANGED <<username, sock>>

ClearName(c) ==
  /\ ConnIn(c, "clearName")
  /\ username' = [username EXCEPT ![memory_index[c]] = None]
  /\ ConnAt(c, "done")
  /\ UNCHANGED <<token, sock>>

ConnStep(c) ==
  \/ \E k \in 1 .. Len(stream[c]) : Recv(c, k)
  \/ RecvEnd(c) \/ Match(c) \/ Attach(c) \/ Broadcast(c)
  \/ Close(c) \/ CheckSock(c) \/ ClearSock(c) \/ ClearToken(c) \/ ClearName(c)

-----------------------------------------------------------------------------
ClientStep(c) ==
  \/ \E f \in Fds : Connect(c, f)
  \/ \E u \in Users : AskLogin(c, u)
  \/ AskLogout(c) \/ LoginAnswered(c) \/ LogoutAnswered(c)
  \/ TypeLine(c) \/ Exit(c) \/ Killed(c)

\* Every action needs alive: the clients of a server that was killed are not
\* followed any further.
Next == \E c \in Clients : ClientStep(c) \/ RequestStep(c) \/ ConnStep(c)

Spec == Init /\ [][Next]_vars

\* Threads that can run do run, and a client takes the reply it waits for.
\* Nothing forces a user to type.
FairSpec ==
  /\ Spec
  /\ \A c \in Clients :
       /\ WF_vars(RequestStep(c))
       /\ WF_vars(ConnStep(c))
       /\ WF_vars(LoginAnswered(c) \/ LogoutAnswered(c))

-----------------------------------------------------------------------------
(* What holds for every client, every interleaving and every descriptor.   *)

\* The thread c of message_receiver will still clear entry i.
WillClear(c, i) ==
  /\ memory_index[c] = i
  /\ conn[c] \in {"match", "recv", "send", "close", "guard", "clearSock"}

\* A descriptor in the table always belongs to a message_receiver thread that
\* has yet to clear it (main.c:96, 122-123): broadcasts never go on for ever
\* to a descriptor no thread will take out of the table.
NoOrphanSocket ==
  \A i \in Slots : sock[i] # None =>
    \E c \in Clients : WillClear(c, i) /\ sock_c[c] = sock[i]

\* The request thread c is between the two halves of its work on entry i.
HalfWay(c, i) == ri[c] = i /\ request[c] \in {"storeToken", "clearName"}

\* An entry with a name and no token, which nobody can attach to or log out,
\* has a thread at work on it (user_management.c:34, 46-47, main.c:124-125):
\* it never stays in the table and blocks the name for good.
HalfOpenHasWorker ==
  \A i \in Slots : username[i] # None /\ token[i] = None =>
    \E c \in Clients :
      HalfWay(c, i) \/ (conn[c] = "clearName" /\ memory_index[c] = i)

\* A token is in at most one entry, so that the scan of message_receiver,
\* which does not stop at a match (main.c:93-99), attaches one entry only and
\* remove_user (user_management.c:43-49) takes the right one.
TokenInOneSlot ==
  \A i, j \in Slots : token[i] # None /\ token[i] = token[j] => i = j

-----------------------------------------------------------------------------
(* What holds when request threads do not overlap.                         *)

\* An account is in the table once (user_management.h:42: "Username already
\* taken"; the check is user_management.c:23-28).
UniqueUsers ==
  \A i, j \in Slots : username[i] # None /\ username[i] = username[j] => i = j

\* A log in never takes an entry away from the user who has it
\* (user_management.c:31-34).
NeverOverwritten ==
  [][\A i \in Slots :
       username[i] # None => username'[i] \in {username[i], None}]_vars

-----------------------------------------------------------------------------
(* What holds when, besides, clients wait for answers and end at the prompt*)
(* and descriptors are not reused.                                         *)

\* A line is broadcast under the name of the user who typed it
\* (main.c:44, 48: the username of sender_memory_index).
Attribution == \A c \in Clients : conn[c] = "send" => sender[c] = user[c]

\* The entry of a client that logged in stays its own until the client asks
\* to log out or leaves; once answered, it is the attached one.
Seated(c) ==
  \E i \in Slots :
    /\ token[i] = c /\ username[i] = user[c]
    /\ answered[c] => memory_index[c] = i /\ sock[i] = sock_c[c]

LoginKept == \A c \in Clients : client[c] = "idle" /\ held[c] => Seated(c)

Quiet(c) ==
  client[c] \in {"out", "gone"} /\ request[c] = "none" /\ conn[c] \in {"none", "done"}

\* When every client has left and every thread is done the table is empty:
\* whatever way a client took, its entry was given back.
ReleasedWhenQuiet ==
  (\A c \in Clients : Quiet(c)) =>
    \A i \in Slots : username[i] = None /\ token[i] = None /\ sock[i] = None

\* The table implements Sessions: the entries with a token are the sessions.
Promise == INSTANCE Sessions WITH
  Capacity <- MAX_USERS_CONNECTED,
  sessions <- {[client |-> token[i], user |-> username[i]] :
                 i \in {j \in Slots : token[j] # None}},
  leaving  <- {c \in Clients : client[c] \in {"logout", "gone"}},
  up       <- alive

\* Safety and liveness of that promise.
KeepsSessions == Promise!Spec
EndsSessions  == Promise!FairSpec

\* Every line and every token a client sends is answered, by an echo of the
\* broadcast or a 5 or 7 message (main.c:100-106, 116), unless the client
\* leaves or the server dies.
AlwaysAnswered ==
  \A c \in Clients :
    ~answered[c] ~> (answered[c] \/ client[c] = "gone" \/ ~alive)

\* The end of a connection is an end of that connection only (main.c:87-88:
\* "sometimes 0 when the pipe breaks", and the thread closes it).
ServerSurvives == alive

=============================================================================
