--------------------------- MODULE RequestManager ---------------------------
(***************************************************************************)
(* The UDP side of the server: request_manager fills in one block,         *)
(* arguments, for every datagram and starts a thread on it; the thread     *)
(* reads its request from that block, writes its answer into it and sends  *)
(* the answer to the address that is in it by then.                        *)
(*                                                                         *)
(* A command is named <<c, n>>: the n-th command of client c. The client   *)
(* opens a new socket for each, so the name is also the address its answer *)
(* goes to, and the name of the thread started for its datagram and of the *)
(* token that thread hands out. The table of connected users and the       *)
(* account file are read and written in one step here: ConnectedUsers has  *)
(* the steps of the former.                                                *)
(***************************************************************************)
EXTENDS Naturals, FiniteSets

CONSTANTS
  Clients,              \* client processes
  Users,                \* names of accounts, with their right password
  Registered,           \* those in users.txt when the server starts
  None,                 \* the empty string, no command, no answer
  MAX_USERS_CONNECTED,  \* entries of shared_memory
  MaxCommands,          \* bound: commands each client sends
  MaxLost,              \* bound: commands with a datagram that is lost
  Overlap               \* may a datagram be taken while a thread runs?

ASSUME ModeAssumption    == Overlap \in BOOLEAN
ASSUME BoundAssumption   == MaxCommands \in [Clients -> Nat] /\ MaxLost \in Nat
ASSUME AccountAssumption == Registered \subseteq Users

VARIABLES
  count, waiting, held,   \* commands sent, answer awaited, token of a client
  alive,                  \* the server process runs
  inbox, replies,         \* datagrams on their way
  manager, taken,         \* request_manager and the datagram it has received
  adr, type, data,        \* arguments.adr_client, .request.type, .request.data
  pc, func, arg, out,     \* threads: function, local copy of data, answer
  accounts, sessions,     \* users.txt; entries of shared_memory
  asked, did, got, lost   \* history: what was asked, done, answered, lost

clientVars == <<count, waiting, held>>
netVars    == <<inbox, replies, lost>>
block      == <<adr, type, data>>
threadVars == <<pc, func, arg, out>>
store      == <<accounts, sessions>>
history    == <<asked, did, got>>
vars == <<clientVars, alive, netVars, manager, taken, block, threadVars, store,
          history>>

Commands == UNION {{c} \X (1 .. MaxCommands[c]) : c \in Clients}

\* Contents of the data field: an account, a token, the empty string, another
\* text.
Data == [is : {"user"}, val : Users] \cup [is : {"token"}, val : Commands]
          \cup [is : {"empty", "text"}, val : {None}]
User(u)  == [is |-> "user", val |-> u]
Token(t) == [is |-> "token", val |-> t]
Empty    == [is |-> "empty", val |-> None]
Text     == [is |-> "text", val |-> None]

Funcs == {"login", "logout", "create", "delete", "list"}

Request == [func : Funcs, data : Data]
Answer  == [type : {0, 1}, data : Data]    \* 0 went right, 1 stands for -1
No      == [type |-> 1, data |-> Text]
Yes     == [type |-> 0, data |-> Text]

Pcs == {"none", "start", "badType", "badData", "badSend", "copy", "act",
        "type", "data", "send", "done"}

ASSUME NoneAssumption == None \notin Users \cup Commands \cup Request \cup Answer

ClientType ==
  /\ count \in [Clients -> Nat] /\ \A c \in Clients : count[c] <= MaxCommands[c]
  /\ waiting \in [Clients -> BOOLEAN]
  /\ held \in [Clients -> Data]
  /\ asked \in [Commands -> Request \cup {None}]
  /\ got \in [Commands -> Answer \cup {None}]

NetType ==
  /\ alive \in BOOLEAN
  /\ inbox \in SUBSET Commands /\ lost \in SUBSET Commands
  /\ replies \in SUBSET [to : Commands, answer : Answer]

BlockType ==
  /\ manager \in {"recvfrom", "adr", "request", "create"}
  /\ taken \in Commands \cup {None}
  /\ adr \in Commands \cup {None} /\ type \in {0, 1} /\ data \in Data

ThreadType ==
  /\ pc \in [Commands -> Pcs]
  /\ func \in [Commands -> Funcs \cup {None}]
  /\ arg \in [Commands -> Data]
  /\ out \in [Commands -> Answer \cup {None}]
  /\ did \in [Commands -> Request \cup {None}]

StoreType ==
  /\ accounts \in SUBSET Users
  /\ sessions \in SUBSET [user : Users, token : Commands]

TypeOK == ClientType /\ NetType /\ BlockType /\ ThreadType /\ StoreType

Init ==
  /\ count = [c \in Clients |-> 0]
  /\ waiting = [c \in Clients |-> FALSE]
  /\ held = [c \in Clients |-> Empty]
  /\ alive = TRUE
  /\ inbox = {} /\ replies = {} /\ lost = {}
  /\ manager = "recvfrom" /\ taken = None
  /\ adr = None /\ type = 0 /\ data = Empty
  /\ pc = [t \in Commands |-> "none"]
  /\ func = [t \in Commands |-> None]
  /\ arg = [t \in Commands |-> Empty]
  /\ out = [t \in Commands |-> None]
  /\ accounts = Registered
  /\ sessions = {}
  /\ asked = [t \in Commands |-> None]
  /\ did = [t \in Commands |-> None]
  /\ got = [t \in Commands |-> None]

-----------------------------------------------------------------------------
(* Clients: one command at a time, each waits for its answer.              *)

Current(c) == <<c, count[c]>>

\* A client ends after a log out that went right.
Ended(c) ==
  \E t \in Commands :
    /\ t[1] = c /\ asked[t] # None /\ asked[t].func = "logout"
    /\ got[t] # None /\ got[t].type = 0

\* An account, or a text that is none (no separator, a wrong password).
Typed == {User(u) : u \in Users} \cup {Text}

\* commande_detection: what may be asked, and with which data.
MayAsk(c, func_, data_) ==
  \/ func_ \in {"login", "delete"} /\ held[c] = Empty /\ data_ \in Typed
  \/ func_ = "create" /\ data_ \in Typed
  \/ func_ = "logout" /\ data_ = held[c]
  \/ func_ = "list" /\ data_ = Empty

Ask(c, func_, data_) ==
  LET t == <<c, count[c] + 1>>
  IN  /\ alive /\ ~waiting[c] /\ ~Ended(c)
      /\ count[c] < MaxCommands[c]
      /\ MayAsk(c, func_, data_)
      /\ count' = [count EXCEPT ![c] = @ + 1]
      /\ waiting' = [waiting EXCEPT ![c] = TRUE]
      /\ asked' = [asked EXCEPT ![t] = [func |-> func_, data |-> data_]]
      /\ inbox' = inbox \cup {t}
      /\ UNCHANGED <<held, alive, replies, lost, manager, taken, block,
                     threadVars, store, did, got>>

\* recvfrom() of the client, and what it does with the answer. Other answers
\* to the same socket are never read.
Read(c) ==
  LET t == Current(c)
  IN  /\ alive /\ waiting[c]
      /\ \E r \in replies :
           /\ r.to = t
           /\ got' = [got EXCEPT ![t] = r.answer]
           /\ held' = IF asked[t].func = "login" /\ r.answer.type = 0
                        THEN [held EXCEPT ![c] = r.answer.data] ELSE held
      /\ waiting' = [waiting EXCEPT ![c] = FALSE]
      /\ UNCHANGED <<count, alive, netVars, manager, taken, block, threadVars,
                     store, asked, did>>

\* A datagram is lost in a full socket buffer.
Lose(t) ==
  /\ alive /\ Cardinality(lost) < MaxLost
  /\ \/ t \in inbox /\ inbox' = inbox \ {t} /\ UNCHANGED replies
     \/ \E r \in replies :
          /\ r.to = t /\ waiting[t[1]] /\ Current(t[1]) = t
          /\ replies' = replies \ {r} /\ UNCHANGED inbox
  /\ lost' = lost \cup {t}
  /\ UNCHANGED <<clientVars, alive, manager, taken, block, threadVars, store,
                 history>>

-----------------------------------------------------------------------------
(* request_manager.                                                        *)

Running(t) == pc[t] \notin {"none", "done"}

ManagerAt(next) ==
  /\ manager' = next
  /\ UNCHANGED <<clientVars, alive, replies, lost, store, history>>

Recvfrom(t) ==
  /\ alive /\ manager = "recvfrom" /\ t \in inbox
  /\ Overlap \/ \A s \in Commands : ~Running(s)
  /\ inbox' = inbox \ {t}
  /\ taken' = t
  /\ ManagerAt("adr")
  /\ UNCHANGED <<block, threadVars>>

\* Fault: the address is set for the first datagram only.
SetAdrOnce ==
  /\ alive /\ manager = "adr"
  /\ adr' = IF adr = None THEN taken ELSE adr
  /\ ManagerAt("request")
  /\ UNCHANGED <<inbox, taken, type, data, threadVars>>

SetAdr ==
  /\ alive /\ manager = "adr"
  /\ adr' = taken
  /\ ManagerAt("request")
  /\ UNCHANGED <<inbox, taken, type, data, threadVars>>

\* Fault: an empty text is not copied over the text before.
SetRequestUnlessEmpty ==
  /\ alive /\ manager = "request"
  /\ type' = IF asked[taken].func = "list" THEN 0 ELSE 1
  /\ data' = IF asked[taken].data = Empty THEN data ELSE asked[taken].data
  /\ ManagerAt("create")
  /\ UNCHANGED <<inbox, taken, adr, threadVars>>

\* The type of a request for the list, 0, is the type of an answer that went
\* right.
SetRequest ==
  /\ alive /\ manager = "request"
  /\ type' = IF asked[taken].func = "list" THEN 0 ELSE 1
  /\ data' = asked[taken].data
  /\ ManagerAt("create")
  /\ UNCHANGED <<inbox, taken, adr, threadVars>>

Create ==
  /\ alive /\ manager = "create"
  /\ pc' = [pc EXCEPT ![taken] = "start"]
  /\ func' = [func EXCEPT ![taken] = asked[taken].func]
  /\ taken' = None
  /\ ManagerAt("recvfrom")
  /\ UNCHANGED <<inbox, block, arg, out>>

ManagerStep == (\E t \in Commands : Recvfrom(t)) \/ SetAdr \/ SetRequest \/ Create

-----------------------------------------------------------------------------
(* Request threads.                                                        *)

At(t, label) == alive /\ pc[t] = label
Goto(t, label) ==
  /\ pc' = [pc EXCEPT ![t] = label]
  /\ UNCHANGED <<clientVars, inbox, lost, manager, taken, func, asked, got>>

\* login, account_creation and account_deletion copy the data first;
\* connected_users does not need them.
Start(t) ==
  /\ At(t, "start") /\ func[t] # "logout"
  /\ arg' = IF func[t] = "list" THEN arg ELSE [arg EXCEPT ![t] = data]
  /\ Goto(t, "act")
  /\ UNCHANGED <<alive, replies, block, out, store, did>>

\* logout looks at the length of the data first. A token has it, the empty
\* string has not, of other texts some have ("Account created").
StartLogout(t) ==
  /\ At(t, "start") /\ func[t] = "logout"
  /\ \/ data # Empty /\ Goto(t, "copy")
     \/ data.is # "token" /\ Goto(t, "badType")
  /\ UNCHANGED <<alive, replies, block, arg, out, store, did>>

\* It answers that the format is wrong, and goes on.
BadType(t) ==
  /\ At(t, "badType")
  /\ type' = 1
  /\ Goto(t, "badData")
  /\ UNCHANGED <<alive, replies, adr, data, arg, out, store, did>>

\* Fault: the thread ends before it sends that answer.
BadDataEnds(t) ==
  /\ At(t, "badData")
  /\ data' = Text
  /\ Goto(t, "done")
  /\ UNCHANGED <<alive, replies, adr, type, arg, out, store, did>>

BadData(t) ==
  /\ At(t, "badData")
  /\ data' = Text
  /\ Goto(t, "badSend")
  /\ UNCHANGED <<alive, replies, adr, type, arg, out, store, did>>

Sent == replies \cup {[to |-> adr, answer |-> [type |-> type, data |-> data]]}

BadSend(t) ==
  /\ At(t, "badSend")
  /\ replies' = Sent
  /\ Goto(t, "copy")
  /\ UNCHANGED <<alive, block, arg, out, store, did>>

\* strcpy(token, data) into TOKEN_SIZE bytes: a longer text runs over the end,
\* which the server survives or not.
Copy(t) ==
  /\ At(t, "copy")
  /\ arg' = [arg EXCEPT ![t] = data]
  /\ alive' \in IF data.is \in {"user", "text"} THEN BOOLEAN ELSE {TRUE}
  /\ Goto(t, "act")
  /\ UNCHANGED <<replies, block, out, store, did>>

NameOf(t) == arg[t].val
HasName(t) == arg[t].is = "user"

Login(t) ==
  /\ func[t] = "login"
  /\ IF /\ HasName(t) /\ NameOf(t) \in accounts
        /\ \A s \in sessions : s.user # NameOf(t)
        /\ Cardinality(sessions) < MAX_USERS_CONNECTED
       THEN /\ sessions' = sessions \cup {[user |-> NameOf(t), token |-> t]}
            /\ out' = [out EXCEPT ![t] = [type |-> 0, data |-> Token(t)]]
       ELSE out' = [out EXCEPT ![t] = No] /\ UNCHANGED sessions
  /\ UNCHANGED accounts

\* remove_user: the entry with the token. The empty string is the token of
\* every free entry.
Logout(t) ==
  LET mine == {s \in sessions : arg[t] = Token(s.token)}
  IN  /\ func[t] = "logout"
      /\ sessions' = sessions \ mine
      /\ out' = [out EXCEPT ![t] =
           IF \/ mine # {}
              \/ arg[t] = Empty /\ Cardinality(sessions) < MAX_USERS_CONNECTED
           THEN Yes ELSE No]
      /\ UNCHANGED accounts

\* Fault: what was typed is not parsed.
AccountCreationUnparsed(t) ==
  /\ func[t] = "create"
  /\ IF NameOf(t) \notin accounts
       THEN /\ accounts' = accounts \cup {NameOf(t)}
            /\ out' = [out EXCEPT ![t] = Yes]
       ELSE out' = [out EXCEPT ![t] = No] /\ UNCHANGED accounts
  /\ UNCHANGED sessions

AccountCreation(t) ==
  /\ func[t] = "create"
  /\ IF HasName(t) /\ NameOf(t) \notin accounts
       THEN /\ accounts' = accounts \cup {NameOf(t)}
            /\ out' = [out EXCEPT ![t] = Yes]
       ELSE out' = [out EXCEPT ![t] = No] /\ UNCHANGED accounts
  /\ UNCHANGED sessions

\* Fault: the user is logged out as well.
AccountDeletionLogsOut(t) ==
  /\ func[t] = "delete"
  /\ IF HasName(t) /\ NameOf(t) \in accounts
       THEN /\ accounts' = accounts \ {NameOf(t)}
            /\ sessions' = {s \in sessions : s.user # NameOf(t)}
            /\ out' = [out EXCEPT ![t] = Yes]
       ELSE out' = [out EXCEPT ![t] = No] /\ UNCHANGED store

AccountDeletion(t) ==
  /\ func[t] = "delete"
  /\ IF HasName(t) /\ NameOf(t) \in accounts
       THEN /\ accounts' = accounts \ {NameOf(t)}
            /\ out' = [out EXCEPT ![t] = Yes]
       ELSE out' = [out EXCEPT ![t] = No] /\ UNCHANGED accounts
  /\ UNCHANGED sessions

ConnectedUsersList(t) ==
  /\ func[t] = "list"
  /\ out' = [out EXCEPT ![t] =
       [type |-> 0, data |-> IF sessions = {} THEN Empty ELSE Text]]
  /\ UNCHANGED store

Act(t) ==
  /\ At(t, "act")
  /\ \/ Login(t) \/ Logout(t) \/ AccountCreation(t) \/ AccountDeletion(t)
     \/ ConnectedUsersList(t)
  /\ did' = [did EXCEPT ![t] = [func |-> func[t], data |-> arg[t]]]
  /\ Goto(t, "type")
  /\ UNCHANGED <<alive, replies, block, arg>>

\* Fault: the type of the answer is set when something went wrong only.
WriteTypeIfWrong(t) ==
  /\ At(t, "type")
  /\ type' = IF out[t].type = 1 THEN 1 ELSE type
  /\ Goto(t, "data")
  /\ UNCHANGED <<alive, replies, adr, data, arg, out, store, did>>

\* The answer is written into the block and sent from there.
WriteType(t) ==
  /\ At(t, "type")
  /\ type' = out[t].type
  /\ Goto(t, "data")
  /\ UNCHANGED <<alive, replies, adr, data, arg, out, store, did>>

WriteData(t) ==
  /\ At(t, "data")
  /\ data' = out[t].data
  /\ Goto(t, "send")
  /\ UNCHANGED <<alive, replies, adr, type, arg, out, store, did>>

Sendto(t) ==
  /\ At(t, "send")
  /\ replies' = Sent
  /\ Goto(t, "done")
  /\ UNCHANGED <<alive, block, arg, out, store, did>>

ThreadStep(t) ==
  \/ Start(t) \/ StartLogout(t) \/ BadType(t) \/ BadData(t) \/ BadSend(t)
  \/ Copy(t) \/ Act(t) \/ WriteType(t) \/ WriteData(t) \/ Sendto(t)

-----------------------------------------------------------------------------
ClientStep(c) ==
  Read(c) \/ \E f \in Funcs, d \in Data : Ask(c, f, d)

Next ==
  \/ \E c \in Clients : ClientStep(c)
  \/ \E t \in Commands : Lose(t) \/ ThreadStep(t)
  \/ ManagerStep

Spec == Init /\ [][Next]_vars

\* The manager and the threads run, and a client reads the answer it waits for.
FairSpec ==
  /\ Spec
  /\ WF_vars(ManagerStep)
  /\ \A t \in Commands : WF_vars(ThreadStep(t))
  /\ \A c \in Clients : WF_vars(Read(c))

-----------------------------------------------------------------------------
\* A log out of a client without a token.
Malformed(t) == asked[t] = [func |-> "logout", data |-> Empty]

\* A command is carried out as it was asked: with its own function and its own
\* data (request_management.h:25 "all infomations that a thread needs to
\* respond to a request"; main.c:220-221, 248). A log out without a token is
\* carried out on the text that answered it.
ServedAsAsked ==
  \A t \in Commands : did[t] # None =>
    IF Malformed(t) THEN did[t] = [func |-> "logout", data |-> Text]
                    ELSE did[t] = asked[t]

\* The answer a client reads is the outcome of its own command.
AnsweredAsServed ==
  \A t \in Commands : got[t] # None =>
    got[t] = IF Malformed(t) THEN No ELSE out[t]

\* A client that was given a token is logged in under the account it named:
\* nobody else's command made or removed that session.
SessionIsMine ==
  \A c \in Clients : held[c] # Empty =>
    /\ held[c].is = "token" /\ held[c].val[1] = c
    /\ \/ \E s \in sessions :
            Token(s.token) = held[c] /\ User(s.user) = asked[s.token].data
       \/ asked[Current(c)].func = "logout"

\* A session is removed only by the log out its own client waits for
\* (user_management.c:43-50), in particular never by a malformed one.
OnlyOwnLogout ==
  [][\A s \in sessions \ sessions' : \E c \in Clients :
       /\ waiting[c] /\ held[c] = Token(s.token)
       /\ asked[Current(c)].func = "logout"]_vars

\* A command is answered, unless one of its datagrams was lost or the server
\* died (commands.c:35: the client waits for ever).
AnsweredOrLost ==
  \A t \in Commands :
    asked[t] # None ~> (got[t] # None \/ t \in lost \/ ~alive)

=============================================================================
