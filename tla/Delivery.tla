------------------------------ MODULE Delivery ------------------------------
(***************************************************************************)
(* The way of a line from broadcastMessage to the boards: the sends of     *)
(* every message_receiver, each in the order of the table and all of them  *)
(* at once, without a lock; the client's receiver, its System V queue, the *)
(* threads of its board; and the ends of a client: /logout, /exit, its     *)
(* signal handler, its death; and of a board: STOP, the removal of the     *)
(* queue, its user.                                                        *)
(*                                                                         *)
(* Every client is logged in from the start, with the message that says so *)
(* on its way. A line is its writer and its number among the writer's.     *)
(***************************************************************************)
EXTENDS Naturals, SequencesExt

CONSTANTS
  Clients,     \* clients, each with its queue and its board
  Order,       \* the clients in the order of the table
  Restless,    \* those that may leave, be signalled or killed
  MaxLines,    \* bound: lines of each client
  StreamMax,   \* messages a connection holds before send blocks
  QueueMax     \* messages a queue holds before msgsnd blocks

ASSUME OrderAssumption ==
  Order \in Seq(Clients) /\ IsInjective(Order) /\ Restless \subseteq Clients
ASSUME BoundAssumption ==
  MaxLines \in [Clients -> Nat] /\ StreamMax \in Nat \ {0} /\ QueueMax \in Nat \ {0}

VARIABLES
  line, next,        \* per message_receiver: the line it broadcasts, its index
  member, farewell,  \* is the client in the table? /\ owed the message 6?
  stream,            \* messages in the connection
  receiver, item,    \* receive_msg and the message it passes on
  main, closed,      \* main with TCP_connexion; is tcp_socket closed?
  handler,           \* the signal handler, on top of main
  queue, removed,    \* the queue and whether it has been removed
  board, shown,      \* the board process, the lines on it, by writer
  abandoned          \* history: boards closed by their user

serverVars == <<line, next, member, farewell>>
clientVars == <<receiver, item, main, closed, handler>>
queueVars  == <<queue, removed>>
boardVars  == <<board, shown, abandoned>>
vars == <<serverVars, stream, clientVars, queueVars, boardVars>>

\* tcpData, with a line's number for its text.
Line(w, n) == [type |-> 1, username |-> w, val |-> n]
Connected == [type |-> 5, val |-> 0]
Bye       == [type |-> 6, val |-> 0]     \* with the text /logout
Lines     == UNION {{Line(w, n) : n \in 1 .. MaxLines[w]} : w \in Clients}
Message   == Lines \cup {Connected, Bye}

\* messageSignal and stopSignal.
Signal(s) == [type |-> 3, val |-> s]
Entry     == Lines \cup {Signal(0), Signal(1)}

ServerType ==
  /\ line \in [Clients -> Nat] /\ \A w \in Clients : line[w] <= MaxLines[w]
  /\ next \in [Clients -> 1 .. Len(Order) + 1]
  /\ member \in [Clients -> BOOLEAN] /\ farewell \in [Clients -> BOOLEAN]

StreamType ==
  /\ stream \in [Clients -> Seq(Message)]
  /\ \A c \in Clients : Len(stream[c]) <= StreamMax

ClientType ==
  /\ receiver \in [Clients -> {"recv", "put", "done"}]
  /\ item \in [Clients -> Message]
  /\ main \in [Clients -> {"typing", "stop", "remove", "ended", "killed"}]
  /\ closed \in [Clients -> BOOLEAN] /\ removed \in [Clients -> BOOLEAN]
  /\ handler \in [Clients -> {"idle", "stop", "remove"}]

QueueType ==
  /\ queue \in [Clients -> Seq(Entry)]
  /\ \A c \in Clients : Len(queue[c]) <= QueueMax

BoardType ==
  /\ board \in [Clients -> {"open", "closing", "closed"}]
  /\ shown \in [Clients -> [Clients -> Seq(Nat)]] /\ abandoned \subseteq Clients

TypeOK == ServerType /\ StreamType /\ ClientType /\ QueueType /\ BoardType

Init ==
  /\ line = [w \in Clients |-> 0] /\ next = [w \in Clients |-> Len(Order) + 1]
  /\ member = [c \in Clients |-> TRUE] /\ farewell = [c \in Clients |-> FALSE]
  /\ stream = [c \in Clients |-> <<Connected>>]
  /\ receiver = [c \in Clients |-> "recv"] /\ item = [c \in Clients |-> Connected]
  /\ main = [c \in Clients |-> "typing"] /\ closed = [c \in Clients |-> FALSE]
  /\ handler = [c \in Clients |-> "idle"]
  /\ queue = [c \in Clients |-> <<>>] /\ removed = [c \in Clients |-> FALSE]
  /\ board = [c \in Clients |-> "open"] 
  /\ shown = [c \in Clients |-> [w \in Clients |-> <<>>]]
  /\ abandoned = {}

Alive(c) == main[c] \notin {"ended", "killed"}

\* The connection goes with the last use of the socket: closed while the
\* receiver waits in recv, it lasts until that returns.
Released(c) == closed[c] /\ receiver[c] # "recv"

-----------------------------------------------------------------------------
(* The server.                                                             *)

Sending(w) == next[w] <= Len(Order)

\* message_receiver of w has read a line, perhaps one that w left behind.
Broadcast(w) ==
  /\ member[w] /\ ~Sending(w) /\ line[w] < MaxLines[w]
  /\ line' = [line EXCEPT ![w] = @ + 1] /\ next' = [next EXCEPT ![w] = 1]
  /\ UNCHANGED <<member, farewell, stream, clientVars, queueVars, boardVars>>

CanSend(c) == ~Released(c) /\ Len(stream[c]) < StreamMax
SendTo(c, m) == stream' = [stream EXCEPT ![c] = Append(@, m)]

\* send blocks while the connection is full; what is sent to a client that is
\* gone is lost.
Send(w) ==
  /\ Sending(w)
  /\ LET c == Order[next[w]]
     IN  \/ member[c] /\ CanSend(c) /\ SendTo(c, Line(w, line[w]))
         \/ (~member[c] \/ Released(c)) /\ UNCHANGED stream
  /\ next' = [next EXCEPT ![w] = @ + 1]
  /\ UNCHANGED <<line, member, farewell, clientVars, queueVars, boardVars>>

\* message_receiver ends: with the message 6 after /logout, or at the end of
\* the connection.
Forget(c) ==
  /\ member[c] /\ ~Sending(c)
  /\ \/ farewell[c] /\ CanSend(c) /\ SendTo(c, Bye)
     \/ Released(c) /\ UNCHANGED stream
  /\ member' = [member EXCEPT ![c] = FALSE]
  /\ UNCHANGED <<line, next, farewell, clientVars, queueVars, boardVars>>

-----------------------------------------------------------------------------
(* The queue: msgsnd waits for room and fails on a removed queue.          *)

Msgsnd(c, e) ==
  \/ removed[c] /\ UNCHANGED queue
  \/ /\ ~removed[c] /\ Len(queue[c]) < QueueMax
     /\ queue' = [queue EXCEPT ![c] = Append(@, e)]

\* msgrcv takes the first entry of a type.
First(c, type, i) ==
  /\ ~removed[c] /\ queue[c][i].type = type
  /\ \A j \in 1 .. i - 1 : queue[c][j].type # type
Take(c, i) == queue' = [queue EXCEPT ![c] = RemoveAt(@, i)]

-----------------------------------------------------------------------------
(* receive_msg.                                                            *)

\* What is unread in a socket goes with it.
Discard(c) == stream' = [stream EXCEPT ![c] = <<>>]

\* Fault: /logout is not looked for.
RecvAll(c) ==
  /\ receiver[c] = "recv" /\ stream[c] # <<>>
  /\ item' = [item EXCEPT ![c] = Head(stream[c])]
  /\ stream' = [stream EXCEPT ![c] = Tail(@)]
  /\ receiver' = [receiver EXCEPT ![c] = "put"]
  /\ UNCHANGED <<serverVars, main, closed, handler, queueVars, boardVars>>

\* The text /logout ends the loop before the type is looked at.
Recv(c) ==
  /\ receiver[c] = "recv" /\ stream[c] # <<>>
  /\ item' = [item EXCEPT ![c] = Head(stream[c])]
  /\ stream' = [stream EXCEPT ![c] = Tail(@)]
  /\ receiver' = [receiver EXCEPT ![c] = IF item'[c] = Bye THEN "done" ELSE "put"]
  /\ UNCHANGED <<serverVars, main, closed, handler, queueVars, boardVars>>

\* Fault: the signals are numbered from 0.
PassedFromZero(m) == CASE m.type = 1 -> m
                       [] m.type = 5 -> Signal(0)
                       [] m.type = 6 -> Signal(1)

\* The switch: what a message becomes in the queue.
Passed(m) == CASE m.type = 1 -> m
               [] m.type = 5 -> Signal(1)
               [] m.type = 6 -> Signal(2)

\* Fault: IPC_NOWAIT.
PutNoWait(c) ==
  /\ receiver[c] = "put"
  /\ \/ Msgsnd(c, Passed(item[c]))
     \/ Len(queue[c]) = QueueMax /\ UNCHANGED queue
  /\ receiver' = [receiver EXCEPT ![c] = IF closed[c] THEN "done" ELSE "recv"]
  /\ IF closed[c] THEN Discard(c) ELSE UNCHANGED stream
  /\ UNCHANGED <<serverVars, item, main, closed, handler, removed, boardVars>>

\* Fault: the loop is left after a line, not the switch.
PutOnce(c) ==
  /\ receiver[c] = "put"
  /\ Msgsnd(c, Passed(item[c]))
  /\ receiver' = [receiver EXCEPT ![c] =
       IF closed[c] \/ item[c].type = 1 THEN "done" ELSE "recv"]
  /\ IF closed[c] THEN Discard(c) ELSE UNCHANGED stream
  /\ UNCHANGED <<serverVars, item, main, closed, handler, removed, boardVars>>

\* The next recv fails if the socket was closed meanwhile.
Put(c) ==
  /\ receiver[c] = "put"
  /\ Msgsnd(c, Passed(item[c]))
  /\ receiver' = [receiver EXCEPT ![c] = IF closed[c] THEN "done" ELSE "recv"]
  /\ IF closed[c] THEN Discard(c) ELSE UNCHANGED stream
  /\ UNCHANGED <<serverVars, item, main, closed, handler, removed, boardVars>>

-----------------------------------------------------------------------------
(* The end of a client.                                                    *)

\* The process goes, and with it its threads and its socket.
Dies(c, how) ==
  /\ main' = [main EXCEPT ![c] = how] /\ handler' = [handler EXCEPT ![c] = "idle"]
  /\ receiver' = [receiver EXCEPT ![c] = "done"]
  /\ closed' = [closed EXCEPT ![c] = TRUE]
  /\ Discard(c) /\ UNCHANGED item

\* IPC_RMID: what is in the queue goes with it.
RemoveQueue(c) ==
  removed' = [removed EXCEPT ![c] = TRUE] /\ queue' = [queue EXCEPT ![c] = <<>>]

\* /exit, or /logout once it is confirmed: TCP_connexion closes the socket.
Leave(c) ==
  /\ c \in Restless /\ main[c] = "typing" /\ handler[c] = "idle"
  /\ main' = [main EXCEPT ![c] = "stop"]
  /\ closed' = [closed EXCEPT ![c] = TRUE]
  /\ IF receiver[c] = "recv" THEN UNCHANGED stream ELSE Discard(c)
  /\ \E logout \in BOOLEAN : farewell' = [farewell EXCEPT ![c] = logout]
  /\ UNCHANGED <<line, next, member, receiver, item, handler, queueVars, boardVars>>

\* Fault: main joins the receiver before.
MainJoins(c) ==
  /\ handler[c] = "idle"
  /\ \/ /\ main[c] = "stop" /\ receiver[c] = "done" /\ Msgsnd(c, Signal(0))
        /\ main' = [main EXCEPT ![c] = "remove"]
        /\ UNCHANGED <<stream, receiver, item, closed, handler, removed>>
     \/ main[c] = "remove" /\ RemoveQueue(c) /\ Dies(c, "ended")
  /\ UNCHANGED <<serverVars, boardVars>>

\* Fault: main returns after the join.
MainReturns(c) ==
  /\ handler[c] = "idle" /\ main[c] = "stop" /\ Dies(c, "ended")
  /\ UNCHANGED <<serverVars, queueVars, boardVars>>

\* main: kill_board, and two seconds later the queue goes.
MainStep(c) ==
  /\ handler[c] = "idle"
  /\ \/ /\ main[c] = "stop" /\ Msgsnd(c, Signal(0))
        /\ main' = [main EXCEPT ![c] = "remove"]
        /\ UNCHANGED <<stream, receiver, item, closed, handler, removed>>
     \/ main[c] = "remove" /\ RemoveQueue(c) /\ Dies(c, "ended")
  /\ UNCHANGED <<serverVars, boardVars>>

Interrupt(c) ==
  /\ c \in Restless /\ Alive(c) /\ handler[c] = "idle"
  /\ handler' = [handler EXCEPT ![c] = "stop"]
  /\ UNCHANGED <<serverVars, stream, receiver, item, main, closed, queueVars,
                 boardVars>>

HandlerStep(c) ==
  /\ \/ /\ handler[c] = "stop" /\ Msgsnd(c, Signal(0))
        /\ handler' = [handler EXCEPT ![c] = "remove"]
        /\ UNCHANGED <<stream, receiver, item, main, closed, removed>>
     \/ handler[c] = "remove" /\ RemoveQueue(c) /\ Dies(c, "ended")
  /\ UNCHANGED <<serverVars, boardVars>>

\* SIGKILL, or SIGPIPE from a write to a server that is gone.
Killed(c) ==
  /\ c \in Restless /\ Alive(c) /\ Dies(c, "killed")
  /\ UNCHANGED <<serverVars, queueVars, boardVars>>

-----------------------------------------------------------------------------
(* The board. It goes on showing lines until its first thread has ended    *)
(* and main has killed the others, and with them the process.              *)

Becomes(c, state) == board' = [board EXCEPT ![c] = state]

CollectMessages(c) ==
  /\ board[c] # "closed"
  /\ \E i \in DOMAIN queue[c] :
       /\ First(c, 1, i) /\ Take(c, i)
       /\ shown' = [shown EXCEPT ![c][queue[c][i].username] =
                      Append(@, queue[c][i].val)]
  /\ UNCHANGED <<serverVars, stream, clientVars, removed, board, abandoned>>

\* STOP or an error ends the thread; other signals are announced.
CollectSignals(c) ==
  /\ board[c] = "open"
  /\ \/ \E i \in DOMAIN queue[c] :
          /\ First(c, 3, i) /\ Take(c, i)
          /\ Becomes(c, IF queue[c][i].val = 0 THEN "closing" ELSE "open")
     \/ removed[c] /\ Becomes(c, "closing") /\ UNCHANGED queue
  /\ UNCHANGED <<serverVars, stream, clientVars, removed, shown, abandoned>>

BoardMain(c) ==
  /\ board[c] = "closing" /\ Becomes(c, "closed")
  /\ UNCHANGED <<serverVars, stream, clientVars, queueVars, shown, abandoned>>

\* The user closes the board's terminal.
Abandon(c) ==
  /\ c \in Restless /\ board[c] # "closed" /\ Becomes(c, "closed")
  /\ abandoned' = abandoned \cup {c}
  /\ UNCHANGED <<serverVars, stream, clientVars, queueVars, shown>>

-----------------------------------------------------------------------------
User(c)   == Leave(c) \/ Interrupt(c) \/ Killed(c) \/ Abandon(c)
Server(c) == Broadcast(c) \/ Send(c) \/ Forget(c)
System(c) == Recv(c) \/ Put(c) \/ MainStep(c) \/ HandlerStep(c)
               \/ CollectMessages(c) \/ CollectSignals(c) \/ BoardMain(c)

Next == \E c \in Clients : User(c) \/ Server(c) \/ System(c)

Spec == Init /\ [][Next]_vars

\* Every thread runs; a msgsnd or send that waits for room gets it when there
\* is some. Nobody has to type, leave, or close anything.
FairSpec ==
  /\ Spec
  /\ \A c \in Clients :
       /\ WF_vars(Send(c) \/ Forget(c)) /\ WF_vars(Recv(c) \/ Put(c))
       /\ WF_vars(MainStep(c) \/ HandlerStep(c))
       /\ WF_vars(CollectMessages(c)) /\ WF_vars(CollectSignals(c) \/ BoardMain(c))

-----------------------------------------------------------------------------
(* Properties.                                                             *)

\* The lines of each writer on a board are the first ones that were broadcast
\* for that writer, in their order, none left out and none twice (README.md:6),
\* whichever broadcasts are mixed, whatever blocks and whoever leaves: only the
\* last ones may be missing.
ShownInOrder ==
  \A c, w \in Clients : shown[c][w] = [n \in 1 .. Len(shown[c][w]) |-> n]

\* A board ends only with its client or by its own user, never because of a
\* message (threads.c:51-60).
BoardOutlivesChat ==
  \A c \in Clients : board[c] # "open" =>
    c \in abandoned \/ main[c] # "typing" \/ handler[c] # "idle"

\* What is sent to a client that stays comes to its board.
ReachesBoard ==
  \A c \in Clients \ Restless, w \in Clients : \A n \in 1 .. MaxLines[w] :
    Contains(stream[c], Line(w, n)) ~> Contains(shown[c][w], n)

\* A broadcast comes to its end, clients that leave or die in the middle of it
\* and other broadcasts to the same connections notwithstanding, as long as
\* nobody has closed a board alone (main.c:60).
BroadcastEnds ==
  \A w \in Clients : Sending(w) ~> (~Sending(w) \/ abandoned # {})

\* A client that leaves or is signalled ends, unless its board is gone and the
\* queue has no room for STOP (client_methods.c:9).
ClientEnds ==
  \A c \in Restless :
    (main[c] # "typing" \/ handler[c] # "idle")
      ~> (~Alive(c) \/ (board[c] = "closed" /\ Len(queue[c]) = QueueMax))

\* The board of a client that has ended by itself ends.
BoardEnds == \A c \in Restless : main[c] = "ended" ~> board[c] = "closed"
=============================================================================
