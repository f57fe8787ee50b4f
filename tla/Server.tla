------------------------------- MODULE Server -------------------------------
(***************************************************************************)
(* The life of the server process: main starts communication and           *)
(* request_manager and joins them; communication accepts connections and   *)
(* starts a message_receiver for each on one block, thread_infos; the      *)
(* signal handler, which interrupts main, stops the loops, closes the      *)
(* listening socket, unmaps the table a second later and repeats the       *)
(* signal with its default action.                                         *)
(*                                                                         *)
(* Connections and message_receivers are named by the call of accept they  *)
(* come from; the descriptor a thread serves is the one in thread_infos    *)
(* when it looks, and a number that was closed is given out again. Of the  *)
(* threads' work only what touches a descriptor or the table is here       *)
(* (ConnectedUsers has the rest).                                          *)
(***************************************************************************)
EXTENDS Naturals

CONSTANTS
  MaxAccepts,   \* bound: calls of accept over the server's life
  MaxRequests   \* bound: datagrams after the signal

ASSUME BoundAssumption == MaxAccepts \in Nat /\ MaxRequests \in Nat

Conns == 1 .. MaxAccepts   \* calls of accept: connections and their threads
Fds   == 1 .. MaxAccepts   \* descriptors; 0 stands for -1

VARIABLES
  process, sig,            \* how the process is, the signal it received
  running, mapped,         \* IS_RUNNING; is shared_memory mapped?
  listening,               \* sock_s is open
  main, handler,           \* main and the signal handler on top of it
  com, accepts,            \* communication, calls of accept so far
  sock_c, infos,           \* its sock_c, and thread_infos.sock_c
  sock,                    \* the connection behind each descriptor, or 0
  left,                    \* connections whose client has logged out or closed
  mine,                    \* history: the descriptor accept gave for a thread
  receiver, own, attached, \* message_receiver: state, sock_c, memory_index # -1
  manager, requests        \* request_manager, datagrams it still may get

procVars   == <<process, sig>>
mainVars   == <<running, mapped, listening, main, handler>>
comVars    == <<com, accepts, sock_c, infos, mine>>
netVars    == <<sock, left>>
threadVars == <<receiver, own, attached>>
mgrVars    == <<manager, requests>>
vars == <<procVars, mainVars, comVars, netVars, threadVars, mgrVars>>

ProcessType ==
  /\ process \in {"up", "stopped", "killed", "crashed", "finished"}
  /\ sig \in {"TERM", "TSTP", "none"}
  /\ running \in BOOLEAN /\ mapped \in BOOLEAN /\ listening \in BOOLEAN
  /\ main \in {"joinCom", "joinReq", "unmap"}
  /\ handler \in {"idle", "stop", "close", "unmap", "kill", "done"}
  /\ manager \in {"recvfrom", "handle", "done"} /\ requests \in 0 .. MaxRequests

CommunicationType ==
  /\ com \in {"accept", "store", "create", "done"}
  /\ accepts \in 0 .. MaxAccepts /\ sock_c \in 0 .. MaxAccepts
  /\ infos \in 0 .. MaxAccepts /\ mine \in [Conns -> 0 .. MaxAccepts]
  /\ sock \in [Fds -> 0 .. MaxAccepts] /\ left \subseteq Conns

\* An entry is cleared only by a thread whose memory_index is one.
ReceiverType ==
  /\ receiver \in [Conns -> {"none", "start", "recv", "close", "clear", "done"}]
  /\ own \in [Conns -> 0 .. MaxAccepts]
  /\ attached \in [Conns -> BOOLEAN]
  /\ \A c \in Conns : receiver[c] = "clear" => attached[c]

TypeOK == ProcessType /\ CommunicationType /\ ReceiverType

Init ==
  /\ process = "up" /\ sig = "none"
  /\ running = TRUE /\ mapped = TRUE /\ listening = TRUE
  /\ main = "joinCom" /\ handler = "idle"
  /\ com = "accept" /\ accepts = 0 /\ sock_c = 0 /\ infos = 0
  /\ sock = [f \in Fds |-> 0] /\ left = {} /\ mine = [c \in Conns |-> 0]
  /\ receiver = [c \in Conns |-> "none"] /\ own = [c \in Conns |-> 0]
  /\ attached = [c \in Conns |-> FALSE]
  /\ manager = "recvfrom" /\ requests = MaxRequests

Up == process = "up"

\* The client of an accepted connection logs out or closes it.
Leave(c) ==
  /\ Up /\ c \in 1 .. accepts \ left
  /\ left' = left \cup {c}
  /\ UNCHANGED <<procVars, mainVars, comVars, sock, threadVars, mgrVars>>

-----------------------------------------------------------------------------
(* communication.                                                          *)

CommunicationAt(label) == Up /\ com = label

\* accept returns a connection on the lowest free descriptor, or -1 for want
\* of one; -1 too, to end the loop, when the listening socket is shut down.
Accept ==
  /\ CommunicationAt("accept") /\ accepts < MaxAccepts
  /\ accepts' = accepts + 1
  /\ \/ /\ listening
        /\ \E f \in Fds :
             /\ sock[f] = 0 /\ \A g \in 1 .. f - 1 : sock[g] # 0
             /\ sock_c' = f /\ sock' = [sock EXCEPT ![f] = accepts']
     \/ sock_c' = 0 /\ UNCHANGED sock
  /\ mine' = [mine EXCEPT ![accepts'] = sock_c']
  /\ com' = IF running THEN "store" ELSE "done"
  /\ UNCHANGED <<procVars, mainVars, infos, left, threadVars, mgrVars>>

AcceptEnds ==
  /\ CommunicationAt("accept") /\ ~listening
  /\ com' = "done"
  /\ UNCHANGED <<procVars, mainVars, accepts, sock_c, infos, mine, netVars,
                 threadVars, mgrVars>>

\* Fault: a failed accept leaves the block as it is and still gets a thread.
StoreUnlessFailed ==
  /\ CommunicationAt("store")
  /\ infos' = IF sock_c # 0 THEN sock_c ELSE infos
  /\ com' = "create"
  /\ UNCHANGED <<procVars, mainVars, accepts, sock_c, mine, netVars,
                 threadVars, mgrVars>>

Store ==
  /\ CommunicationAt("store")
  /\ infos' = sock_c
  /\ com' = "create"
  /\ UNCHANGED <<procVars, mainVars, accepts, sock_c, mine, netVars,
                 threadVars, mgrVars>>

CreateReceiver ==
  /\ CommunicationAt("create")
  /\ receiver' = [receiver EXCEPT ![accepts] = "start"]
  /\ com' = IF running THEN "accept" ELSE "done"
  /\ UNCHANGED <<procVars, mainVars, accepts, sock_c, infos, mine, netVars,
                 own, attached, mgrVars>>

-----------------------------------------------------------------------------
(* message_receiver.                                                       *)

ReceiverAt(c, label) == Up /\ receiver[c] = label
Goto(c, label) == receiver' = [receiver EXCEPT ![c] = label]

ReadInfos(c) ==
  /\ ReceiverAt(c, "start")
  /\ own' = [own EXCEPT ![c] = infos]
  /\ Goto(c, "recv")
  /\ UNCHANGED <<procVars, mainVars, comVars, netVars, attached, mgrVars>>

\* The connection behind the thread's descriptor: 0 when that is -1 or closed,
\* a later connection when it was closed by another thread and given out again.
Peer(c) == IF own[c] = 0 THEN 0 ELSE sock[own[c]]

\* An access to the table ends the process when it is not mapped any more.
TouchTable ==
  process' = IF mapped THEN process ELSE "crashed"

\* Data arrives: a token, looked for in the table, or from a user a message
\* for everybody in it.
ReceiveData(c) ==
  /\ ReceiverAt(c, "recv")
  /\ Peer(c) # 0
  /\ \E known \in BOOLEAN : attached' = [attached EXCEPT ![c] = @ \/ known]
  /\ TouchTable
  /\ Goto(c, IF running THEN "recv" ELSE "close")
  /\ UNCHANGED <<sig, mainVars, comVars, netVars, own, mgrVars>>

\* Fault: a recv without data ends the loop.
LoopEndsQuiet(c) ==
  /\ ReceiverAt(c, "recv")
  /\ Goto(c, "close")
  /\ UNCHANGED <<procVars, mainVars, comVars, netVars, own, attached, mgrVars>>

\* Fault: a recv of 0 bytes does not end the loop.
LoopEndsOnError(c) ==
  /\ ReceiverAt(c, "recv")
  /\ ~running \/ Peer(c) = 0
  /\ Goto(c, "close")
  /\ UNCHANGED <<procVars, mainVars, comVars, netVars, own, attached, mgrVars>>

\* The loop ends with IS_RUNNING, with the connection, or with an error.
LoopEnds(c) ==
  /\ ReceiverAt(c, "recv")
  /\ ~running \/ Peer(c) \in left \cup {0}
  /\ Goto(c, "close")
  /\ UNCHANGED <<procVars, mainVars, comVars, netVars, own, attached, mgrVars>>

CloseOwn(c) == sock' = [f \in Fds |-> IF f = own[c] THEN 0 ELSE sock[f]]

\* Fault: the entry is cleared without a look at memory_index.
CloseAndClear(c) ==
  /\ ReceiverAt(c, "close")
  /\ CloseOwn(c)
  /\ Goto(c, "clear")
  /\ UNCHANGED <<procVars, mainVars, comVars, left, own, attached, mgrVars>>

CloseSocket(c) ==
  /\ ReceiverAt(c, "close")
  /\ CloseOwn(c)
  /\ Goto(c, IF attached[c] THEN "clear" ELSE "done")
  /\ UNCHANGED <<procVars, mainVars, comVars, left, own, attached, mgrVars>>

ClearEntry(c) ==
  /\ ReceiverAt(c, "clear")
  /\ TouchTable
  /\ Goto(c, "done")
  /\ UNCHANGED <<sig, mainVars, comVars, netVars, own, attached, mgrVars>>

ReceiverStep(c) ==
  ReadInfos(c) \/ LoopEnds(c) \/ CloseSocket(c) \/ ClearEntry(c)

-----------------------------------------------------------------------------
(* request_manager: blocked in recvfrom until a datagram comes.            *)

Recvfrom ==
  /\ Up /\ manager = "recvfrom"
  /\ IF running THEN UNCHANGED requests
                ELSE requests > 0 /\ requests' = requests - 1
  /\ manager' = "handle"
  /\ UNCHANGED <<procVars, mainVars, comVars, netVars, threadVars>>

\* The thread it starts uses the table, unless it is about accounts only.
HandleRequest ==
  /\ Up /\ manager = "handle"
  /\ TouchTable \/ UNCHANGED process
  /\ manager' = IF running THEN "recvfrom" ELSE "done"
  /\ UNCHANGED <<sig, mainVars, comVars, netVars, threadVars, requests>>

-----------------------------------------------------------------------------
(* Signals and the end of main. A stop can be undone, an end cannot.       *)

Default(s) == IF s = "TERM" THEN "killed" ELSE "stopped"

Signal(s) ==
  /\ Up /\ sig = "none"
  /\ sig' = s /\ handler' = "stop"
  /\ UNCHANGED <<process, running, mapped, listening, main, comVars, netVars,
                 threadVars, mgrVars>>

\* The handler has taken itself off: the same signal again acts at once.
SignalAgain ==
  /\ Up /\ handler \notin {"idle", "stop"}
  /\ process' = Default(sig)
  /\ UNCHANGED <<sig, mainVars, comVars, netVars, threadVars, mgrVars>>

Continue ==
  /\ process = "stopped" /\ process' = "up"
  /\ UNCHANGED <<sig, mainVars, comVars, netVars, threadVars, mgrVars>>

\* Fault: the listening socket is left to the end of the process.
HandlerKeepsSocket ==
  /\ Up
  /\ \/ handler = "stop" /\ handler' = "unmap" /\ running' = FALSE
        /\ UNCHANGED <<process, mapped>>
     \/ handler = "unmap" /\ handler' = "kill" /\ mapped' = FALSE
        /\ UNCHANGED <<process, running>>
     \/ handler = "kill" /\ handler' = "done" /\ process' = Default(sig)
        /\ UNCHANGED <<running, mapped>>
  /\ UNCHANGED <<sig, listening, main, comVars, netVars, threadVars, mgrVars>>

\* Fault: the handler leaves the end of the process to main.
HandlerReturns ==
  /\ Up
  /\ \/ handler = "stop" /\ handler' = "close"
        /\ running' = FALSE /\ UNCHANGED <<mapped, listening>>
     \/ handler = "close" /\ handler' = "unmap"
        /\ listening' = FALSE /\ UNCHANGED <<running, mapped>>
     \/ handler = "unmap" /\ handler' = "done"
        /\ mapped' = FALSE /\ UNCHANGED <<running, listening>>
  /\ UNCHANGED <<process, sig, main, comVars, netVars, threadVars, mgrVars>>

HandlerStep ==
  /\ Up
  /\ \/ handler = "stop" /\ handler' = "close"
        /\ running' = FALSE /\ UNCHANGED <<process, mapped, listening>>
     \/ handler = "close" /\ handler' = "unmap"
        /\ listening' = FALSE /\ UNCHANGED <<process, running, mapped>>
     \/ handler = "unmap" /\ handler' = "kill"
        /\ mapped' = FALSE /\ UNCHANGED <<process, running, listening>>
     \/ handler = "kill" /\ handler' = "done"
        /\ process' = Default(sig) /\ UNCHANGED <<running, mapped, listening>>
  /\ UNCHANGED <<sig, main, comVars, netVars, threadVars, mgrVars>>

\* main goes on when no handler is on top of it.
MainStep ==
  /\ Up /\ handler \in {"idle", "done"}
  /\ \/ main = "joinCom" /\ com = "done" /\ main' = "joinReq"
        /\ UNCHANGED <<process, mapped>>
     \/ main = "joinReq" /\ manager = "done" /\ main' = "unmap"
        /\ UNCHANGED <<process, mapped>>
     \/ main = "unmap" /\ mapped' = FALSE /\ process' = "finished"
        /\ UNCHANGED main
  /\ UNCHANGED <<sig, running, listening, handler, comVars, netVars,
                 threadVars, mgrVars>>

-----------------------------------------------------------------------------
ComStep == Accept \/ AcceptEnds \/ Store \/ CreateReceiver

Next ==
  \/ \E c \in Conns : Leave(c) \/ ReceiveData(c) \/ ReceiverStep(c)
  \/ ComStep \/ Recvfrom \/ HandleRequest
  \/ \E s \in {"TERM", "TSTP"} : Signal(s)
  \/ SignalAgain \/ Continue \/ HandlerStep \/ MainStep

Spec == Init /\ [][Next]_vars

\* The threads and the handler run; nobody has to connect, send, leave or
\* send signals, and accept is not asked to succeed.
FairSpec ==
  /\ Spec
  /\ WF_vars(Store \/ CreateReceiver \/ AcceptEnds) /\ WF_vars(HandlerStep)
  /\ WF_vars(HandleRequest) /\ WF_vars(MainStep)
  /\ \A c \in Conns : WF_vars(ReceiverStep(c))
-----------------------------------------------------------------------------
(* Properties.                                                             *)

\* thread_infos is one block for all threads (main.c:74, 171): a thread that
\* reads it late may serve a connection accepted after its own, or none when
\* that accept failed, but never one accepted before.
NeverEarlier ==
  \A c \in Conns :
    receiver[c] \in {"recv", "close"} /\ Peer(c) # 0 => Peer(c) >= c


\* As long as every thread read its own descriptor, a running server closes
\* only connections whose client has left: descriptors given out again and
\* late closes never hit another client's connection.
HangsUpOnTheLeft ==
  [][\A f \in Fds :
       /\ running /\ \A c \in Conns : own[c] \in {0, mine[c]}
       /\ sock[f] # 0 /\ sock'[f] = 0
       => sock[f] \in left]_vars

\* The server prints that it finished and leaves main by its return only when
\* it was stopped and continued: after any other signal the handler, on top
\* of main, never gives the joins (main.c:299-305) back to it.
FinishesOnlyContinued == process = "finished" => sig = "TSTP"

\* A signal that ends a process ends this one, though main joins a
\* request_manager that waits in recvfrom for a datagram.
SignalEnds ==
  sig = "TERM" ~> process \in {"killed", "crashed", "finished"}

\* The descriptor of a connection whose client has left is given back, if any
\* thread has the connection.
DescriptorReturned ==
  \A c, d \in Conns :
    (Peer(d) = c /\ receiver[d] \in {"recv", "close"} /\ c \in left)
      ~> ((\A f \in Fds : sock[f] # c) \/ ~Up)

\* After a signal communication and every message_receiver come to their end,
\* in a server that was stopped and continued too: none waits for ever.
WindsDown ==
  ~running ~> \/ ~Up
              \/ com = "done" /\ \A c \in Conns : receiver[c] \in {"none", "done"}
=============================================================================
