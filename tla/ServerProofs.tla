---------------------------- MODULE ServerProofs ----------------------------
(***************************************************************************)
(* Proofs about Server, for any numbers of connections and of datagrams:   *)
(* the types, what ties a thread to the connection behind its descriptor,  *)
(* and how the server may finish.                                          *)
(***************************************************************************)
EXTENDS Server, TLAPS

-----------------------------------------------------------------------------
(* Types.                                                                  *)

LEMMA InitTypes == Init => TypeOK
BY BoundAssumption
DEF Init, TypeOK, ProcessType, CommunicationType, ReceiverType, Conns, Fds

LEMMA CommunicationTypes == ASSUME TypeOK, ComStep PROVE TypeOK'
<1>1. ProcessType'
  BY DEF TypeOK, ProcessType, ComStep, Accept, AcceptEnds, Store, CreateReceiver,
         procVars, mainVars, mgrVars
<1>2. CommunicationType'
  <2> USE BoundAssumption DEF TypeOK, CommunicationType, Conns, Fds, netVars
  <2>1. CASE Accept
    <3>1. accepts' \in 0 .. MaxAccepts BY <2>1 DEF Accept
    <3>2. sock_c' \in 0 .. MaxAccepts /\ sock' \in [Fds -> 0 .. MaxAccepts]
      <4>1. CASE sock_c' = 0 /\ UNCHANGED sock BY <4>1
      <4>2. CASE ~(sock_c' = 0 /\ UNCHANGED sock)
        <5>1. PICK f \in Fds :
                sock_c' = f /\ sock' = [sock EXCEPT ![f] = accepts']
          BY <2>1, <4>2 DEF Accept
        <5> QED BY <3>1, <5>1
      <4> QED BY <4>1, <4>2
    <3> QED BY <2>1, <3>1, <3>2 DEF Accept
  <2>2. CASE AcceptEnds BY <2>2 DEF AcceptEnds
  <2>3. CASE Store BY <2>3 DEF Store
  <2>4. CASE CreateReceiver BY <2>4 DEF CreateReceiver
  <2> QED BY <2>1, <2>2, <2>3, <2>4 DEF ComStep
<1>3. ReceiverType'
  <2> USE DEF TypeOK, ReceiverType, threadVars
  <2>1. CASE Accept \/ AcceptEnds \/ Store
    BY <2>1 DEF Accept, AcceptEnds, Store
  <2>2. CASE CreateReceiver BY <2>2 DEF CreateReceiver
  <2> QED BY <2>1, <2>2 DEF ComStep
<1> QED BY <1>1, <1>2, <1>3 DEF TypeOK

LEMMA ReceiverTypes ==
  ASSUME TypeOK, NEW c \in Conns, ReceiveData(c) \/ ReceiverStep(c)
  PROVE  TypeOK'
<1>1. ProcessType'
  <2>1. /\ process' \in {process, "crashed"}
        /\ UNCHANGED <<sig, mainVars, mgrVars>>
    BY DEF ReceiverStep, ReceiveData, ReadInfos, LoopEnds, CloseSocket,
           ClearEntry, TouchTable, procVars
  <2> QED BY <2>1 DEF TypeOK, ProcessType, mainVars, mgrVars
<1>2. CommunicationType'
  <2>1. UNCHANGED <<comVars, left>> /\ (UNCHANGED sock \/ CloseOwn(c))
    BY DEF ReceiverStep, ReceiveData, ReadInfos, LoopEnds, CloseSocket,
           ClearEntry, netVars
  <2>2. sock' \in [Fds -> 0 .. MaxAccepts]
    BY <2>1, BoundAssumption DEF TypeOK, CommunicationType, CloseOwn
  <2> QED BY <2>1, <2>2 DEF TypeOK, CommunicationType, comVars
<1>3. ReceiverType'
  <2> USE DEF TypeOK, ReceiverType, ReceiverAt, Goto
  <2>1. CASE ReceiveData(c) BY <2>1 DEF ReceiveData
  <2>2. CASE ReadInfos(c) BY <2>2 DEF ReadInfos, CommunicationType
  <2>3. CASE LoopEnds(c) BY <2>3 DEF LoopEnds
  <2>4. CASE CloseSocket(c) BY <2>4 DEF CloseSocket
  <2>5. CASE ClearEntry(c) BY <2>5 DEF ClearEntry
  <2> QED BY <2>1, <2>2, <2>3, <2>4, <2>5 DEF ReceiverStep
<1> QED BY <1>1, <1>2, <1>3 DEF TypeOK

\* The steps of the clients, request_manager, main and its handler.
Elsewhere ==
  \/ \E c \in Conns : Leave(c)
  \/ Recvfrom \/ HandleRequest
  \/ \E s \in {"TERM", "TSTP"} : Signal(s)
  \/ SignalAgain \/ Continue \/ HandlerStep \/ MainStep

LEMMA ElsewhereTypes == ASSUME TypeOK, Elsewhere PROVE TypeOK'
<1>1. ProcessType'
  <2> USE BoundAssumption DEF TypeOK, ProcessType, procVars, mainVars, mgrVars
  <2>1. ASSUME NEW c \in Conns, Leave(c) PROVE ProcessType'
    BY <2>1 DEF Leave
  <2>2. CASE Recvfrom \/ HandleRequest
    BY <2>2 DEF Recvfrom, HandleRequest, TouchTable
  <2>3. ASSUME NEW s \in {"TERM", "TSTP"}, Signal(s) PROVE ProcessType'
    BY <2>3 DEF Signal
  <2>4. CASE SignalAgain \/ Continue
    BY <2>4 DEF SignalAgain, Continue, Default
  <2>5. CASE HandlerStep BY <2>5 DEF HandlerStep, Default
  <2>6. CASE MainStep BY <2>6 DEF MainStep
  <2> QED BY <2>1, <2>2, <2>3, <2>4, <2>5, <2>6 DEF Elsewhere
<1>2. UNCHANGED <<comVars, sock, threadVars>> /\ left' \subseteq Conns
  <2>1. ASSUME NEW c \in Conns, Leave(c)
        PROVE  UNCHANGED <<comVars, sock, threadVars>> /\ left' \subseteq Conns
    BY <2>1 DEF Leave, TypeOK, CommunicationType
  <2>2. CASE UNCHANGED <<comVars, netVars, threadVars>>
    BY <2>2 DEF netVars, TypeOK, CommunicationType
  <2> QED
    BY <2>1, <2>2
    DEF Elsewhere, Recvfrom, HandleRequest, Signal, SignalAgain, Continue,
        HandlerStep, MainStep
<1>3. CommunicationType' /\ ReceiverType'
  BY <1>2 DEF TypeOK, CommunicationType, ReceiverType, comVars, threadVars
<1> QED BY <1>1, <1>3 DEF TypeOK

LEMMA NextCases ==
  ASSUME Next
  PROVE  \/ ComStep
         \/ \E c \in Conns : ReceiveData(c) \/ ReceiverStep(c)
         \/ Elsewhere
BY DEF Next, Elsewhere

LEMMA TypesInductive == TypeOK /\ [Next]_vars => TypeOK'
<1>1. ASSUME TypeOK, UNCHANGED vars PROVE TypeOK'
  BY <1>1
  DEF vars, TypeOK, ProcessType, CommunicationType, ReceiverType, procVars,
      mainVars, comVars, netVars, threadVars, mgrVars
<1> QED BY <1>1, NextCases, CommunicationTypes, ReceiverTypes, ElsewhereTypes

\* Every reachable state has the declared types, and an entry of the table is
\* cleared only by a thread whose memory_index is one (message_receiver).
THEOREM TypeCorrect == Spec => []TypeOK
BY InitTypes, TypesInductive, PTL DEF Spec

-----------------------------------------------------------------------------
(* A thread and the connection behind its descriptor.                      *)

\* Behind a descriptor is no connection accepted before the c-th.
NotBefore(f, c) == f # 0 /\ sock[f] # 0 => sock[f] >= c

OrderInv ==
  /\ \A c \in Conns : receiver[c] # "none" => c <= accepts
  /\ com = "store" => NotBefore(sock_c, accepts)
  /\ com = "create" => NotBefore(infos, accepts)
  /\ \A c \in Conns : receiver[c] = "start" => NotBefore(infos, c)
  /\ \A c \in Conns : receiver[c] \in {"recv", "close"} => NotBefore(own[c], c)

\* A descriptor changes hands only by a close and the newest accept.
LEMMA Descriptors ==
  ASSUME TypeOK, [Next]_vars
  PROVE  /\ accepts' \in {accepts, accepts + 1}
         /\ \A f \in Fds : \/ sock'[f] \in {0, sock[f]}
                           \/ accepts' = accepts + 1 /\ sock'[f] = accepts'
<1> USE DEF TypeOK, CommunicationType, comVars, netVars
<1>1. CASE ComStep
  BY <1>1 DEF ComStep, Accept, AcceptEnds, Store, CreateReceiver
<1>2. ASSUME NEW c \in Conns, ReceiveData(c) \/ ReceiverStep(c)
      PROVE  /\ accepts' = accepts
             /\ \A f \in Fds : sock'[f] \in {0, sock[f]}
  BY <1>2 DEF ReceiverStep, ReceiveData, ReadInfos, LoopEnds, CloseSocket,
              CloseOwn, ClearEntry
<1>3. CASE Elsewhere
  BY <1>3 DEF Elsewhere, Leave, Recvfrom, HandleRequest, Signal, SignalAgain,
              Continue, HandlerStep, MainStep
<1>4. CASE UNCHANGED vars BY <1>4 DEF vars
<1> QED BY <1>1, <1>2, <1>3, <1>4, NextCases

LEMMA StillNotBefore ==
  ASSUME TypeOK, [Next]_vars
  PROVE  \A f \in 0 .. MaxAccepts, c \in 0 .. accepts :
           NotBefore(f, c) => (f # 0 /\ sock'[f] # 0 => sock'[f] >= c)
<1> SUFFICES ASSUME NEW f \in 0 .. MaxAccepts, NEW c \in 0 .. accepts, f # 0,
                    NotBefore(f, c), sock'[f] # 0
             PROVE  sock'[f] >= c
  OBVIOUS
<1>1. f \in Fds BY BoundAssumption DEF Fds
<1>2. sock[f] \in Nat /\ accepts \in Nat
  BY <1>1, BoundAssumption DEF TypeOK, CommunicationType
<1> QED BY <1>1, <1>2, Descriptors DEF NotBefore

LEMMA OrderInductive == TypeOK /\ OrderInv /\ [Next]_vars => OrderInv'
<1> SUFFICES ASSUME TypeOK, OrderInv, [Next]_vars PROVE OrderInv'
  OBVIOUS
<1>1. /\ accepts \in Nat /\ sock_c \in 0 .. MaxAccepts /\ infos \in 0 .. MaxAccepts
      /\ \A c \in Conns : c \in Nat \ {0} /\ own[c] \in 0 .. MaxAccepts
      /\ receiver \in [Conns -> {"none", "start", "recv", "close", "clear", "done"}]
      /\ own \in [Conns -> 0 .. MaxAccepts]
  BY BoundAssumption DEF TypeOK, CommunicationType, ReceiverType, Conns
<1> USE <1>1, StillNotBefore DEF OrderInv, NotBefore
<1>2. CASE Accept
  <2>1. accepts' = accepts + 1 /\ com' # "create"
        /\ UNCHANGED <<infos, receiver, own>>
    BY <1>2 DEF Accept, threadVars
  <2>2. com' = "store" => (sock_c' = 0 \/ sock'[sock_c'] = accepts')
    BY <1>2 DEF Accept, TypeOK, CommunicationType
  <2> QED BY <2>1, <2>2
<1>3. CASE AcceptEnds BY <1>3 DEF AcceptEnds, netVars, threadVars
<1>4. CASE Store
  <2>1. /\ com = "store" /\ com' = "create" /\ infos' = sock_c
        /\ UNCHANGED <<sock, accepts, receiver, own>>
    BY <1>4 DEF Store, CommunicationAt, netVars, threadVars
  <2>2. sock_c # 0 => sock[sock_c] \in Nat
    BY BoundAssumption DEF TypeOK, CommunicationType, Fds
  <2> QED BY <2>1, <2>2
<1>5. CASE CreateReceiver
  BY <1>5 DEF CreateReceiver, CommunicationAt, netVars
<1>6. ASSUME NEW c \in Conns, ReadInfos(c) PROVE OrderInv'
  BY <1>6 DEF ReadInfos, ReceiverAt, Goto, comVars, netVars
<1>7. CASE /\ UNCHANGED <<com, accepts, sock_c, infos, own>>
           /\ \A c \in Conns : \/ receiver'[c] = receiver[c]
                               \/ receiver[c] # "none" /\ receiver'[c] \in {"clear", "done"}
                               \/ receiver[c] = "recv" /\ receiver'[c] = "close"
  <2>1. com' = "store" => NotBefore(sock_c, accepts)'
    BY <1>7
  <2>2. com' = "create" => NotBefore(infos, accepts)'
    BY <1>7
  <2>3. ASSUME NEW c \in Conns
        PROVE  /\ receiver'[c] # "none" => c <= accepts'
               /\ receiver'[c] = "start" => NotBefore(infos, c)'
               /\ receiver'[c] \in {"recv", "close"} => NotBefore(own[c], c)'
    <3>1. receiver'[c] # "none" => receiver[c] # "none" /\ c \in 0 .. accepts
      BY <1>7
    <3> QED BY <1>7, <3>1
  <2> QED BY <2>1, <2>2, <2>3
<1>8. ASSUME NEW c \in Conns,
             \/ ReceiveData(c) \/ LoopEnds(c) \/ CloseSocket(c) \/ ClearEntry(c)
      PROVE  OrderInv'
  BY <1>7, <1>8
  DEF ReceiveData, LoopEnds, CloseSocket, ClearEntry, ReceiverAt, Goto, comVars
<1>9. CASE Elsewhere \/ UNCHANGED vars
  BY <1>7, <1>9
  DEF Elsewhere, Leave, Recvfrom, HandleRequest, Signal, SignalAgain, Continue,
      HandlerStep, MainStep, vars, comVars, threadVars
<1> QED
  BY <1>2, <1>3, <1>4, <1>5, <1>6, <1>8, <1>9, NextCases DEF ComStep, ReceiverStep

\* A thread may come to serve a connection accepted after its own, by a block
\* that was overwritten (main.c:171) or a descriptor given out again, but never
\* an earlier one.
THEOREM NeverServesEarlier == Spec => []NeverEarlier
<1>1. Init => OrderInv
  BY DEF Init, OrderInv
<1>2. TypeOK /\ OrderInv => NeverEarlier
  BY BoundAssumption
  DEF OrderInv, NotBefore, NeverEarlier, Peer, TypeOK, ReceiverType
<1> QED
  BY <1>1, <1>2, InitTypes, TypesInductive, OrderInductive, PTL DEF Spec

-----------------------------------------------------------------------------
(* Which connections a running server closes.                              *)

\* Every thread read the descriptor that accept gave for it.
OwnDescriptors == \A c \in Conns : own[c] \in {0, mine[c]}

\* As long as they all did, a connection is behind its descriptor until its
\* own thread has closed it, which happens when its client has left.
LoyalInv ==
  /\ com \in {"store", "create"} => accepts \in Conns /\ receiver[accepts] = "none"
  /\ \A c \in Conns : receiver[c] # "none" => c <= accepts
  /\ \A c \in Conns : c > accepts => mine[c] = 0
  /\ \A c \in Conns : receiver[c] \in {"none", "start"} => own[c] = 0
  /\ OwnDescriptors =>
       /\ \A c \in Conns : mine[c] # 0 /\ receiver[c] \notin {"clear", "done"}
                             => sock[mine[c]] = c
       /\ running => \A c \in Conns : receiver[c] = "close" /\ own[c] # 0 => c \in left

LEMMA LoyalInductive == TypeOK /\ LoyalInv /\ [Next]_vars => LoyalInv'
<1> SUFFICES ASSUME TypeOK, LoyalInv, [Next]_vars PROVE LoyalInv'
  OBVIOUS
<1>1. /\ accepts \in Nat
      /\ \A c \in Conns : c \in Nat \ {0}
      /\ \A c \in Conns : mine[c] # 0 => mine[c] \in Fds
      /\ \A c \in Conns : own[c] # 0 => own[c] \in Fds
      /\ receiver \in [Conns -> {"none", "start", "recv", "close", "clear", "done"}]
      /\ own \in [Conns -> 0 .. MaxAccepts] /\ mine \in [Conns -> 0 .. MaxAccepts]
      /\ sock \in [Fds -> 0 .. MaxAccepts]
  BY BoundAssumption DEF TypeOK, CommunicationType, ReceiverType, Conns, Fds
<1> USE <1>1 DEF LoyalInv, OwnDescriptors
<1>2. CASE Accept
  <2>1. /\ accepts' = accepts + 1 /\ accepts' \in Conns
        /\ mine' = [mine EXCEPT ![accepts'] = sock_c']
        /\ com' # "create" /\ UNCHANGED <<running, left, receiver, own>>
    BY <1>2, BoundAssumption DEF Accept, threadVars, mainVars, Conns
  <2>2. \/ /\ sock_c' \in Fds /\ sock[sock_c'] = 0
           /\ sock' = [sock EXCEPT ![sock_c'] = accepts']
        \/ sock_c' = 0 /\ sock' = sock
    BY <1>2 DEF Accept
  <2> QED BY <2>1, <2>2
<1>3. CASE AcceptEnds \/ Store
  BY <1>3 DEF AcceptEnds, Store, CommunicationAt, netVars, threadVars, mainVars
<1>4. CASE CreateReceiver
  BY <1>4 DEF CreateReceiver, CommunicationAt, netVars, mainVars
<1>5. ASSUME NEW c \in Conns, ReceiveData(c) \/ ReceiverStep(c) PROVE LoyalInv'
  <2> USE <1>5 DEF ReceiverAt, Goto, comVars, netVars, mainVars
  <2>1. CASE ReadInfos(c) BY <2>1 DEF ReadInfos
  <2>2. CASE ReceiveData(c) BY <2>2 DEF ReceiveData
  <2>3. CASE LoopEnds(c) BY <2>3 DEF LoopEnds, Peer
  <2>4. CASE CloseSocket(c) BY <2>4 DEF CloseSocket, CloseOwn
  <2>5. CASE ClearEntry(c) BY <2>5 DEF ClearEntry
  <2> QED BY <2>1, <2>2, <2>3, <2>4, <2>5 DEF ReceiverStep
<1>6. CASE Elsewhere \/ UNCHANGED vars
  <2>1. /\ UNCHANGED <<comVars, sock, threadVars>> /\ left \subseteq left'
        /\ running' => running
    BY <1>6
    DEF Elsewhere, Leave, Recvfrom, HandleRequest, Signal, SignalAgain, Continue,
        HandlerStep, MainStep, vars, netVars, mainVars
  <2> QED BY <2>1 DEF comVars, threadVars
<1> QED BY <1>2, <1>3, <1>4, <1>5, <1>6, NextCases DEF ComStep

LEMMA ClosesForTheLeft ==
  ASSUME TypeOK, LoyalInv, Next, running, OwnDescriptors,
         NEW f \in Fds, sock[f] # 0, sock'[f] = 0
  PROVE  sock[f] \in left
<1>1. PICK c \in Conns : CloseSocket(c)
  <2>1. ~ComStep
    BY BoundAssumption
    DEF ComStep, Accept, AcceptEnds, Store, CreateReceiver, netVars, TypeOK,
        CommunicationType
  <2> QED
    BY <2>1, NextCases
    DEF ReceiverStep, ReceiveData, ReadInfos, LoopEnds, ClearEntry, Elsewhere,
        Leave, Recvfrom, HandleRequest, Signal, SignalAgain, Continue,
        HandlerStep, MainStep, netVars
<1>2. own[c] = f /\ receiver[c] = "close"
  BY <1>1 DEF CloseSocket, CloseOwn, ReceiverAt
<1>3. own[c] # 0 BY <1>2 DEF Fds
<1> QED BY <1>2, <1>3 DEF LoyalInv, OwnDescriptors

\* A running server in which every thread read its own descriptor closes only
\* connections whose client has left (main.c:87-88, 121): a descriptor given
\* out again is not closed by the thread that had it before.
THEOREM ClosesOnlyTheLeft == Spec => HangsUpOnTheLeft
<1>1. Init => LoyalInv
  BY BoundAssumption DEF Init, LoyalInv, Conns
<1>2. TypeOK /\ LoyalInv /\ [Next]_vars =>
        [\A f \in Fds :
           /\ running /\ \A c \in Conns : own[c] \in {0, mine[c]}
           /\ sock[f] # 0 /\ sock'[f] = 0
           => sock[f] \in left]_vars
  BY ClosesForTheLeft DEF OwnDescriptors
<1> QED
  BY <1>1, <1>2, InitTypes, TypesInductive, LoyalInductive, PTL
  DEF Spec, HangsUpOnTheLeft

-----------------------------------------------------------------------------
(* How the server may finish.                                              *)

FinishInv ==
  /\ handler = "idle" <=> sig = "none"
  /\ handler \in {"idle", "stop"} <=> running
  /\ ~listening \/ com = "done" \/ manager = "done" \/ main # "joinCom" => ~running
  /\ process \in {"stopped", "finished"} => sig = "TSTP"
  /\ handler = "done" /\ process = "up" => sig = "TSTP"

LEMMA FinishInductive == TypeOK /\ FinishInv /\ [Next]_vars => FinishInv'
<1> SUFFICES ASSUME TypeOK, FinishInv, [Next]_vars PROVE FinishInv'
  OBVIOUS
<1> USE DEF FinishInv, procVars, mainVars, mgrVars, TypeOK, ProcessType
<1>1. CASE ComStep
  BY <1>1 DEF ComStep, CommunicationAt, Accept, AcceptEnds, Store, CreateReceiver
<1>2. ASSUME NEW c \in Conns, ReceiveData(c) \/ ReceiverStep(c) PROVE FinishInv'
  <2>1. process' \in {process, "crashed"} /\ UNCHANGED <<sig, mainVars, com, manager>>
    BY <1>2
    DEF ReceiverStep, ReceiveData, ReadInfos, LoopEnds, CloseSocket, ClearEntry,
        TouchTable, comVars
  <2> QED BY <2>1
<1>3. CASE Elsewhere
  <2> USE DEF comVars
  <2>1. ASSUME NEW c \in Conns, Leave(c) PROVE FinishInv' BY <2>1 DEF Leave
  <2>2. CASE Recvfrom BY <2>2 DEF Recvfrom
  <2>3. CASE HandleRequest BY <2>3 DEF HandleRequest, TouchTable
  <2>4. ASSUME NEW s \in {"TERM", "TSTP"}, Signal(s) PROVE FinishInv'
    BY <2>4 DEF Signal
  <2>5. CASE SignalAgain \/ Continue
    BY <2>5 DEF SignalAgain, Continue, Default, Up
  <2>6. CASE HandlerStep BY <2>6 DEF HandlerStep, Default, Up
  <2>7. CASE MainStep BY <2>7 DEF MainStep, Up
  <2> QED BY <1>3, <2>1, <2>2, <2>3, <2>4, <2>5, <2>6, <2>7 DEF Elsewhere
<1>4. CASE UNCHANGED vars BY <1>4 DEF vars, comVars
<1> QED BY <1>1, <1>2, <1>3, <1>4, NextCases

\* The end of main, where the server says that it finished (main.c:299-305), is
\* reached only after it was stopped by a signal and continued.
THEOREM FinishesOnlyAfterStop == Spec => []FinishesOnlyContinued
<1>1. Init => FinishInv
  BY DEF Init, FinishInv
<1>2. FinishInv => FinishesOnlyContinued
  BY DEF FinishInv, FinishesOnlyContinued
<1> QED
  BY <1>1, <1>2, InitTypes, TypesInductive, FinishInductive, PTL DEF Spec

=============================================================================
