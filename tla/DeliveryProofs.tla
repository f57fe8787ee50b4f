--------------------------- MODULE DeliveryProofs ---------------------------
(***************************************************************************)
(* Proofs about Delivery, for any table, bounds and buffers: the types,    *)
(* why a board ends, and the order of each writer's lines on it.           *)
(***************************************************************************)
EXTENDS Delivery, SequenceTheorems, TLAPS

-----------------------------------------------------------------------------
(* Sequences.                                                              *)

\* What RemoveAt leaves, by its index.
LEMMA RemoveAtProperties ==
  ASSUME NEW S, NEW s \in Seq(S), NEW i \in DOMAIN s
  PROVE  /\ RemoveAt(s, i) \in Seq(S)
         /\ Len(RemoveAt(s, i)) = Len(s) - 1
         /\ \A j \in 1 .. Len(s) - 1 :
              RemoveAt(s, i)[j] = IF j < i THEN s[j] ELSE s[j + 1]
<1> DEFINE l == SubSeq(s, 1, i - 1)
           r == SubSeq(s, i + 1, Len(s))
<1>0. i \in 1 .. Len(s) /\ Len(s) \in Nat BY LenProperties
<1>1. /\ l \in Seq(S) /\ Len(l) = i - 1
      /\ \A j \in 1 .. i - 1 : l[j] = s[j]
  <2>1. i - 1 \in 1 - 1 .. Len(s) BY <1>0
  <2>2. \A k \in 1 .. i - 1 : k \in 1 .. Len(s) BY <1>0
  <2> QED BY <1>0, <2>1, <2>2, SubSeqProperties, Z3
<1>2. /\ r \in Seq(S) /\ Len(r) = Len(s) - i
      /\ \A j \in 1 .. Len(s) - i : r[j] = s[i + j]
  BY <1>0, SubSeqProperties, Z3
<1> HIDE DEF l, r
<1>3. /\ l \o r \in Seq(S) /\ Len(l \o r) = Len(s) - 1
      /\ \A j \in 1 .. Len(s) - 1 :
           (l \o r)[j] = IF j <= Len(l) THEN l[j] ELSE r[j - Len(l)]
  BY <1>0, <1>1, <1>2, ConcatProperties
<1>4. ASSUME NEW j \in 1 .. Len(s) - 1
      PROVE  RemoveAt(s, i)[j] = IF j < i THEN s[j] ELSE s[j + 1]
  <2>1. (l \o r)[j] = IF j <= Len(l) THEN l[j] ELSE r[j - Len(l)] BY <1>3
  <2>2. CASE j < i BY <1>0, <1>1, <2>1, <2>2 DEF RemoveAt, l, r
  <2>3. CASE ~(j < i)
    <3>1. j - Len(l) \in 1 .. Len(s) - i /\ ~(j <= Len(l)) BY <1>0, <1>1, <2>3
    <3>2. r[j - Len(l)] = s[i + (j - Len(l))] BY <1>2, <3>1
    <3>3. i + (j - Len(l)) = j + 1 BY <1>0, <1>1
    <3> QED BY <2>1, <2>3, <3>1, <3>2, <3>3 DEF RemoveAt, l, r
  <2> QED BY <2>2, <2>3
<1>5. RemoveAt(s, i) = l \o r BY DEF RemoveAt, l, r
<1> QED BY <1>3, <1>4, <1>5

\* A line of w.
Of(m, w) == m.type = 1 /\ m.username = w

\* s carries the lines of w behind the a-th up to the b-th, in their order, and
\* anything else between them.
Carries(s, w, a, b) ==
  /\ \A i \in DOMAIN s : Of(s[i], w) => s[i].val \in a + 1 .. b
  /\ \A n \in a + 1 .. b : \E i \in DOMAIN s : Of(s[i], w) /\ s[i].val = n
  /\ \A i, j \in DOMAIN s :
       i < j /\ Of(s[i], w) /\ Of(s[j], w) => s[i].val < s[j].val

\* No line of w is before the i-th entry.
NoneBefore(s, w, i) == \A j \in 1 .. i - 1 : ~Of(s[j], w)

LEMMA CarriesNothing ==
  ASSUME NEW a \in Nat, NEW w, NEW s, DOMAIN s = {} PROVE Carries(s, w, a, a)
BY DEF Carries

\* A line behind the last one.
LEMMA AppendLine ==
  ASSUME NEW S, NEW w, NEW s \in Seq(S), NEW a \in Nat, NEW b \in Nat, a <= b,
         NEW m \in S, Of(m, w), m.val = b + 1, Carries(s, w, a, b)
  PROVE  Carries(Append(s, m), w, a, b + 1)
<1> DEFINE t == Append(s, m)
<1>1. /\ Len(s) \in Nat /\ DOMAIN s = 1 .. Len(s) /\ DOMAIN t = 1 .. Len(s) + 1
      /\ \A i \in 1 .. Len(s) : t[i] = s[i]
      /\ t[Len(s) + 1] = m
  BY AppendProperties, LenProperties
<1> HIDE DEF t
<1>2. \A i \in DOMAIN t : Of(t[i], w) => t[i].val \in a + 1 .. b + 1
  BY <1>1 DEF Carries
<1>3. ASSUME NEW n \in a + 1 .. b + 1
      PROVE  \E i \in DOMAIN t : Of(t[i], w) /\ t[i].val = n
  <2>1. CASE n = b + 1 BY <1>1, <2>1
  <2>2. CASE n # b + 1 BY <1>1, <2>2 DEF Carries
  <2> QED BY <2>1, <2>2
<1>4. \A i, j \in DOMAIN t :
        i < j /\ Of(t[i], w) /\ Of(t[j], w) => t[i].val < t[j].val
  <2> SUFFICES ASSUME NEW i \in DOMAIN t, NEW j \in DOMAIN t, i < j,
                      Of(t[i], w), Of(t[j], w)
               PROVE  t[i].val < t[j].val
    OBVIOUS
  <2>1. i \in DOMAIN s /\ t[i] = s[i] BY <1>1
  <2>2. s[i].val \in a + 1 .. b BY <2>1 DEF Carries
  <2>3. CASE j = Len(s) + 1 BY <1>1, <2>1, <2>2, <2>3
  <2>4. CASE j # Len(s) + 1 BY <1>1, <2>1, <2>4 DEF Carries
  <2> QED BY <2>3, <2>4
<1> QED BY <1>2, <1>3, <1>4 DEF Carries, t

\* Anything else.
LEMMA AppendOther ==
  ASSUME NEW S, NEW w, NEW s \in Seq(S), NEW a, NEW b,
         NEW m \in S, ~Of(m, w), Carries(s, w, a, b)
  PROVE  Carries(Append(s, m), w, a, b)
<1> DEFINE t == Append(s, m)
<1>1. /\ Len(s) \in Nat /\ DOMAIN s = 1 .. Len(s) /\ DOMAIN t = 1 .. Len(s) + 1
      /\ \A i \in 1 .. Len(s) : t[i] = s[i]
      /\ t[Len(s) + 1] = m
  BY AppendProperties, LenProperties
<1> HIDE DEF t
<1>2. \A i \in DOMAIN t : Of(t[i], w) => i \in DOMAIN s /\ t[i] = s[i] BY <1>1
<1>3. \A i \in DOMAIN s : i \in DOMAIN t /\ t[i] = s[i] BY <1>1
<1>4. Carries(t, w, a, b) BY <1>2, <1>3 DEF Carries
<1> QED BY <1>4 DEF t

\* The first line leaves.
LEMMA RemoveLine ==
  ASSUME NEW S, NEW w, NEW s \in Seq(S), NEW a \in Nat, NEW b \in Nat,
         Carries(s, w, a, b), NEW i \in DOMAIN s, Of(s[i], w),
         NoneBefore(s, w, i)
  PROVE  s[i].val = a + 1 /\ a + 1 <= b /\ Carries(RemoveAt(s, i), w, a + 1, b)
<1> DEFINE t == RemoveAt(s, i)
<1>1. /\ Len(s) \in Nat /\ DOMAIN s = 1 .. Len(s) /\ DOMAIN t = 1 .. Len(s) - 1
      /\ \A j \in 1 .. Len(s) - 1 : t[j] = IF j < i THEN s[j] ELSE s[j + 1]
  BY RemoveAtProperties, LenProperties
<1> HIDE DEF t
<1>2. s[i].val \in a + 1 .. b BY DEF Carries
<1>3. s[i].val = a + 1
  <2>1. PICK k \in DOMAIN s : Of(s[k], w) /\ s[k].val = a + 1
    BY <1>2 DEF Carries
  <2>2. ~(k < i) BY <1>1, <2>1 DEF NoneBefore
  <2>3. ~(i < k) BY <1>2, <2>1 DEF Carries
  <2> QED BY <1>1, <2>1, <2>2, <2>3
<1>4. \A j \in DOMAIN t : Of(t[j], w) =>
        ~(j < i) /\ j + 1 \in DOMAIN s /\ t[j] = s[j + 1] /\ i < j + 1
  BY <1>1 DEF NoneBefore
<1>5. \A j \in DOMAIN t : Of(t[j], w) => t[j].val \in a + 2 .. b
  BY <1>1, <1>2, <1>3, <1>4 DEF Carries
<1>6. ASSUME NEW n \in a + 2 .. b
      PROVE  \E j \in DOMAIN t : Of(t[j], w) /\ t[j].val = n
  <2>1. PICK k \in DOMAIN s : Of(s[k], w) /\ s[k].val = n BY DEF Carries
  <2>2. k # i BY <1>3, <2>1
  <2>3. i < k BY <1>1, <2>1, <2>2 DEF NoneBefore
  <2>4. k - 1 \in DOMAIN t /\ t[k - 1] = s[k] BY <1>1, <2>3
  <2> QED BY <2>1, <2>4
<1>7. \A j, k \in DOMAIN t :
        j < k /\ Of(t[j], w) /\ Of(t[k], w) => t[j].val < t[k].val
  BY <1>1, <1>4 DEF Carries
<1>8. a + 1 + 1 = a + 2 OBVIOUS
<1>9. Carries(t, w, a + 1, b) BY <1>5, <1>6, <1>7, <1>8 DEF Carries
<1> QED BY <1>2, <1>3, <1>9 DEF t

\* An entry that is no line leaves.
LEMMA RemoveOther ==
  ASSUME NEW S, NEW w, NEW s \in Seq(S), NEW a, NEW b,
         Carries(s, w, a, b), NEW i \in DOMAIN s, ~Of(s[i], w)
  PROVE  Carries(RemoveAt(s, i), w, a, b)
<1> DEFINE t == RemoveAt(s, i)
           from(j) == IF j < i THEN j ELSE j + 1
           to(k) == IF k < i THEN k ELSE k - 1
<1>1. /\ Len(s) \in Nat /\ DOMAIN s = 1 .. Len(s) /\ DOMAIN t = 1 .. Len(s) - 1
      /\ \A j \in 1 .. Len(s) - 1 : t[j] = IF j < i THEN s[j] ELSE s[j + 1]
  BY RemoveAtProperties, LenProperties
<1> HIDE DEF t
<1>2. \A j \in DOMAIN t : from(j) \in DOMAIN s /\ t[j] = s[from(j)] BY <1>1
<1>3. \A k \in DOMAIN s : Of(s[k], w) => to(k) \in DOMAIN t /\ t[to(k)] = s[k]
  BY <1>1
<1>4. \A j, k \in DOMAIN t : j < k => from(j) < from(k) BY <1>1
<1> HIDE DEF from, to
<1>5. Carries(t, w, a, b) BY <1>2, <1>3, <1>4 DEF Carries
<1> QED BY <1>5 DEF t

\* The head leaves.
LEMMA TailIsRemoval ==
  ASSUME NEW S, NEW s \in Seq(S), s # <<>>
  PROVE  /\ 1 \in DOMAIN s /\ Head(s) = s[1]
         /\ Tail(s) = RemoveAt(s, 1)
<1>1. Len(s) \in Nat \ {0} /\ DOMAIN s = 1 .. Len(s) BY EmptySeq, LenProperties
<1>0. 1 \in DOMAIN s BY <1>1
<1>2. Head(s) = s[1] BY <1>1
<1>3. /\ Tail(s) \in Seq(S) /\ Len(Tail(s)) = Len(s) - 1
      /\ \A i \in 1 .. Len(s) - 1 : Tail(s)[i] = s[i + 1]
  BY <1>1, HeadTailProperties
<1>4. /\ RemoveAt(s, 1) \in Seq(S) /\ Len(RemoveAt(s, 1)) = Len(s) - 1
      /\ \A j \in 1 .. Len(s) - 1 :
           RemoveAt(s, 1)[j] = IF j < 1 THEN s[j] ELSE s[j + 1]
  BY <1>0, RemoveAtProperties
<1>5. \A j \in 1 .. Len(s) - 1 : RemoveAt(s, 1)[j] = Tail(s)[j]
  BY <1>1, <1>3, <1>4
<1> QED BY <1>1, <1>0, <1>2, <1>3, <1>4, <1>5, SeqEqual

-----------------------------------------------------------------------------
(* Types.                                                                  *)

LEMMA Messages ==
  /\ \A w \in Clients : \A n \in 1 .. MaxLines[w] :
       /\ Line(w, n) \in Message /\ Line(w, n).type = 1
       /\ Line(w, n).username = w /\ Line(w, n).val = n
  /\ Connected \in Message /\ Connected.type = 5
  /\ Bye \in Message /\ Bye.type = 6
  /\ \A m \in Message :
       \/ \E w \in Clients : \E n \in 1 .. MaxLines[w] : m = Line(w, n)
       \/ m = Connected \/ m = Bye
BY DEF Message, Lines, Line, Connected, Bye

LEMMA Entries ==
  /\ \A w \in Clients : \A n \in 1 .. MaxLines[w] : Line(w, n) \in Entry
  /\ \A k \in {0, 1} :
       Signal(k) \in Entry /\ Signal(k).type = 3 /\ Signal(k).val = k
  /\ \A e \in Entry :
       \/ \E w \in Clients : \E n \in 1 .. MaxLines[w] : e = Line(w, n)
       \/ e = Signal(0) \/ e = Signal(1)
BY DEF Entry, Lines, Line, Signal

\* What the receiver passes on: never the message 6, whose text ends it.
Passing == \A c \in Clients : receiver[c] = "put" => item[c] # Bye

\* What is broadcast is a line.
Sends == \A w \in Clients : Sending(w) => line[w] # 0

TypeInv == TypeOK /\ Passing /\ Sends

LEMMA PassedEntry ==
  ASSUME NEW m \in Message, m # Bye
  PROVE  /\ Passed(m) \in Entry \ {Signal(0)}
         /\ \/ m.type = 1 /\ Passed(m) = m
            \/ m.type # 1 /\ Passed(m).type # 1
<1>1. CASE \E w \in Clients : \E n \in 1 .. MaxLines[w] : m = Line(w, n)
  <2>1. m.type = 1 /\ m \in Entry /\ m # Signal(0)
    BY <1>1, Messages, Entries DEF Line, Signal
  <2> QED BY <2>1 DEF Passed
<1>2. CASE m = Connected BY <1>2 DEF Passed, Connected, Entry, Signal
<1> QED BY <1>1, <1>2, Messages

LEMMA SendTypes ==
  ASSUME TypeOK, NEW c \in Clients, NEW m \in Message, CanSend(c), SendTo(c, m)
  PROVE  StreamType'
<1>1. stream[c] \in Seq(Message) BY DEF TypeOK, StreamType
<1>2. /\ Append(stream[c], m) \in Seq(Message)
      /\ Len(Append(stream[c], m)) = Len(stream[c]) + 1 /\ Len(stream[c]) \in Nat
  BY <1>1, AppendProperties, LenProperties
<1>3. Len(Append(stream[c], m)) <= StreamMax BY <1>2, BoundAssumption DEF CanSend
<1> QED BY <1>2, <1>3 DEF TypeOK, StreamType, SendTo

LEMMA MsgsndTypes ==
  ASSUME TypeOK, NEW c \in Clients, NEW e \in Entry, Msgsnd(c, e)
  PROVE  QueueType'
<1>1. queue[c] \in Seq(Entry) BY DEF TypeOK, QueueType
<1>2. /\ Append(queue[c], e) \in Seq(Entry)
      /\ Len(Append(queue[c], e)) = Len(queue[c]) + 1 /\ Len(queue[c]) \in Nat
  BY <1>1, AppendProperties, LenProperties
<1>3. CASE UNCHANGED queue BY <1>3 DEF TypeOK, QueueType
<1>4. CASE ~(UNCHANGED queue)
  <2>1. Len(Append(queue[c], e)) <= QueueMax
    BY <1>2, <1>4, BoundAssumption DEF Msgsnd
  <2> QED BY <1>2, <1>4, <2>1 DEF TypeOK, QueueType, Msgsnd
<1> QED BY <1>3, <1>4

LEMMA TakeTypes ==
  ASSUME TypeOK, NEW c \in Clients, NEW i \in DOMAIN queue[c], Take(c, i)
  PROVE  QueueType'
<1>1. queue[c] \in Seq(Entry) BY DEF TypeOK, QueueType
<1>2. /\ RemoveAt(queue[c], i) \in Seq(Entry)
      /\ Len(RemoveAt(queue[c], i)) = Len(queue[c]) - 1 /\ Len(queue[c]) \in Nat
  BY <1>1, RemoveAtProperties, LenProperties
<1>3. Len(RemoveAt(queue[c], i)) <= QueueMax
  BY <1>2, BoundAssumption DEF TypeOK, QueueType
<1> QED BY <1>2, <1>3 DEF TypeOK, QueueType, Take

LEMMA EmptiedTypes ==
  ASSUME TypeOK, NEW c \in Clients
  PROVE  /\ Discard(c) => StreamType'
         /\ RemoveQueue(c) => QueueType'
<1>1. \A S : <<>> \in Seq(S) /\ Len(<<>>) = 0 BY EmptySeq
<1>2. Discard(c) => StreamType'
  BY <1>1, BoundAssumption DEF Discard, TypeOK, StreamType
<1>3. RemoveQueue(c) => QueueType'
  BY <1>1, BoundAssumption DEF RemoveQueue, TypeOK, QueueType
<1> QED BY <1>2, <1>3

LEMMA DiesTypes ==
  ASSUME TypeInv, NEW c \in Clients, NEW how \in {"ended", "killed"}, Dies(c, how),
         removed' \in [Clients -> BOOLEAN]
  PROVE  StreamType' /\ ClientType' /\ Passing'
<1>1. StreamType' BY EmptiedTypes DEF Dies, TypeInv
<1>2. ClientType' /\ Passing' BY DEF Dies, TypeInv, TypeOK, ClientType, Passing
<1> QED BY <1>1, <1>2

LEMMA RecvTypes ==
  ASSUME TypeOK, NEW c \in Clients, Recv(c)
  PROVE  /\ StreamType' /\ item' \in [Clients -> Message]
         /\ stream[c] \in Seq(Message) /\ stream[c] # <<>>
         /\ item'[c] = stream[c][1]
<1>1. stream[c] \in Seq(Message) /\ stream[c] # <<>>
  BY DEF TypeOK, StreamType, Recv
<1>2. /\ Head(stream[c]) = stream[c][1] /\ Head(stream[c]) \in Message
      /\ Tail(stream[c]) \in Seq(Message)
      /\ Len(Tail(stream[c])) = Len(stream[c]) - 1 /\ Len(stream[c]) \in Nat
  BY <1>1, HeadTailProperties, TailIsRemoval, LenProperties
<1>3. Len(Tail(stream[c])) <= StreamMax
  BY <1>2, BoundAssumption DEF TypeOK, StreamType
<1>4. StreamType' BY <1>2, <1>3 DEF TypeOK, StreamType, Recv
<1>5. item' \in [Clients -> Message] /\ item'[c] = stream[c][1]
  BY <1>2 DEF TypeOK, ClientType, Recv
<1> QED BY <1>1, <1>4, <1>5

LEMMA InitTypes == Init => TypeInv
<1> SUFFICES ASSUME Init PROVE TypeInv OBVIOUS
<1>1. <<Connected>> \in Seq(Message) /\ Len(<<Connected>>) = 1 BY Messages
<1>2. Len(Order) \in Nat BY OrderAssumption, LenProperties
<1>3. ServerType /\ ClientType
  BY <1>2, Messages, BoundAssumption DEF Init, ServerType, ClientType
<1>4. StreamType BY <1>1, BoundAssumption DEF Init, StreamType
<1>5. QueueType /\ BoardType
  BY EmptySeq, BoundAssumption DEF Init, QueueType, BoardType
<1>6. Passing /\ Sends BY DEF Init, Passing, Sends, Sending
<1> QED BY <1>3, <1>4, <1>5, <1>6 DEF TypeInv, TypeOK

LEMMA ServerTypes ==
  ASSUME TypeInv, NEW w \in Clients, Server(w)
  PROVE  TypeInv'
<1> USE DEF TypeInv, TypeOK
<1>1. ClientType' /\ QueueType' /\ BoardType' /\ Passing'
  BY DEF Server, Broadcast, Send, Forget, clientVars, queueVars, boardVars,
         ClientType, QueueType, BoardType, Passing
<1>0. Len(Order) \in Nat BY OrderAssumption, LenProperties
<1>2. CASE Broadcast(w)
  <2>0. line[w] \in Nat /\ MaxLines[w] \in Nat
    BY BoundAssumption DEF ServerType
  <2>1. line[w] \in Nat /\ MaxLines[w] \in Nat /\ line[w] + 1 <= MaxLines[w]
    BY <1>2, <2>0 DEF Broadcast
  <2>2. ServerType' BY <1>0, <1>2, <2>1 DEF Broadcast, ServerType
  <2>3. Sends' BY <1>2, <2>1 DEF Broadcast, ServerType, Sends, Sending
  <2> QED BY <1>1, <1>2, <2>2, <2>3 DEF Broadcast, StreamType
<1>3. CASE Send(w)
  <2>1. Order[next[w]] \in Clients
    BY <1>0, <1>3, OrderAssumption, LenProperties DEF Send, Sending, ServerType
  <2>2. next[w] \in 1 .. Len(Order) /\ next' = [next EXCEPT ![w] = @ + 1]
    BY <1>0, <1>3 DEF Send, Sending, ServerType
  <2>3. ServerType' BY <1>0, <1>3, <2>2 DEF Send, ServerType
  <2>4. Sends' BY <1>0, <1>3, <2>2 DEF Send, Sending, ServerType, Sends
  <2>5. StreamType'
    <3>1. CASE UNCHANGED stream BY <3>1 DEF StreamType
    <3>2. CASE ~(UNCHANGED stream)
      <4>1. CanSend(Order[next[w]]) /\ SendTo(Order[next[w]], Line(w, line[w]))
        BY <1>3, <3>2 DEF Send
      <4>2. line[w] \in 1 .. MaxLines[w]
        BY <1>3, BoundAssumption DEF Send, ServerType, Sends
      <4>3. Line(w, line[w]) \in Message BY <4>2, Messages
      <4> QED BY <2>1, <4>1, <4>3, SendTypes
    <3> QED BY <3>1, <3>2
  <2> QED BY <1>1, <2>3, <2>4, <2>5
<1>4. CASE Forget(w)
  <2>1. ServerType' /\ Sends' BY <1>4 DEF Forget, ServerType, Sends, Sending
  <2>2. CASE UNCHANGED stream BY <1>1, <2>1, <2>2 DEF StreamType
  <2>3. CASE ~(UNCHANGED stream)
    BY <1>1, <1>4, <2>1, <2>3, SendTypes, Messages DEF Forget
  <2> QED BY <2>2, <2>3
<1> QED BY <1>2, <1>3, <1>4 DEF Server

LEMMA ClientTypes ==
  ASSUME TypeInv, NEW c \in Clients,
         User(c) \/ Recv(c) \/ Put(c) \/ MainStep(c) \/ HandlerStep(c)
  PROVE  TypeInv'
<1> USE DEF TypeInv, TypeOK
<1>0. Sends'
  BY DEF User, Leave, Interrupt, Killed, Abandon, Recv, Put, MainStep,
         HandlerStep, serverVars, Sends, Sending
<1>1. CASE User(c)
  <2>1. QueueType' /\ ServerType' /\ BoardType'
    BY <1>1
    DEF User, Leave, Interrupt, Killed, Abandon, Becomes, serverVars, queueVars,
        boardVars, ServerType, QueueType, BoardType
  <2>2. CASE Killed(c)
    <3>1. removed' \in [Clients -> BOOLEAN]
      BY <2>2 DEF Killed, queueVars, ClientType
    <3> QED BY <1>0, <2>1, <2>2, <3>1, DiesTypes DEF Killed
  <2>3. CASE Leave(c)
    <3>1. UNCHANGED stream \/ Discard(c) BY <2>3 DEF Leave
    <3>2. StreamType' BY <3>1, EmptiedTypes DEF StreamType
    <3>3. ClientType' /\ Passing' BY <2>3 DEF Leave, queueVars, ClientType, Passing
    <3> QED BY <1>0, <2>1, <3>2, <3>3
  <2>4. CASE Interrupt(c) \/ Abandon(c)
    BY <1>0, <2>1, <2>4
    DEF Interrupt, Abandon, clientVars, queueVars, StreamType, ClientType, Passing
  <2> QED BY <1>1, <2>2, <2>3, <2>4 DEF User
<1>2. CASE Recv(c)
  <2>1. receiver' \in [Clients -> {"recv", "put", "done"}] /\ Passing'
    BY <1>2 DEF Recv, ClientType, Passing
  <2> QED
    BY <1>0, <1>2, <2>1, RecvTypes
    DEF Recv, serverVars, queueVars, boardVars, ServerType, ClientType, QueueType,
        BoardType
<1>3. CASE Put(c)
  <2>1. Passed(item[c]) \in Entry
    BY <1>3, PassedEntry DEF Put, Passing, ClientType
  <2>2. QueueType' BY <1>3, <2>1, MsgsndTypes DEF Put
  <2>3. StreamType' BY <1>3, EmptiedTypes DEF Put, StreamType
  <2> QED
    BY <1>0, <1>3, <2>2, <2>3
    DEF Put, serverVars, boardVars, ServerType, ClientType, BoardType, Passing
<1>4. CASE MainStep(c) \/ HandlerStep(c)
  <2>1. ServerType' /\ BoardType'
    BY <1>4 DEF MainStep, HandlerStep, serverVars, boardVars, ServerType, BoardType
  <2>2. CASE RemoveQueue(c) /\ Dies(c, "ended")
    <3>1. removed' \in [Clients -> BOOLEAN] BY <2>2 DEF RemoveQueue, ClientType
    <3> QED BY <1>0, <2>1, <2>2, <3>1, DiesTypes, EmptiedTypes
  <2>3. CASE ~(RemoveQueue(c) /\ Dies(c, "ended"))
    <3>1. Msgsnd(c, Signal(0)) BY <1>4, <2>3 DEF MainStep, HandlerStep
    <3>2. QueueType' BY <3>1, MsgsndTypes, Entries
    <3>3. StreamType' /\ ClientType' /\ Passing'
      BY <1>4, <2>3 DEF MainStep, HandlerStep, StreamType, ClientType, Passing
    <3> QED BY <1>0, <2>1, <3>2, <3>3
  <2> QED BY <2>2, <2>3
<1> QED BY <1>1, <1>2, <1>3, <1>4

LEMMA BoardTypes ==
  ASSUME TypeInv, NEW c \in Clients,
         CollectMessages(c) \/ CollectSignals(c) \/ BoardMain(c)
  PROVE  TypeInv'
<1> USE DEF TypeInv, TypeOK
<1>1. ServerType' /\ StreamType' /\ ClientType' /\ Passing' /\ Sends'
  BY DEF CollectMessages, CollectSignals, BoardMain, serverVars, clientVars,
         queueVars, ServerType, StreamType, ClientType, Passing, Sends, Sending
<1>2. CASE CollectMessages(c)
  <2>1. PICK i \in DOMAIN queue[c] :
          /\ First(c, 1, i) /\ Take(c, i)
          /\ shown' = [shown EXCEPT ![c][queue[c][i].username] =
                         Append(@, queue[c][i].val)]
    BY <1>2 DEF CollectMessages
  <2>2. queue[c][i] \in Entry BY LenProperties DEF QueueType
  <2>3. queue[c][i].username \in Clients /\ queue[c][i].val \in Nat
    BY <2>1, <2>2, Entries, Messages DEF First
  <2>4. shown' \in [Clients -> [Clients -> Seq(Nat)]]
    BY <2>1, <2>3, AppendProperties DEF BoardType
  <2> QED BY <1>1, <1>2, <2>1, <2>4, TakeTypes DEF CollectMessages, BoardType
<1>3. CASE CollectSignals(c)
  <2>1. QueueType' BY <1>3, TakeTypes DEF CollectSignals, QueueType
  <2>2. BoardType' BY <1>3 DEF CollectSignals, Becomes, BoardType
  <2> QED BY <1>1, <2>1, <2>2
<1>4. CASE BoardMain(c)
  BY <1>1, <1>4 DEF BoardMain, Becomes, queueVars, QueueType, BoardType
<1> QED BY <1>2, <1>3, <1>4

LEMMA Types == TypeInv /\ [Next]_vars => TypeInv'
<1> SUFFICES ASSUME TypeInv, [Next]_vars PROVE TypeInv' OBVIOUS
<1>1. CASE UNCHANGED vars
  BY <1>1
  DEF vars, serverVars, clientVars, queueVars, boardVars, TypeInv, TypeOK,
      ServerType, StreamType, ClientType, QueueType, BoardType, Passing, Sends,
      Sending
<1>2. CASE Next
  BY <1>2, ServerTypes, ClientTypes, BoardTypes DEF Next, System
<1> QED BY <1>1, <1>2

\* Every variable keeps its type, and no buffer holds more than it can
\* (client_methods.c:6-22, threads.c:10-67, client/main.c:51-91).
THEOREM TypeCorrect == Spec => []TypeOK
<1>1. TypeInv => TypeOK BY DEF TypeInv
<1> QED BY InitTypes, Types, <1>1, PTL DEF Spec

-----------------------------------------------------------------------------
(* The end of a client and of its board.                                   *)

Ending(c) == main[c] # "typing" \/ handler[c] # "idle"

\* STOP, the removal of the queue and the end of a board tell of a client that
\* is ending, if it is not its user who closed the board.
EndOf(c) ==
  /\ removed[c] => main[c] = "ended" /\ receiver[c] = "done"
  /\ \A i \in DOMAIN queue[c] : queue[c][i] = Signal(0) => Ending(c)
  /\ board[c] # "open" => c \in abandoned \/ Ending(c)

EndInv == \A c \in Clients : EndOf(c)

LEMMA InitEnds == Init => EndInv
BY DEF Init, EndInv, EndOf

\* The queue of c after a msgsnd.
LEMMA MsgsndQueue ==
  ASSUME TypeInv, NEW c \in Clients, NEW e \in Entry, Msgsnd(c, e)
  PROVE  /\ \A d \in Clients \ {c} : queue'[d] = queue[d]
         /\ queue'[c] = IF removed[c] THEN queue[c] ELSE Append(queue[c], e)
         /\ \A i \in DOMAIN queue'[c] :
              queue'[c][i] = e \/ (i \in DOMAIN queue[c] /\ queue'[c][i] = queue[c][i])
<1>1. queue \in [Clients -> Seq(Entry)] BY DEF TypeInv, TypeOK, QueueType
<1>2. /\ DOMAIN Append(queue[c], e) = 1 .. Len(queue[c]) + 1
      /\ DOMAIN queue[c] = 1 .. Len(queue[c]) /\ Len(queue[c]) \in Nat
      /\ \A i \in 1 .. Len(queue[c]) : Append(queue[c], e)[i] = queue[c][i]
      /\ Append(queue[c], e)[Len(queue[c]) + 1] = e
  BY <1>1, AppendProperties, LenProperties
<1>3. /\ \A d \in Clients \ {c} : queue'[d] = queue[d]
      /\ queue'[c] = IF removed[c] THEN queue[c] ELSE Append(queue[c], e)
  BY <1>1 DEF Msgsnd
<1> QED BY <1>2, <1>3

\* The queue of c after a msgrcv.
LEMMA TakeQueue ==
  ASSUME TypeInv, NEW c \in Clients, NEW i \in DOMAIN queue[c], Take(c, i)
  PROVE  /\ \A d \in Clients \ {c} : queue'[d] = queue[d]
         /\ queue'[c] = RemoveAt(queue[c], i)
         /\ \A j \in DOMAIN queue'[c] :
           \E k \in DOMAIN queue[c] : queue'[c][j] = queue[c][k]
<1>1. queue \in [Clients -> Seq(Entry)] BY DEF TypeInv, TypeOK, QueueType
<1>2. /\ \A d \in Clients \ {c} : queue'[d] = queue[d]
      /\ queue'[c] = RemoveAt(queue[c], i)
  BY <1>1 DEF Take
<1>3. /\ DOMAIN RemoveAt(queue[c], i) = 1 .. Len(queue[c]) - 1
      /\ DOMAIN queue[c] = 1 .. Len(queue[c]) /\ Len(queue[c]) \in Nat
      /\ \A j \in 1 .. Len(queue[c]) - 1 :
           RemoveAt(queue[c], i)[j] = IF j < i THEN queue[c][j] ELSE queue[c][j + 1]
  BY <1>1, RemoveAtProperties, LenProperties
<1>4. ASSUME NEW j \in DOMAIN RemoveAt(queue[c], i)
      PROVE  \E k \in DOMAIN queue[c] : RemoveAt(queue[c], i)[j] = queue[c][k]
  <2>1. CASE j < i BY <1>3, <2>1
  <2>2. CASE ~(j < i)
    <3>1. j + 1 \in DOMAIN queue[c] BY <1>3
    <3> QED BY <1>3, <2>2, <3>1
  <2> QED BY <2>1, <2>2
<1> QED BY <1>2, <1>4

LEMMA Ends == TypeInv /\ EndInv /\ [Next]_vars => EndInv'
<1> SUFFICES ASSUME TypeInv, EndInv, [Next]_vars, NEW c \in Clients
             PROVE  EndOf(c)'
  BY DEF EndInv
<1> USE DEF EndOf, Ending
<1>0. EndOf(c) BY DEF EndInv
<1>1. CASE UNCHANGED <<queueVars, boardVars, main, handler, receiver>>
  BY <1>0, <1>1 DEF queueVars, boardVars
<1>2. ASSUME NEW d \in Clients, Leave(d) \/ Interrupt(d) \/ Killed(d)
      PROVE  EndOf(c)'
  BY <1>0, <1>2
  DEF Leave, Interrupt, Killed, Dies, queueVars, boardVars, Alive, TypeInv, TypeOK,
      ClientType
<1>3. ASSUME NEW d \in Clients, Abandon(d) PROVE EndOf(c)'
  BY <1>0, <1>3
  DEF Abandon, Becomes, clientVars, queueVars, TypeInv, TypeOK, BoardType
<1>4. ASSUME NEW d \in Clients, Put(d) PROVE EndOf(c)'
  <2>1. /\ Msgsnd(d, Passed(item[d])) /\ Passed(item[d]) \in Entry \ {Signal(0)}
        /\ UNCHANGED <<main, handler, removed, boardVars>>
    BY <1>4, PassedEntry DEF Put, TypeInv, TypeOK, ClientType, Passing
  <2>2. removed[c] => receiver'[c] = "done"
    BY <1>0, <1>4 DEF Put, TypeInv, TypeOK, ClientType
  <2> QED BY <1>0, <2>1, <2>2, MsgsndQueue DEF boardVars
<1>5. ASSUME NEW d \in Clients, MainStep(d) \/ HandlerStep(d) PROVE EndOf(c)'
  <2>1. UNCHANGED boardVars /\ Ending(d)' /\ (Ending(c) => Ending(c)')
    BY <1>5 DEF MainStep, HandlerStep, Dies, TypeInv, TypeOK, ClientType
  <2>2. CASE RemoveQueue(d) /\ Dies(d, "ended")
    <3>1. removed'[c] => main'[c] = "ended" /\ receiver'[c] = "done"
      BY <1>0, <2>2 DEF RemoveQueue, Dies, TypeInv, TypeOK, ClientType
    <3>2. \A i \in DOMAIN queue'[c] :
            i \in DOMAIN queue[c] /\ queue'[c][i] = queue[c][i]
      BY <2>2 DEF RemoveQueue, TypeInv, TypeOK, QueueType
    <3> QED BY <1>0, <2>1, <3>1, <3>2 DEF boardVars
  <2>3. CASE ~(RemoveQueue(d) /\ Dies(d, "ended"))
    <3>1. Msgsnd(d, Signal(0)) /\ UNCHANGED removed
      BY <1>5, <2>3 DEF MainStep, HandlerStep
    <3>2. removed'[c] => main'[c] = "ended" /\ receiver'[c] = "done"
      BY <1>0, <1>5, <2>3, <3>1
      DEF MainStep, HandlerStep, TypeInv, TypeOK, ClientType
    <3>3. ASSUME NEW i \in DOMAIN queue'[c], queue'[c][i] = Signal(0)
          PROVE  Ending(c)'
      BY <1>0, <2>1, <3>1, <3>3, MsgsndQueue, Entries
    <3> QED BY <1>0, <2>1, <3>2, <3>3 DEF boardVars
  <2> QED BY <2>2, <2>3
<1>6. ASSUME NEW d \in Clients, CollectMessages(d) PROVE EndOf(c)'
  <2>1. PICK i \in DOMAIN queue[d] : Take(d, i) BY <1>6 DEF CollectMessages
  <2> QED BY <1>0, <1>6, <2>1, TakeQueue DEF CollectMessages, clientVars
<1>7. ASSUME NEW d \in Clients, CollectSignals(d) PROVE EndOf(c)'
  <2>1. CASE removed[d]
    BY <1>0, <1>7, <2>1
    DEF CollectSignals, First, Becomes, clientVars, TypeInv, TypeOK, BoardType
  <2>2. CASE ~removed[d]
    <3>1. PICK i \in DOMAIN queue[d] :
            /\ First(d, 3, i) /\ Take(d, i)
            /\ Becomes(d, IF queue[d][i].val = 0 THEN "closing" ELSE "open")
      BY <1>7, <2>2 DEF CollectSignals
    <3>2. queue[d][i] \in Entry BY LenProperties DEF TypeInv, TypeOK, QueueType
    <3>3. queue[d][i].val = 0 => queue[d][i] = Signal(0)
      BY <3>1, <3>2, Entries, Messages DEF First
    <3>4. UNCHANGED <<clientVars, removed, abandoned>> BY <1>7 DEF CollectSignals
    <3>5. board'[c] # "open" => board[c] # "open" \/ (c = d /\ queue[d][i].val = 0)
      BY <3>1 DEF Becomes, TypeInv, TypeOK, BoardType
    <3>6. \A j \in DOMAIN queue'[c] :
           \E k \in DOMAIN queue[c] : queue'[c][j] = queue[c][k]
      BY <3>1, TakeQueue
    <3> QED BY <1>0, <3>3, <3>4, <3>5, <3>6 DEF clientVars
  <2> QED BY <2>1, <2>2
<1>8. ASSUME NEW d \in Clients, BoardMain(d) PROVE EndOf(c)'
  BY <1>0, <1>8
  DEF BoardMain, Becomes, clientVars, queueVars, TypeInv, TypeOK, BoardType
<1>9. ASSUME NEW d \in Clients, Recv(d) PROVE EndOf(c)'
  BY <1>0, <1>9
  DEF Recv, queueVars, boardVars, TypeInv, TypeOK, ClientType
<1>10. CASE \E d \in Clients : Server(d)
  BY <1>1, <1>10 DEF Server, Broadcast, Send, Forget, clientVars
<1> QED
  BY <1>1, <1>2, <1>3, <1>4, <1>5, <1>6, <1>7, <1>8, <1>9, <1>10
  DEF Next, User, System, vars, clientVars

\* A board ends only with its client or by its own user, whatever is sent to it
\* (threads.c:51-60, client_methods.c:6-22).
THEOREM BoardsOutlive == Spec => []BoardOutlivesChat
<1>1. EndInv => BoardOutlivesChat BY DEF EndInv, EndOf, Ending, BoardOutlivesChat
<1> QED BY InitTypes, Types, InitEnds, Ends, <1>1, PTL DEF Spec

-----------------------------------------------------------------------------
(* The course of the lines.                                                *)

InTable(c) == \E i \in DOMAIN Order : Order[i] = c

\* The last line of w that was sent to each client in the table.
Through(c, w) ==
  IF \E i \in next[w] .. Len(Order) : Order[i] = c THEN line[w] - 1 ELSE line[w]

\* Of the lines of w, those up to the a-th have come to the queue of c, those up
\* to the b-th to its receiver, those up to the t-th to the connection.
Course(c, w, a, b, t) ==
  /\ Len(shown[c][w]) <= a /\ a <= b /\ b <= t
  /\ Carries(queue[c], w, Len(shown[c][w]), a)
  /\ IF receiver[c] = "put" /\ Of(item[c], w)
       THEN item[c].val = b /\ b = a + 1 ELSE b = a
  /\ Carries(stream[c], w, b, t)
  /\ member[c] /\ ~Released(c) /\ InTable(c) => t = Through(c, w)

InOrder(c, w) ==
  /\ shown[c][w] = [n \in 1 .. Len(shown[c][w]) |-> n]
  /\ \E a, b, t \in Nat : Course(c, w, a, b, t)

CourseInv == \A c, w \in Clients : InOrder(c, w)

LEMMA InitCourse == Init => CourseInv
<1> SUFFICES ASSUME Init, NEW c \in Clients, NEW w \in Clients PROVE InOrder(c, w)
  BY DEF CourseInv
<1>1. shown[c][w] = <<>> /\ queue[c] = <<>> /\ Len(<<>>) = 0 /\ DOMAIN <<>> = {}
  BY DEF Init
<1>2. shown[c][w] = [n \in 1 .. Len(shown[c][w]) |-> n] BY <1>1
<1>3. Carries(queue[c], w, 0, 0) BY <1>1, CarriesNothing
<1>4. Carries(stream[c], w, 0, 0)
  <2>1. stream[c] = <<Connected>> BY DEF Init
  <2>2. \A i \in DOMAIN <<Connected>> : ~Of(<<Connected>>[i], w)
    BY Messages DEF Of
  <2> QED BY <2>1, <2>2 DEF Carries
<1>5. receiver[c] = "recv" BY DEF Init
<1>6. Through(c, w) = 0 BY OrderAssumption, LenProperties DEF Init, Through
<1>7. Course(c, w, 0, 0, 0) BY <1>1, <1>3, <1>4, <1>5, <1>6 DEF Course
<1> QED BY <1>2, <1>7 DEF InOrder

\* The connection of a client does not come back.
LEMMA ReleasedStays ==
  ASSUME TypeInv, [Next]_vars, NEW c \in Clients, Released(c) PROVE Released(c)'
<1> USE DEF Released, TypeInv, TypeOK, ClientType
<1>1. CASE UNCHANGED clientVars BY <1>1 DEF clientVars
<1>2. ASSUME NEW d \in Clients, Leave(d) \/ Interrupt(d) \/ Killed(d)
      PROVE  Released(c)'
  BY <1>2 DEF Leave, Interrupt, Killed, Dies
<1>3. ASSUME NEW d \in Clients, Recv(d) \/ Put(d) PROVE Released(c)'
  BY <1>3 DEF Recv, Put
<1>4. ASSUME NEW d \in Clients, MainStep(d) \/ HandlerStep(d) PROVE Released(c)'
  BY <1>4 DEF MainStep, HandlerStep, Dies
<1>5. CASE \E d \in Clients :
            \/ Server(d) \/ Abandon(d) \/ CollectMessages(d)
            \/ CollectSignals(d) \/ BoardMain(d)
  BY <1>1, <1>5
  DEF Server, Broadcast, Send, Forget, Abandon, CollectMessages, CollectSignals, BoardMain
<1> QED BY <1>1, <1>2, <1>3, <1>4, <1>5 DEF Next, User, System, vars

\* A thread of the server has sent more to its next client only.
LEMMA SendThrough ==
  ASSUME TypeInv, NEW c \in Clients, NEW w \in Clients, Send(w)
  PROVE  /\ c # Order[next[w]] => Through(c, w)' = Through(c, w)
         /\ c = Order[next[w]] =>
              Through(c, w) = line[w] - 1 /\ Through(c, w)' = line[w]
<1>1. /\ Len(Order) \in Nat /\ DOMAIN Order = 1 .. Len(Order)
      /\ next[w] \in 1 .. Len(Order) /\ next'[w] = next[w] + 1 /\ line' = line
  BY OrderAssumption, LenProperties DEF Send, Sending, TypeInv, TypeOK, ServerType
<1>2. CASE c # Order[next[w]]
  <2>1. \A i \in next[w] .. Len(Order) :
          Order[i] = c <=> i \in next[w] + 1 .. Len(Order) /\ Order[i] = c
    BY <1>1, <1>2
  <2> QED BY <1>1, <1>2, <2>1 DEF Through
<1>3. CASE c = Order[next[w]]
  <2>1. \A i \in next[w] + 1 .. Len(Order) : Order[i] # c
    BY <1>1, <1>3, OrderAssumption DEF IsInjective
  <2> QED BY <1>1, <1>3, <2>1 DEF Through
<1> QED BY <1>2, <1>3

LEMMA BroadcastThrough ==
  ASSUME TypeInv, NEW c \in Clients, InTable(c), NEW w \in Clients, Broadcast(w)
  PROVE  Through(c, w)' = Through(c, w)
<1>1. /\ Len(Order) \in Nat /\ DOMAIN Order = 1 .. Len(Order)
      /\ line[w] \in Nat /\ next[w] \in 1 .. Len(Order) + 1
      /\ line'[w] = line[w] + 1 /\ next'[w] = 1
  BY OrderAssumption, LenProperties DEF Broadcast, TypeInv, TypeOK, ServerType
<1>2. Through(c, w) = line[w] BY <1>1 DEF Broadcast, Sending, Through
<1>3. Through(c, w)' = line[w] BY <1>1 DEF Through, InTable
<1> QED BY <1>2, <1>3

\* A thread of the server leaves alone what the others have sent.
LEMMA OthersThrough ==
  ASSUME TypeInv, NEW c \in Clients, NEW w \in Clients, NEW v \in Clients \ {w},
         Broadcast(v) \/ Send(v)
  PROVE  Through(c, w)' = Through(c, w)
BY DEF Broadcast, Send, Through, TypeInv, TypeOK, ServerType

\* Steps that leave the way of the lines of w to c alone.
LEMMA CourseFrame ==
  ASSUME NEW c \in Clients, NEW w \in Clients, InOrder(c, w),
         UNCHANGED <<shown[c], queue[c], receiver[c], item[c], stream[c]>>,
         member'[c] /\ ~Released(c)' /\ InTable(c)
           => member[c] /\ ~Released(c) /\ Through(c, w)' = Through(c, w)
  PROVE  InOrder(c, w)'
<1>1. PICK a, b, t \in Nat : Course(c, w, a, b, t) BY DEF InOrder
<1>2. Course(c, w, a, b, t)' BY <1>1 DEF Course, Carries, Of, InTable
<1> QED BY <1>2 DEF InOrder

\* Steps that put one message into the connection of c.
LEMMA CourseSent ==
  ASSUME TypeInv, NEW c \in Clients, NEW w \in Clients, InOrder(c, w),
         NEW m \in Message, CanSend(c), SendTo(c, m),
         UNCHANGED <<shown, queue, receiver, item>>, UNCHANGED Released(c),
         ~Of(m, w) =>
           (member'[c] /\ InTable(c) => member[c] /\ Through(c, w)' = Through(c, w)),
         Of(m, w) => /\ member[c] /\ InTable(c)
                       /\ m.val = Through(c, w) + 1 /\ Through(c, w)' = m.val
  PROVE  InOrder(c, w)'
<1>1. PICK a, b, t \in Nat : Course(c, w, a, b, t) BY DEF InOrder
<1>2. stream[c] \in Seq(Message) /\ stream'[c] = Append(stream[c], m)
  BY DEF SendTo, TypeInv, TypeOK, StreamType
<1>3. ~Released(c) BY DEF CanSend
<1>4. CASE Of(m, w)
  <2>1. t = Through(c, w) BY <1>1, <1>3, <1>4 DEF Course
  <2>2. Carries(stream'[c], w, b, t + 1)
    BY <1>1, <1>2, <1>4, <2>1, AppendLine DEF Course
  <2>3. t + 1 \in Nat /\ b <= t + 1 BY <1>1 DEF Course
  <2>4. Course(c, w, a, b, t + 1)'
    BY <1>1, <1>4, <2>1, <2>2, <2>3 DEF Course, Carries, Of
  <2> QED BY <2>3, <2>4 DEF InOrder
<1>5. CASE ~Of(m, w)
  <2>1. Carries(stream'[c], w, b, t) BY <1>1, <1>2, <1>5, AppendOther DEF Course
  <2>2. Course(c, w, a, b, t)' BY <1>1, <1>3, <1>5, <2>1 DEF Course, Carries, Of
  <2> QED BY <2>2 DEF InOrder
<1> QED BY <1>4, <1>5

\* A step of c's client or board, which the table does not see.
Unseen(c) == UNCHANGED <<line, next, member>> /\ (Released(c) => Released(c)')

LEMMA UnseenThrough ==
  ASSUME NEW c \in Clients, NEW w \in Clients, Unseen(c)
  PROVE  member'[c] /\ ~Released(c)' /\ InTable(c)
           => member[c] /\ ~Released(c) /\ Through(c, w)' = Through(c, w)
BY DEF Unseen, Through

\* What is left in the connection, emptied when it goes.
LEMMA StreamLeft ==
  ASSUME TypeInv, NEW c \in Clients, NEW w \in Clients, NEW b \in Nat, NEW t \in Nat,
         b <= t, Carries(stream[c], w, b, t),
         UNCHANGED stream \/ (Discard(c) /\ Released(c)')
  PROVE  \E u \in Nat : /\ b <= u /\ Carries(stream'[c], w, b, u)
                        /\ ~Released(c)' => u = t
<1>1. CASE UNCHANGED stream BY <1>1
<1>2. CASE Discard(c) /\ Released(c)'
  <2>1. stream'[c] = <<>> BY <1>2 DEF Discard, TypeInv, TypeOK, StreamType
  <2>2. Carries(stream'[c], w, b, b) BY <2>1, CarriesNothing
  <2> QED BY <1>2, <2>2
<1> QED BY <1>1, <1>2

LEMMA CourseDies ==
  ASSUME TypeInv, NEW c \in Clients, NEW w \in Clients, InOrder(c, w),
         NEW how, Dies(c, how), UNCHANGED shown,
         UNCHANGED queue \/ RemoveQueue(c)
  PROVE  InOrder(c, w)'
<1>1. PICK a, b, t \in Nat : Course(c, w, a, b, t) BY DEF InOrder
<1>2. stream'[c] = <<>> /\ receiver'[c] = "done" /\ Released(c)'
  BY DEF Dies, Discard, Released, TypeInv, TypeOK, StreamType, ClientType
<1>3. Len(shown[c][w]) \in Nat BY LenProperties DEF TypeInv, TypeOK, BoardType
<1>4. \E k \in Nat : Len(shown[c][w]) <= k /\ Carries(queue'[c], w, Len(shown[c][w]), k)
  <2>1. CASE UNCHANGED queue BY <1>1, <2>1 DEF Course
  <2>2. CASE RemoveQueue(c)
    <3>1. queue'[c] = <<>> BY <2>2 DEF RemoveQueue, TypeInv, TypeOK, QueueType
    <3> QED BY <1>3, <3>1, CarriesNothing
  <2> QED BY <2>1, <2>2
<1>5. PICK k \in Nat :
        Len(shown[c][w]) <= k /\ Carries(queue'[c], w, Len(shown[c][w]), k)
  BY <1>4
<1>6. Carries(stream'[c], w, k, k) BY <1>2, CarriesNothing
<1>7. Course(c, w, k, k, k)' BY <1>2, <1>5, <1>6 DEF Course, Carries, Of
<1> QED BY <1>7 DEF InOrder

LEMMA CourseLeave ==
  ASSUME TypeInv, NEW c \in Clients, NEW w \in Clients, InOrder(c, w),
         Leave(c), Unseen(c)
  PROVE  InOrder(c, w)'
<1>1. PICK a, b, t \in Nat : Course(c, w, a, b, t) BY DEF InOrder
<1>2. /\ UNCHANGED <<shown, queue, receiver, item>>
      /\ UNCHANGED stream \/ (Discard(c) /\ Released(c)')
  BY DEF Leave, queueVars, boardVars, Released, TypeInv, TypeOK, ClientType
<1>3. b <= t /\ Carries(stream[c], w, b, t) BY <1>1 DEF Course
<1>4. PICK u \in Nat : /\ b <= u /\ Carries(stream'[c], w, b, u)
                       /\ ~Released(c)' => u = t
  BY <1>2, <1>3, StreamLeft
<1>5. Course(c, w, a, b, u)'
  BY <1>1, <1>2, <1>4, UnseenThrough DEF Course, Carries, Of
<1> QED BY <1>2, <1>5 DEF InOrder

LEMMA CourseRecv ==
  ASSUME TypeInv, NEW c \in Clients, NEW w \in Clients, InOrder(c, w),
         Recv(c), Unseen(c)
  PROVE  InOrder(c, w)'
<1>1. PICK a, b, t \in Nat : Course(c, w, a, b, t) BY DEF InOrder
<1>2. /\ stream[c] \in Seq(Message) /\ stream[c] # <<>> /\ item'[c] = stream[c][1]
      /\ receiver[c] = "recv" /\ UNCHANGED <<queue, shown>>
      /\ receiver'[c] = IF item'[c] = Bye THEN "done" ELSE "put"
  BY RecvTypes DEF Recv, queueVars, boardVars, TypeInv, TypeOK, ClientType
<1>3. 1 \in DOMAIN stream[c] /\ stream'[c] = RemoveAt(stream[c], 1)
  BY <1>2, TailIsRemoval DEF Recv, TypeInv, TypeOK, StreamType
<1>4. b = a BY <1>1, <1>2 DEF Course
<1>5. CASE Of(item'[c], w)
  <2>0. /\ Carries(stream[c], w, b, t) /\ Of(stream[c][1], w)
        /\ NoneBefore(stream[c], w, 1)
    BY <1>1, <1>2, <1>5 DEF Course, NoneBefore
  <2>1. item'[c].val = b + 1 /\ b + 1 <= t /\ Carries(stream'[c], w, b + 1, t)
    <3>1. /\ stream[c][1].val = b + 1 /\ b + 1 <= t
          /\ Carries(RemoveAt(stream[c], 1), w, b + 1, t)
      BY <1>2, <1>3, <2>0, RemoveLine, Zenon
    <3> QED BY <1>2, <1>3, <3>1
  <2>2. receiver'[c] = "put" BY <1>2, <1>5, Messages DEF Of
  <2>3. b + 1 \in Nat OBVIOUS
  <2>4. Course(c, w, a, b + 1, t)'
    BY <1>1, <1>2, <1>4, <1>5, <2>1, <2>2, UnseenThrough DEF Course, Carries, Of
  <2> QED BY <1>2, <2>3, <2>4 DEF InOrder
<1>6. CASE ~Of(item'[c], w)
  <2>1. Carries(stream'[c], w, b, t)
    BY <1>1, <1>2, <1>3, <1>6, RemoveOther DEF Course
  <2>2. Course(c, w, a, b, t)'
    BY <1>1, <1>2, <1>4, <1>6, <2>1, UnseenThrough DEF Course, Carries, Of
  <2> QED BY <1>2, <2>2 DEF InOrder
<1> QED BY <1>5, <1>6

LEMMA CoursePut ==
  ASSUME TypeInv, EndInv, NEW c \in Clients, NEW w \in Clients, InOrder(c, w),
         Put(c), Unseen(c)
  PROVE  InOrder(c, w)'
<1>1. PICK a, b, t \in Nat : Course(c, w, a, b, t) BY DEF InOrder
<1>2. /\ ~removed[c] /\ receiver[c] = "put" /\ receiver'[c] # "put"
      /\ UNCHANGED shown /\ (UNCHANGED stream \/ (Discard(c) /\ Released(c)'))
  BY DEF Put, EndInv, EndOf, boardVars, Released, TypeInv, TypeOK, ClientType
<1>3. item[c] \in Message /\ item[c] # Bye
  BY <1>2 DEF Passing, TypeInv, TypeOK, ClientType
<1>4. Passed(item[c]) \in Entry BY <1>3, PassedEntry
<1>5. queue[c] \in Seq(Entry) /\ queue'[c] = Append(queue[c], Passed(item[c]))
  BY <1>2, <1>4, MsgsndQueue DEF Put, TypeInv, TypeOK, QueueType
<1>6. Len(shown[c][w]) \in Nat BY LenProperties DEF TypeInv, TypeOK, BoardType
<1>7. b <= t /\ Carries(stream[c], w, b, t) BY <1>1 DEF Course
<1>8. PICK u \in Nat : /\ b <= u /\ Carries(stream'[c], w, b, u)
                       /\ ~Released(c)' => u = t
  BY <1>2, <1>7, StreamLeft
<1>9. member'[c] /\ ~Released(c)' /\ InTable(c) => u = Through(c, w)'
  BY <1>1, <1>8, UnseenThrough DEF Course
<1>10. CASE Of(item[c], w)
  <2>1. Passed(item[c]) = item[c] /\ item[c].val = a + 1 /\ b = a + 1
    BY <1>1, <1>2, <1>3, <1>10, PassedEntry DEF Course, Of
  <2>2. Carries(queue'[c], w, Len(shown[c][w]), b)
    BY <1>1, <1>4, <1>5, <1>6, <1>10, <2>1, AppendLine DEF Course
  <2>3. Course(c, w, b, b, u)'
    BY <1>1, <1>2, <1>6, <1>8, <1>9, <2>1, <2>2 DEF Course
  <2> QED BY <1>2, <2>3 DEF InOrder
<1>11. CASE ~Of(item[c], w)
  <2>0. ~Of(Passed(item[c]), w) BY <1>3, <1>11, PassedEntry DEF Of
  <2>1. Carries(queue'[c], w, Len(shown[c][w]), a)
    BY <1>1, <1>4, <1>5, <2>0, AppendOther DEF Course
  <2>2. Course(c, w, a, b, u)'
    BY <1>1, <1>2, <1>8, <1>9, <1>11, <2>1 DEF Course
  <2> QED BY <1>2, <2>2 DEF InOrder
<1> QED BY <1>10, <1>11

LEMMA CourseStop ==
  ASSUME TypeInv, NEW c \in Clients, NEW w \in Clients, InOrder(c, w),
         Msgsnd(c, Signal(0)), Unseen(c),
         UNCHANGED <<shown, receiver, item, stream>>
  PROVE  InOrder(c, w)'
<1>1. PICK a, b, t \in Nat : Course(c, w, a, b, t) BY DEF InOrder
<1>2. queue[c] \in Seq(Entry) BY DEF TypeInv, TypeOK, QueueType
<1>3. queue'[c] = queue[c] \/ queue'[c] = Append(queue[c], Signal(0))
  BY Entries, MsgsndQueue
<1>4. Carries(queue'[c], w, Len(shown[c][w]), a)
  <2>1. Signal(0) \in Entry /\ ~Of(Signal(0), w) BY Entries DEF Of
  <2>2. Carries(queue[c], w, Len(shown[c][w]), a) BY <1>1 DEF Course
  <2>3. Carries(Append(queue[c], Signal(0)), w, Len(shown[c][w]), a)
    BY <1>2, <2>1, <2>2, AppendOther
  <2> QED BY <1>3, <2>2, <2>3
<1>5. Course(c, w, a, b, t)' BY <1>1, <1>4, UnseenThrough DEF Course, Carries, Of
<1> QED BY <1>5 DEF InOrder

LEMMA CourseShown ==
  ASSUME TypeInv, NEW c \in Clients, NEW w \in Clients, InOrder(c, w),
         CollectMessages(c), Unseen(c)
  PROVE  InOrder(c, w)'
<1>1. PICK a, b, t \in Nat : Course(c, w, a, b, t) BY DEF InOrder
<1>2. PICK i \in DOMAIN queue[c] :
        /\ First(c, 1, i) /\ Take(c, i)
        /\ shown' = [shown EXCEPT ![c][queue[c][i].username] =
                       Append(@, queue[c][i].val)]
  BY DEF CollectMessages
<1>3. queue[c] \in Seq(Entry) /\ queue'[c] = RemoveAt(queue[c], i)
  BY <1>2, TakeQueue DEF TypeInv, TypeOK, QueueType
<1>4. shown[c][w] \in Seq(Nat) /\ Len(shown[c][w]) \in Nat
  BY LenProperties DEF TypeInv, TypeOK, BoardType
<1>5. queue[c][i].username \in Clients /\ queue[c][i].type = 1
  <2>1. queue[c][i] \in Entry /\ queue[c][i].type = 1
    BY <1>2, <1>3, LenProperties DEF First
  <2> QED BY <2>1, Entries, Messages
<1>6. UNCHANGED <<receiver, item, stream>> BY DEF CollectMessages, clientVars
<1>7. CASE Of(queue[c][i], w)
  <2>1. NoneBefore(queue[c], w, i) BY <1>2 DEF First, Of, NoneBefore
  <2>0. Carries(queue[c], w, Len(shown[c][w]), a) BY <1>1 DEF Course
  <2>2. /\ queue[c][i].val = Len(shown[c][w]) + 1 /\ Len(shown[c][w]) + 1 <= a
        /\ Carries(queue'[c], w, Len(shown[c][w]) + 1, a)
    <3> DEFINE k == Len(shown[c][w])
               q == queue[c]
    <3>0. /\ k \in Nat /\ a \in Nat /\ q \in Seq(Entry) /\ i \in DOMAIN q
          /\ Of(q[i], w) /\ NoneBefore(q, w, i) /\ Carries(q, w, k, a)
      BY <1>3, <1>4, <1>7, <2>0, <2>1
    <3> HIDE DEF k, q
    <3>1. /\ q[i].val = k + 1 /\ k + 1 <= a
          /\ Carries(RemoveAt(q, i), w, k + 1, a)
      BY <3>0, RemoveLine, Zenon
    <3> QED BY <1>3, <3>1 DEF k, q
  <2>3. shown'[c][w] = Append(shown[c][w], Len(shown[c][w]) + 1)
    BY <1>2, <1>7, <2>2 DEF Of, TypeInv, TypeOK, BoardType
  <2>4. /\ shown'[c][w] \in Seq(Nat) /\ Len(shown'[c][w]) = Len(shown[c][w]) + 1
        /\ \A n \in 1 .. Len(shown[c][w]) : shown'[c][w][n] = shown[c][w][n]
        /\ shown'[c][w][Len(shown[c][w]) + 1] = Len(shown[c][w]) + 1
    BY <1>4, <2>3, AppendProperties
  <2>5. shown'[c][w] = [n \in 1 .. Len(shown'[c][w]) |-> n]
    <3> DEFINE x == shown[c][w]
               y == shown'[c][w]
    <3>0. /\ Len(x) \in Nat /\ Len(y) = Len(x) + 1
          /\ \A n \in 1 .. Len(x) : y[n] = x[n]
          /\ y[Len(x) + 1] = Len(x) + 1
      BY <1>4, <2>4
    <3>1. \A n \in 1 .. Len(x) : x[n] = n BY DEF InOrder
    <3> HIDE DEF x, y
    <3>4. \A n \in 1 .. Len(y) : y[n] = n BY <3>0, <3>1
    <3>2. \A n \in 1 .. Len(shown'[c][w]) : shown'[c][w][n] = n BY <3>4 DEF y
    <3>3. shown'[c][w] \in [1 .. Len(shown'[c][w]) -> Nat] BY <2>4, LenProperties
    <3> QED BY <3>2, <3>3
  <2>6. Course(c, w, a, b, t)'
    BY <1>1, <1>6, <2>2, <2>4, UnseenThrough DEF Course, Carries, Of
  <2> QED BY <2>5, <2>6 DEF InOrder
<1>8. CASE ~Of(queue[c][i], w)
  <2>1. shown'[c][w] = shown[c][w]
    BY <1>2, <1>5, <1>8 DEF Of, TypeInv, TypeOK, BoardType
  <2>2. Carries(queue'[c], w, Len(shown[c][w]), a)
    BY <1>1, <1>3, <1>8, RemoveOther DEF Course
  <2>3. Course(c, w, a, b, t)'
    BY <1>1, <1>6, <2>1, <2>2, UnseenThrough DEF Course, Carries, Of
  <2> QED BY <2>1, <2>3 DEF InOrder
<1> QED BY <1>7, <1>8

LEMMA CourseSignal ==
  ASSUME TypeInv, NEW c \in Clients, NEW w \in Clients, InOrder(c, w),
         CollectSignals(c), Unseen(c)
  PROVE  InOrder(c, w)'
<1>1. PICK a, b, t \in Nat : Course(c, w, a, b, t) BY DEF InOrder
<1>2. UNCHANGED <<shown, receiver, item, stream>>
  BY DEF CollectSignals, clientVars
<1>3. CASE UNCHANGED queue BY <1>2, <1>3, CourseFrame, UnseenThrough
<1>4. CASE ~(UNCHANGED queue)
  <2>1. PICK i \in DOMAIN queue[c] : First(c, 3, i) /\ Take(c, i)
    BY <1>4 DEF CollectSignals
  <2>2. queue[c] \in Seq(Entry) /\ queue'[c] = RemoveAt(queue[c], i)
    BY <2>1, TakeQueue DEF TypeInv, TypeOK, QueueType
  <2>3. ~Of(queue[c][i], w) BY <2>1 DEF First, Of
  <2>4. Carries(queue'[c], w, Len(shown[c][w]), a)
    BY <1>1, <2>2, <2>3, RemoveOther DEF Course
  <2>5. Course(c, w, a, b, t)' BY <1>1, <1>2, <2>4, UnseenThrough DEF Course, Carries, Of
  <2> QED BY <1>2, <2>5 DEF InOrder
<1> QED BY <1>3, <1>4

LEMMA CourseServer ==
  ASSUME TypeInv, NEW c \in Clients, NEW w \in Clients, InOrder(c, w),
         NEW v \in Clients, Server(v)
  PROVE  InOrder(c, w)'
<1>1. UNCHANGED <<shown, queue, receiver, item>> /\ UNCHANGED Released(c)
  BY DEF Server, Broadcast, Send, Forget, clientVars, queueVars, boardVars,
         Released, Alive
<1>2. CASE Broadcast(v)
  <2>1. InTable(c) => Through(c, w)' = Through(c, w)
    BY <1>2, BroadcastThrough, OthersThrough
  <2> QED BY <1>1, <1>2, <2>1, CourseFrame DEF Broadcast
<1>3. CASE Send(v)
  <2>0. /\ next[v] \in DOMAIN Order /\ line[v] \in 1 .. MaxLines[v]
        /\ UNCHANGED member
    <3>1. next[v] \in DOMAIN Order
      BY <1>3, OrderAssumption, LenProperties
      DEF Send, Sending, TypeInv, TypeOK, ServerType
    <3>2. line[v] \in Nat /\ MaxLines[v] \in Nat /\ line[v] <= MaxLines[v]
      BY BoundAssumption DEF TypeInv, TypeOK, ServerType
    <3>3. line[v] # 0 /\ UNCHANGED member BY <1>3 DEF Send, Sends, TypeInv
    <3> QED BY <3>1, <3>2, <3>3
  <2>1. CASE c # Order[next[v]] \/ ~member[c] \/ Released(c)
    <3>1. stream'[c] = stream[c]
      BY <1>3, <2>1 DEF Send, SendTo, CanSend, TypeInv, TypeOK, StreamType
    <3>2. c # Order[next[v]] => Through(c, w)' = Through(c, w)
      BY <1>3, SendThrough, OthersThrough
    <3> QED BY <1>1, <2>0, <2>1, <3>1, <3>2, CourseFrame
  <2>2. CASE c = Order[next[v]] /\ member[c] /\ ~Released(c)
    <3> DEFINE m == Line(v, line[v])
    <3>1. CanSend(c) /\ SendTo(c, m) BY <1>3, <2>2 DEF Send
    <3>2. /\ m \in Message /\ m.type = 1 /\ m.username = v
          /\ m.val = line[v]
      BY <2>0, Messages
    <3> HIDE DEF m
    <3>3. InTable(c) BY <2>0, <2>2 DEF InTable
    <3>4. CASE v = w
      <4>1. line[v] = Through(c, w) + 1 /\ Through(c, w)' = line[v]
        BY <1>3, <2>0, <2>2, <3>4, SendThrough
      <4>2. Of(m, w) BY <3>2, <3>4 DEF Of
      <4> QED BY <1>1, <2>2, <3>1, <3>2, <3>3, <4>1, <4>2, CourseSent
    <3>5. CASE v # w
      <4>1. Through(c, w)' = Through(c, w) BY <1>3, <3>5, OthersThrough
      <4>2. ~Of(m, w) BY <3>2, <3>5 DEF Of
      <4> QED BY <1>1, <2>2, <3>1, <3>2, <4>1, <4>2, CourseSent
    <3> QED BY <3>4, <3>5
  <2> QED BY <2>1, <2>2
<1>4. CASE Forget(v)
  <2>1. Through(c, w)' = Through(c, w) /\ (member'[c] => member[c])
    BY <1>4 DEF Forget, Through, TypeInv, TypeOK, ServerType
  <2>2. CASE stream'[c] = stream[c] BY <1>1, <2>1, <2>2, CourseFrame
  <2>3. CASE stream'[c] # stream[c]
    <3>1. CanSend(c) /\ SendTo(c, Bye)
      BY <1>4, <2>3 DEF Forget, SendTo, TypeInv, TypeOK, StreamType
    <3>2. Bye \in Message /\ ~Of(Bye, w) BY Messages DEF Of
    <3> QED BY <1>1, <2>1, <3>1, <3>2, CourseSent
  <2> QED BY <2>2, <2>3
<1> QED BY <1>2, <1>3, <1>4 DEF Server

\* What the steps of a client and its board leave alone of the others.
LEMMA ElsewhereCourse ==
  ASSUME TypeInv, NEW c \in Clients, NEW w \in Clients, NEW d \in Clients \ {c},
         InOrder(c, w), Unseen(c),
         User(d) \/ System(d)
  PROVE  InOrder(c, w)'
<1>1. UNCHANGED <<receiver[c], item[c], stream[c]>>
  BY DEF User, System, Leave, Interrupt, Killed, Abandon, Recv, Put, MainStep,
         HandlerStep, CollectMessages, CollectSignals, BoardMain, clientVars,
         Dies, Discard, TypeInv, TypeOK, StreamType, ClientType
<1>2. UNCHANGED shown[c]
  BY DEF User, System, Leave, Interrupt, Killed, Abandon, Recv, Put, MainStep,
         HandlerStep, CollectMessages, CollectSignals, BoardMain, boardVars,
         TypeInv, TypeOK, BoardType
<1>3. UNCHANGED queue[c]
  <2>1. \/ UNCHANGED queue \/ RemoveQueue(d) \/ (\E e : Msgsnd(d, e))
        \/ \E i \in DOMAIN queue[d] : Take(d, i)
    BY DEF User, System, Leave, Interrupt, Killed, Abandon, Recv, Put, MainStep,
           HandlerStep, CollectMessages, CollectSignals, BoardMain, queueVars
  <2> QED BY <2>1 DEF Msgsnd, Take, RemoveQueue, TypeInv, TypeOK, QueueType
<1> QED BY <1>1, <1>2, <1>3, UnseenThrough, CourseFrame

LEMMA Courses == TypeInv /\ EndInv /\ CourseInv /\ [Next]_vars => CourseInv'
<1> SUFFICES ASSUME TypeInv, EndInv, CourseInv, [Next]_vars,
                    NEW c \in Clients, NEW w \in Clients
             PROVE  InOrder(c, w)'
  BY DEF CourseInv
<1>0. InOrder(c, w) BY DEF CourseInv
<1>1. CASE UNCHANGED vars
  <2>1. UNCHANGED <<shown, queue, receiver, item, stream, member, line, next,
                    main, closed>>
    BY <1>1 DEF vars, serverVars, clientVars, queueVars, boardVars
  <2> QED BY <1>0, <2>1, CourseFrame DEF Released, Alive, Through
<1>2. CASE \E d \in Clients : Server(d) BY <1>0, <1>2, CourseServer
<1>3. ASSUME NEW d \in Clients, User(d) \/ System(d)
      PROVE  InOrder(c, w)'
  <2>1. Unseen(c)
    <3>1. UNCHANGED <<line, next, member>>
      BY <1>3
      DEF User, System, Leave, Interrupt, Killed, Abandon, Recv, Put, MainStep,
          HandlerStep, CollectMessages, CollectSignals, BoardMain, serverVars
    <3> QED BY <3>1, ReleasedStays DEF Unseen
  <2>2. CASE d # c BY <1>0, <1>3, <2>1, <2>2, ElsewhereCourse
  <2>3. CASE d = c
    <3>1. CASE User(c) \/ BoardMain(c)
      <4>1. CASE Interrupt(c) \/ Abandon(c) \/ BoardMain(c)
        <5>1. UNCHANGED <<shown, queue, receiver, item, stream>>
          BY <4>1
          DEF Interrupt, Abandon, BoardMain, clientVars, queueVars, boardVars
        <5> QED BY <1>0, <2>1, <5>1, UnseenThrough, CourseFrame
      <4>2. CASE Killed(c)
        BY <1>0, <4>2, CourseDies DEF Killed, queueVars, boardVars
      <4>3. CASE Leave(c) BY <1>0, <2>1, <4>3, CourseLeave
      <4> QED BY <3>1, <4>1, <4>2, <4>3 DEF User
    <3>2. CASE Recv(c) BY <1>0, <2>1, <3>2, CourseRecv
    <3>3. CASE Put(c) BY <1>0, <2>1, <3>3, CoursePut
    <3>4. CASE MainStep(c) \/ HandlerStep(c)
      <4>1. UNCHANGED shown BY <3>4 DEF MainStep, HandlerStep, boardVars
      <4>2. CASE RemoveQueue(c) /\ Dies(c, "ended")
        BY <1>0, <4>1, <4>2, CourseDies
      <4>3. CASE ~(RemoveQueue(c) /\ Dies(c, "ended"))
        <5>1. Msgsnd(c, Signal(0)) /\ UNCHANGED <<receiver, item, stream>>
          BY <3>4, <4>3 DEF MainStep, HandlerStep
        <5> QED BY <1>0, <2>1, <4>1, <5>1, CourseStop
      <4> QED BY <4>2, <4>3
    <3>5. CASE CollectMessages(c) BY <1>0, <2>1, <3>5, CourseShown
    <3>6. CASE CollectSignals(c) BY <1>0, <2>1, <3>6, CourseSignal
    <3> QED BY <1>3, <2>3, <3>1, <3>2, <3>3, <3>4, <3>5, <3>6 DEF System
  <2> QED BY <2>2, <2>3
<1> QED BY <1>1, <1>2, <1>3 DEF Next

\* The lines of each writer on a board are the first ones broadcast for that
\* writer, in their order, none left out and none twice, for any clients that
\* write at the same time, any table, buffers and ends of clients
\* (server/main.c:46-63, client/main.c:51-91, threads.c:10-22).
THEOREM LinesInOrder == Spec => []ShownInOrder
<1>1. CourseInv => ShownInOrder BY DEF CourseInv, InOrder, ShownInOrder
<1> QED
  BY InitTypes, Types, InitEnds, Ends, InitCourse, Courses, <1>1, PTL DEF Spec

=============================================================================
