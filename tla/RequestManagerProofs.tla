------------------------ MODULE RequestManagerProofs ------------------------
(***************************************************************************)
(* Proofs about RequestManager, for any numbers of clients, accounts,      *)
(* entries and commands and any losses: the types in every mode; with      *)
(* Overlap off, that commands are served and answered as they were asked   *)
(* and that a session is its client's own.                                 *)
(***************************************************************************)
EXTENDS RequestManager, TLAPS

-----------------------------------------------------------------------------
(* Values.                                                                 *)

\* The kinds of texts are told apart, and No and Yes are answers.
LEMMA DataFacts ==
  /\ Empty \in Data /\ Text \in Data /\ Empty # Text /\ Text.is # "token"
  /\ \A u \in Users : User(u) \in Data /\ User(u) # Empty /\ User(u).is # "token"
  /\ \A t \in Commands : Token(t) \in Data /\ Token(t) # Empty /\ Token(t) # Text
                           /\ Token(t).is = "token" /\ Token(t).val = t
  /\ \A d \in Data : d.is = "token" => d.val \in Commands /\ d = Token(d.val)
  /\ \A d \in Data : d.is = "user" => d.val \in Users /\ d = User(d.val)
  /\ \A d \in Data : d.is = "empty" => d = Empty
  /\ No \in Answer /\ Yes \in Answer /\ No.type = 1
BY DEF Data, Empty, Text, User, Token, Answer, No, Yes

LEMMA CommandFacts ==
  /\ \A t \in Commands : /\ t[1] \in Clients /\ t[2] \in Nat \ {0}
                         /\ t = <<t[1], t[2]>>
  /\ \A c \in Clients, n \in Nat :
       n + 1 <= MaxCommands[c] => <<c, n + 1>> \in Commands
BY BoundAssumption DEF Commands

-----------------------------------------------------------------------------
(* Types.                                                                  *)

\* A client counts what it asks; what is in the inbox or was taken from it was
\* asked, and an answer has an address to go to.
TakenInv ==
  /\ \A t \in Commands : asked[t] # None => t[2] <= count[t[1]]
  /\ \A t \in inbox : asked[t] \in Request
  /\ manager # "recvfrom" => taken \in Commands /\ asked[taken] \in Request
  /\ manager \in {"request", "create"} => adr \in Commands
  /\ \A t \in Commands :
       /\ pc[t] # "none" => adr \in Commands
       /\ pc[t] \in {"type", "data", "send", "done"} => out[t] \in Answer

TypeInv == TypeOK /\ TakenInv

LEMMA InitTypes == Init => TypeInv
BY DataFacts, AccountAssumption, BoundAssumption
DEF Init, TypeInv, TakenInv, TypeOK, ClientType, NetType, BlockType, ThreadType,
    StoreType, Pcs

LEMMA AskTypes ==
  ASSUME TypeInv, NEW c \in Clients, NEW f \in Funcs, NEW d \in Data, Ask(c, f, d)
  PROVE  TypeInv'
<1> DEFINE t == <<c, count[c] + 1>>
<1>1. count[c] \in Nat /\ t \in Commands /\ count[c] + 1 <= MaxCommands[c]
  <2>1. count[c] \in Nat /\ MaxCommands[c] \in Nat /\ count[c] < MaxCommands[c]
    BY BoundAssumption DEF Ask, TypeInv, TypeOK, ClientType
  <2> QED BY <2>1, CommandFacts
<1>2. [func |-> f, data |-> d] \in Request
  BY DEF Request
<1>3. ClientType'
  BY <1>1, <1>2, BoundAssumption DEF Ask, TypeInv, TypeOK, ClientType
<1>4. NetType' /\ UNCHANGED <<manager, taken, block, threadVars, store, did>>
  BY <1>1 DEF Ask, TypeInv, TypeOK, NetType
<1>5. TakenInv'
  <2>1. ASSUME NEW s \in Commands, asked'[s] # None PROVE s[2] <= count'[s[1]]
    <3>1. CASE s = t
      BY <1>1, <3>1 DEF Ask, TypeInv, TypeOK, ClientType
    <3>2. CASE s # t
      <4>1. s[1] \in Clients /\ s[2] \in Nat BY CommandFacts
      <4>2. s[2] <= count[s[1]] /\ count[s[1]] \in Nat
        BY <2>1, <3>2, <4>1 DEF Ask, TypeInv, TypeOK, ClientType, TakenInv
      <4> QED BY <4>1, <4>2 DEF Ask, TypeInv, TypeOK, ClientType
    <3> QED BY <3>1, <3>2
  <2> QED
    BY <1>1, <1>2, <1>4, <2>1
    DEF Ask, TypeInv, TypeOK, ClientType, NetType, TakenInv, block, threadVars
<1> QED
  BY <1>3, <1>4, <1>5
  DEF TypeInv, TypeOK, BlockType, ThreadType, StoreType, block, threadVars, store

\* The name of a command is new.
LEMMA AskFresh ==
  ASSUME TypeInv, NEW c \in Clients, NEW f \in Funcs, NEW d \in Data, Ask(c, f, d)
  PROVE  <<c, count[c] + 1>> \in Commands /\ asked[<<c, count[c] + 1>>] = None
<1> DEFINE t == <<c, count[c] + 1>>
<1>1. count[c] \in Nat /\ MaxCommands[c] \in Nat /\ count[c] < MaxCommands[c]
  BY BoundAssumption DEF Ask, TypeInv, TypeOK, ClientType
<1>2. t \in Commands
  BY <1>1, CommandFacts
<1>3. ~(t[2] <= count[t[1]])
  BY <1>1
<1> QED BY <1>2, <1>3 DEF TypeInv, TakenInv

LEMMA ReadTypes == ASSUME TypeInv, NEW c \in Clients, Read(c) PROVE TypeInv'
<1>1. PICK r \in replies :
        /\ got' = [got EXCEPT ![Current(c)] = r.answer]
        /\ held' = IF asked[Current(c)].func = "login" /\ r.answer.type = 0
                     THEN [held EXCEPT ![c] = r.answer.data] ELSE held
  BY DEF Read
<1>2. r.answer \in Answer /\ r.answer.data \in Data
  BY DEF TypeInv, TypeOK, NetType, Answer
<1>3. held' \in [Clients -> Data] /\ got' \in [Commands -> Answer \cup {None}]
  BY <1>1, <1>2 DEF TypeInv, TypeOK, ClientType
<1>4. /\ waiting' \in [Clients -> BOOLEAN]
      /\ UNCHANGED <<count, asked, alive, netVars, manager, taken, block,
                     threadVars, store, did>>
  BY DEF Read, TypeInv, TypeOK, ClientType
<1> QED
  BY <1>3, <1>4
  DEF TypeInv, TakenInv, TypeOK, ClientType, NetType, BlockType, ThreadType,
      StoreType, netVars, block, threadVars, store

LEMMA LoseTypes == ASSUME TypeInv, NEW t \in Commands, Lose(t) PROVE TypeInv'
<1>1. /\ inbox' \subseteq inbox /\ replies' \subseteq replies
      /\ lost' = lost \cup {t}
      /\ UNCHANGED <<clientVars, alive, manager, taken, block, threadVars, store,
                     history>>
  BY DEF Lose
<1> QED
  BY <1>1
  DEF TypeInv, TakenInv, TypeOK, ClientType, NetType, BlockType, ThreadType,
      StoreType, clientVars, block, threadVars, store, history

LEMMA ManagerTypes == ASSUME TypeInv, ManagerStep PROVE TypeInv'
<1> USE DEF TypeInv, TypeOK, block, threadVars, ManagerAt
<1>1. /\ ClientType' /\ StoreType'
      /\ UNCHANGED <<count, asked, replies, lost, alive, did>>
  BY DEF ManagerStep, Recvfrom, SetAdr, SetRequest, Create, ClientType,
         StoreType, clientVars, store, history
<1>2. CASE \E t \in Commands : Recvfrom(t)
  <2>1. PICK t \in inbox :
          /\ inbox' = inbox \ {t} /\ taken' = t /\ manager' = "adr"
          /\ UNCHANGED <<adr, type, data, pc, func, arg, out>>
    BY <1>2 DEF Recvfrom
  <2> QED BY <1>1, <2>1 DEF NetType, BlockType, ThreadType, TakenInv
<1>3. CASE SetAdr \/ SetRequest
  <2>1. taken \in Commands /\ asked[taken].data \in Data
    BY <1>3 DEF SetAdr, SetRequest, TakenInv, Request
  <2>2. NetType' /\ BlockType' /\ ThreadType'
    BY <1>1, <1>3, <2>1 DEF SetAdr, SetRequest, NetType, BlockType, ThreadType
  <2>3. TakenInv'
    BY <1>1, <1>3, <2>1 DEF SetAdr, SetRequest, TakenInv
  <2> QED BY <1>1, <2>2, <2>3
<1>4. CASE Create
  <2>1. taken \in Commands /\ asked[taken].func \in Funcs /\ adr \in Commands
    BY <1>4 DEF Create, TakenInv, Request
  <2>2. /\ taken' = None /\ manager' = "recvfrom"
        /\ UNCHANGED <<inbox, adr, type, data, arg, out>>
    BY <1>4 DEF Create
  <2>3. pc' \in [Commands -> Pcs] /\ func' \in [Commands -> Funcs \cup {None}]
    BY <1>4, <2>1 DEF Create, Pcs, ThreadType
  <2>4. pc' = [pc EXCEPT ![taken] = "start"] BY <1>4 DEF Create
  <2>5. TakenInv' BY <1>1, <2>1, <2>2, <2>4 DEF TakenInv, ThreadType
  <2> QED BY <1>1, <2>1, <2>2, <2>3, <2>5 DEF NetType, BlockType, ThreadType
<1> QED BY <1>2, <1>3, <1>4 DEF ManagerStep

\* What a thread may do besides its work.
LEMMA ThreadFrame ==
  ASSUME TypeInv, NEW t \in Commands, ThreadStep(t)
  PROVE  /\ pc[t] \notin {"none", "done"}
         /\ \E label \in Pcs \ {"none"} : pc' = [pc EXCEPT ![t] = label]
         /\ UNCHANGED <<clientVars, inbox, lost, manager, taken, adr, func, asked,
                        got>>
<1> USE DEF ThreadStep, At, Goto, block, Pcs
<1>1. CASE Start(t) \/ StartLogout(t) BY <1>1 DEF Start, StartLogout
<1>2. CASE BadType(t) \/ BadData(t) \/ BadSend(t)
  BY <1>2 DEF BadType, BadData, BadSend
<1>3. CASE Copy(t) BY <1>3 DEF Copy
<1>4. CASE Act(t) BY <1>4 DEF Act
<1>5. CASE WriteType(t) \/ WriteData(t) \/ Sendto(t)
  BY <1>5 DEF WriteType, WriteData, Sendto
<1> QED BY <1>1, <1>2, <1>3, <1>4, <1>5

\* The answer of a handler and what it may do to the table.
LEMMA ActFrame ==
  ASSUME TypeInv, NEW t \in Commands, Act(t)
  PROVE  /\ func[t] \in Funcs
         /\ \E answer \in Answer : out' = [out EXCEPT ![t] = answer]
         /\ StoreType'
<1> USE DataFacts DEF TypeInv, TypeOK, StoreType, ThreadType
<1>1. CASE Login(t)
  <2>1. [type |-> 0, data |-> Token(t)] \in Answer BY DEF Answer
  <2> QED BY <1>1, <2>1 DEF Login, Funcs, HasName, NameOf
<1>2. CASE Logout(t) BY <1>2 DEF Logout, Funcs
<1>3. CASE AccountCreation(t) BY <1>3 DEF AccountCreation, Funcs, HasName, NameOf
<1>4. CASE AccountDeletion(t) BY <1>4 DEF AccountDeletion, Funcs
<1>5. CASE ConnectedUsersList(t)
  <2>1. [type |-> 0, data |-> IF sessions = {} THEN Empty ELSE Text] \in Answer
    BY DEF Answer
  <2> QED BY <1>5, <2>1 DEF ConnectedUsersList, Funcs, store
<1> QED BY <1>1, <1>2, <1>3, <1>4, <1>5 DEF Act

LEMMA ThreadTypes ==
  ASSUME TypeInv, NEW t \in Commands, ThreadStep(t)
  PROVE  TypeInv'
<1> USE DEF TypeInv, TypeOK
<1>1. ClientType' /\ adr \in Commands
  BY ThreadFrame DEF ClientType, TakenInv, clientVars
<1>2. TakenInv'
  <2>1. ASSUME NEW s \in Commands, pc'[s] \in {"type", "data", "send", "done"}
        PROVE  out'[s] \in Answer
    <3>1. CASE s # t \/ pc[t] \in {"type", "data", "send"}
      <4>1. pc[s] = pc'[s] \/ s = t BY ThreadFrame DEF ThreadType
      <4>2. out'[s] = out[s]
        BY <3>1, ActFrame
        DEF ThreadStep, Start, StartLogout, BadType, BadData, BadSend, Copy, Act,
            At, WriteType, WriteData, Sendto, ThreadType
      <4> QED BY <2>1, <3>1, <4>1, <4>2 DEF TakenInv
    <3>2. CASE s = t /\ pc[t] \notin {"type", "data", "send"}
      <4>1. Act(t)
        BY <2>1, <3>2
        DEF ThreadStep, Start, StartLogout, BadType, BadData, BadSend, Copy,
            At, Goto, WriteType, WriteData, Sendto, ThreadType
      <4> QED BY <3>2, <4>1, ActFrame DEF ThreadType
    <3> QED BY <3>1, <3>2
  <2> QED BY ThreadFrame, <1>1, <2>1 DEF TakenInv, ThreadType, clientVars
<1>3. /\ pc' \in [Commands -> Pcs] /\ func' \in [Commands -> Funcs \cup {None}]
      /\ inbox' \in SUBSET Commands /\ lost' \in SUBSET Commands
      /\ manager' = manager /\ taken' = taken /\ adr' = adr
  BY ThreadFrame DEF ThreadType, NetType
<1> USE <1>3 DEF NetType, BlockType, ThreadType, block
<1>4. CASE Start(t) \/ StartLogout(t)
  <2>1. arg' \in [Commands -> Data]
    BY <1>4 DEF Start, StartLogout
  <2>2. UNCHANGED <<alive, replies, type, data, out, did, store>>
    BY <1>4 DEF Start, StartLogout
  <2> QED BY <1>1, <1>2, <2>1, <2>2 DEF StoreType, store
<1>5. CASE Copy(t)
  <2>1. alive' \in BOOLEAN /\ arg' \in [Commands -> Data]
    BY <1>5 DEF Copy
  <2> QED BY <1>1, <1>2, <1>5, <2>1 DEF Copy, StoreType, store
<1>6. CASE BadType(t) \/ BadData(t) \/ WriteType(t) \/ WriteData(t)
  <2>1. Text \in Data BY DataFacts
  <2>2. pc[t] \in {"type", "data"} => out[t].type \in {0, 1} /\ out[t].data \in Data
    BY DEF TakenInv, Answer
  <2>3. type' \in {0, 1} /\ data' \in Data
    BY <1>6, <2>1, <2>2 DEF BadType, BadData, WriteType, WriteData, At
  <2>4. UNCHANGED <<alive, replies, arg, out, did, store>>
    BY <1>6 DEF BadType, BadData, WriteType, WriteData
  <2> QED BY <1>1, <1>2, <2>3, <2>4 DEF StoreType, store
<1>7. CASE BadSend(t) \/ Sendto(t)
  <2>1. replies' \in SUBSET [to : Commands, answer : Answer]
    BY <1>1, <1>7 DEF BadSend, Sendto, Sent, Answer
  <2>2. UNCHANGED <<alive, type, data, arg, out, did, store>>
    BY <1>7 DEF BadSend, Sendto
  <2> QED BY <1>1, <1>2, <2>1, <2>2 DEF StoreType, store
<1>8. CASE Act(t)
  <2>1. out' \in [Commands -> Answer \cup {None}] BY <1>8, ActFrame
  <2>2. [func |-> func[t], data |-> arg[t]] \in Request
    BY <1>8, ActFrame DEF Request
  <2>3. did' \in [Commands -> Request \cup {None}] BY <1>8, <2>2 DEF Act
  <2>4. UNCHANGED <<alive, replies, type, data, arg>> BY <1>8 DEF Act
  <2> QED BY <1>1, <1>2, <1>8, <2>1, <2>3, <2>4, ActFrame
<1> QED BY <1>4, <1>5, <1>6, <1>7, <1>8 DEF ThreadStep

LEMMA TypesInductive == TypeInv /\ [Next]_vars => TypeInv'
<1>1. ASSUME TypeInv, UNCHANGED vars PROVE TypeInv'
  BY <1>1
  DEF vars, TypeInv, TakenInv, TypeOK, ClientType, NetType, BlockType, ThreadType,
      StoreType, clientVars, netVars, block, threadVars, store, history
<1> QED
  BY <1>1, AskTypes, ReadTypes, LoseTypes, ManagerTypes, ThreadTypes
  DEF Next, ClientStep

\* Every reachable state has the declared types, in any mode: what is received
\* was asked, an answer has an address, and the text of the block is one of the
\* texts that were written into it.
THEOREM TypeCorrect == Spec => []TypeOK
<1>1. Spec => []TypeInv
  BY InitTypes, TypesInductive, PTL DEF Spec
<1> QED BY <1>1, PTL DEF TypeInv

-----------------------------------------------------------------------------
(* Commands are served as they were asked: with Overlap off the block is   *)
(* with one command at a time.                                             *)

\* What a command is carried out on, and what answers it.
Effective(t) == IF Malformed(t) THEN Text ELSE asked[t].data
Reply(t)     == IF Malformed(t) THEN No ELSE out[t]

Served == {t \in Commands : pc[t] \in {"type", "data", "send", "done"}}

\* At most one command is with the manager or a thread, and it has the block.
HandoverInv ==
  /\ \A t \in inbox : pc[t] = "none"
  /\ manager # "recvfrom" =>
       taken \notin inbox /\ pc[taken] = "none" /\ \A t \in Commands : ~Running(t)
  /\ manager \in {"request", "create"} => adr = taken
  /\ manager = "create" => data = asked[taken].data
  /\ \A s, t \in Commands : Running(s) /\ Running(t) => s = t
  /\ \A t \in Commands :
       /\ pc[t] # "none" => asked[t] \in Request /\ func[t] = asked[t].func
       /\ Running(t) => adr = t

\* What has come of a command where its thread stands.
WorkInv ==
  \A t \in Commands :
    /\ pc[t] \in {"none", "start"} => arg[t] = Empty
    /\ pc[t] = "start" => data = asked[t].data
    /\ pc[t] \in {"badType", "badData", "badSend"} => Malformed(t)
    /\ pc[t] \in {"badData", "badSend"} => type = 1
    /\ pc[t] = "badSend" => data = Text
    /\ pc[t] = "copy" => func[t] = "logout" /\ data = Effective(t)
    /\ pc[t] = "act" => arg[t] = Effective(t)
    /\ t \in Served => did[t] = [func |-> asked[t].func, data |-> Effective(t)]
    /\ t \notin Served => did[t] = None
    /\ pc[t] \in {"data", "send"} => type = out[t].type
    /\ pc[t] = "send" => data = out[t].data

Answered(t) == pc[t] = "done" \/ (Malformed(t) /\ pc[t] # "none")

\* Answers on their way and read.
AnswerInv ==
  /\ \A t \in Served :
       /\ Malformed(t) => out[t] = No
       /\ func[t] = "login" /\ out[t].type = 0 => out[t].data = Token(t)
  /\ \A r \in replies : Answered(r.to) /\ r.answer = Reply(r.to)
  /\ \A t \in Commands : got[t] # None => Answered(t) /\ got[t] = Reply(t)

\* Tokens that clients hold, and what they ask with them.
HeldInv ==
  /\ \A c \in Clients : held[c] # Empty =>
       \E t \in Commands : t[1] = c /\ held[c] = Token(t) /\ asked[t] # None
  /\ \A t \in Commands : asked[t] # None =>
       /\ got[t] = None => t = Current(t[1]) /\ waiting[t[1]]
       /\ asked[t].func = "list" => asked[t].data = Empty
       /\ asked[t].func = "logout" =>
            /\ asked[t].data = Empty \/ asked[t].data.is = "token"
            /\ t = Current(t[1]) => asked[t].data = held[t[1]]
       /\ asked[t].func = "login" =>
            /\ asked[t].data \in Typed
            /\ t = Current(t[1]) /\ waiting[t[1]] => held[t[1]] = Empty

LEMMA HandoverInductive ==
  ASSUME TypeInv, HandoverInv, [Next]_vars, ~Overlap
  PROVE  HandoverInv'
<1>0. /\ \A t \in inbox : t \in Commands /\ asked[t] \in Request
      /\ manager # "recvfrom" => taken \in Commands /\ asked[taken] \in Request
      /\ pc \in [Commands -> Pcs] /\ func \in [Commands -> Funcs \cup {None}]
  BY DEF TypeInv, TypeOK, NetType, TakenInv, ThreadType
<1> USE DEF HandoverInv, Running
<1>1. ASSUME NEW c \in Clients, NEW f \in Funcs, NEW d \in Data, Ask(c, f, d)
      PROVE  HandoverInv'
  <2> DEFINE t == <<c, count[c] + 1>>
  <2>1. t \in Commands /\ asked[t] = None /\ pc[t] = "none"
    BY <1>1, AskFresh, NoneAssumption
  <2>2. /\ inbox' = inbox \cup {t}
        /\ \A s \in Commands : s # t => asked'[s] = asked[s]
        /\ UNCHANGED <<manager, taken, adr, data, pc, func>>
    BY <1>1, <2>1 DEF Ask, block, threadVars, TypeInv, TypeOK, ClientType
  <2>3. manager # "recvfrom" => taken # t
    BY <1>0, <2>1, NoneAssumption
  <2> HIDE DEF t
  <2> QED BY <1>0, <2>1, <2>2, <2>3
<1>2. CASE /\ inbox' \subseteq inbox
           /\ UNCHANGED <<manager, taken, adr, data, pc, func, asked>>
  BY <1>0, <1>2
<1>3. ASSUME NEW t \in Commands, Recvfrom(t) PROVE HandoverInv'
  BY <1>0, <1>3 DEF Recvfrom, ManagerAt, block, threadVars, history
<1>4. CASE SetAdr
  BY <1>0, <1>4 DEF SetAdr, ManagerAt, threadVars, history
<1>5. CASE SetRequest
  BY <1>0, <1>5 DEF SetRequest, ManagerAt, threadVars, history
<1>6. CASE Create
  BY <1>0, <1>6 DEF Create, ManagerAt, block, history
<1>7. ASSUME NEW t \in Commands, ThreadStep(t) PROVE HandoverInv'
  BY <1>0, <1>7, ThreadFrame
<1>8. ASSUME NEW c \in Clients, Read(c) PROVE HandoverInv'
  BY <1>2, <1>8 DEF Read, netVars, block, threadVars
<1>9. ASSUME NEW t \in Commands, Lose(t) PROVE HandoverInv'
  BY <1>2, <1>9 DEF Lose, block, threadVars, history
<1>10. CASE UNCHANGED vars
  BY <1>2, <1>10 DEF vars, netVars, block, threadVars, history
<1> QED
  BY <1>1, <1>3, <1>4, <1>5, <1>6, <1>7, <1>8, <1>9, <1>10
  DEF Next, ClientStep, ManagerStep

LEMMA WorkInductive ==
  ASSUME TypeInv, HandoverInv, WorkInv, HeldInv, [Next]_vars
  PROVE  WorkInv'
<1>0. /\ pc \in [Commands -> Pcs] /\ func \in [Commands -> Funcs \cup {None}]
      /\ arg \in [Commands -> Data] /\ out \in [Commands -> Answer \cup {None}]
      /\ did \in [Commands -> Request \cup {None}]
  BY DEF TypeInv, TypeOK, ThreadType
<1> USE DEF WorkInv, Served, Effective, Malformed
<1>1. ASSUME NEW c \in Clients, NEW f \in Funcs, NEW d \in Data, Ask(c, f, d)
      PROVE  WorkInv'
  <2> DEFINE t == <<c, count[c] + 1>>
  <2>1. t \in Commands /\ pc[t] = "none"
    BY <1>1, AskFresh, NoneAssumption DEF HandoverInv
  <2>2. /\ \A s \in Commands : s # t => asked'[s] = asked[s]
        /\ UNCHANGED <<type, data, pc, func, arg, out, did>>
    BY <1>1, <2>1 DEF Ask, block, threadVars, TypeInv, TypeOK, ClientType
  <2> HIDE DEF t
  <2> QED BY <2>1, <2>2
<1>2. CASE UNCHANGED <<type, data, pc, func, arg, out, did, asked>>
  BY <1>2
<1>3. CASE /\ \A t \in Commands : ~Running(t)
           /\ UNCHANGED <<pc, func, arg, out, did, asked>>
  BY <1>0, <1>3 DEF Running, Pcs
<1>4. ASSUME NEW t \in Commands, Recvfrom(t) PROVE WorkInv'
  BY <1>2, <1>4 DEF Recvfrom, ManagerAt, block, threadVars, history
<1>5. CASE SetAdr \/ SetRequest
  BY <1>3, <1>5
  DEF SetAdr, SetRequest, ManagerAt, threadVars, history, HandoverInv
<1>6. CASE Create
  <2>1. /\ taken \in Commands /\ pc[taken] = "none" /\ pc'[taken] = "start"
        /\ data = asked[taken].data
        /\ \A t \in Commands : t # taken => pc'[t] = pc[t]
        /\ UNCHANGED <<type, data, arg, out, did, asked>>
    BY <1>0, <1>6
    DEF Create, ManagerAt, block, history, HandoverInv, TypeInv, TakenInv
  <2>2. \A t \in Commands : pc[t] \in {"none", "done"}
    BY <1>0, <1>6 DEF Create, HandoverInv, Running
  <2> QED BY <2>1, <2>2
<1>7. ASSUME NEW t \in Commands, ThreadStep(t) PROVE WorkInv'
  <2>1. /\ pc[t] \notin {"none", "done"} /\ asked[t] \in Request
        /\ func[t] = asked[t].func /\ UNCHANGED <<func, asked>>
        /\ \A s \in Commands \ {t} : pc[s] \in {"none", "done"}
    BY <1>0, <1>7, ThreadFrame DEF HandoverInv, Running, Pcs
  <2>2. \A s \in Commands \ {t} :
          pc'[s] = pc[s] /\ arg'[s] = arg[s] /\ out'[s] = out[s] /\ did'[s] = did[s]
    <3>1. \A s \in Commands \ {t} : pc'[s] = pc[s]
      BY <1>0, <1>7, ThreadFrame
    <3>2. \A s \in Commands \ {t} : arg'[s] = arg[s] /\ did'[s] = did[s]
      BY <1>0, <1>7
      DEF ThreadStep, Start, StartLogout, BadType, BadData, BadSend, Copy, Act,
          WriteType, WriteData, Sendto
    <3>3. \A s \in Commands \ {t} : out'[s] = out[s]
      BY <1>0, <1>7, ActFrame
      DEF ThreadStep, Start, StartLogout, BadType, BadData, BadSend, Copy,
          WriteType, WriteData, Sendto
    <3> QED BY <3>1, <3>2, <3>3
  <2>3. ASSUME NEW s \in Commands \ {t}
        PROVE  /\ pc'[s] \in {"none", "start"} => arg'[s] = Empty
               /\ pc'[s] \in {"none", "done"}
               /\ s \in Served' => did'[s] = [func |-> asked'[s].func,
                                           data |-> Effective(s)']
               /\ s \notin Served' => did'[s] = None
    BY <2>1, <2>2
  <2> DEFINE Done == did'[t] = [func |-> asked'[t].func, data |-> Effective(t)']
  <2> SUFFICES
        /\ pc'[t] \in {"none", "start"} => arg'[t] = Empty
        /\ pc'[t] = "start" => data' = asked'[t].data
        /\ pc'[t] \in {"badType", "badData", "badSend"} => Malformed(t)'
        /\ pc'[t] \in {"badData", "badSend"} => type' = 1
        /\ pc'[t] = "badSend" => data' = Text
        /\ pc'[t] = "copy" => func'[t] = "logout" /\ data' = Effective(t)'
        /\ pc'[t] = "act" => arg'[t] = Effective(t)'
        /\ t \in Served' => Done
        /\ t \notin Served' => did'[t] = None
        /\ pc'[t] \in {"data", "send"} => type' = out'[t].type
        /\ pc'[t] = "send" => data' = out'[t].data
    BY <2>3
  <2> USE <1>0, <2>1, DataFacts DEF At, Goto, history
  <2>20. asked[t] # None /\ asked[t].data \in Data
    BY NoneAssumption DEF Request
  <2>4. CASE Start(t)
    <3>1. /\ pc[t] = "start" /\ pc'[t] = "act" /\ func[t] # "logout"
          /\ arg'[t] = IF func[t] = "list" THEN arg[t] ELSE data
          /\ UNCHANGED <<did, block>>
      BY <2>4 DEF Start
    <3>2. asked[t].func = "list" => asked[t].data = Empty
      BY <2>20 DEF HeldInv
    <3> QED BY <3>1, <3>2
  <2>5. CASE StartLogout(t)
    <3>1. /\ pc[t] = "start" /\ asked[t].func = "logout"
          /\ \/ data # Empty /\ pc'[t] = "copy"
             \/ data.is # "token" /\ pc'[t] = "badType"
          /\ UNCHANGED <<arg, did, type, data>>
      BY <2>5 DEF StartLogout, block
    <3>2. data.is # "token" => asked[t].data = Empty
      BY <2>20, <3>1 DEF HeldInv
    <3>3. asked[t].data = Empty => Malformed(t)
      BY <3>1 DEF Request
    <3> QED BY <3>1, <3>2, <3>3
  <2>6. CASE BadType(t) BY <2>6 DEF BadType
  <2>7. CASE BadData(t) BY <2>7 DEF BadData
  <2>8. CASE BadSend(t) BY <2>8 DEF BadSend, block
  <2>9. CASE Copy(t) BY <2>9 DEF Copy, block
  <2>10. CASE Act(t) BY <2>10 DEF Act, block
  <2>11. CASE WriteType(t) BY <2>11 DEF WriteType
  <2>12. CASE WriteData(t) BY <2>12 DEF WriteData
  <2>13. CASE Sendto(t) BY <2>13 DEF Sendto, block
  <2> QED
    BY <1>7, <2>4, <2>5, <2>6, <2>7, <2>8, <2>9, <2>10, <2>11, <2>12, <2>13
    DEF ThreadStep
<1>8. ASSUME NEW c \in Clients, Read(c) PROVE WorkInv'
  BY <1>2, <1>8 DEF Read, block, threadVars
<1>9. ASSUME NEW t \in Commands, Lose(t) PROVE WorkInv'
  BY <1>2, <1>9 DEF Lose, block, threadVars, history
<1>10. CASE UNCHANGED vars
  BY <1>2, <1>10 DEF vars, block, threadVars, history
<1> QED
  BY <1>1, <1>4, <1>5, <1>6, <1>7, <1>8, <1>9, <1>10
  DEF Next, ClientStep, ManagerStep

LEMMA AnswerInductive ==
  ASSUME TypeInv, HandoverInv, WorkInv, AnswerInv, [Next]_vars
  PROVE  AnswerInv'
<1>0. /\ pc \in [Commands -> Pcs] /\ func \in [Commands -> Funcs \cup {None}]
      /\ got \in [Commands -> Answer \cup {None}]
      /\ \A r \in replies : r.to \in Commands /\ r.answer \in Answer
  BY DEF TypeInv, TypeOK, ThreadType, ClientType, NetType
<1> USE DEF AnswerInv, Served, Answered, Reply, Malformed
<1>1. ASSUME NEW c \in Clients, NEW f \in Funcs, NEW d \in Data, Ask(c, f, d)
      PROVE  AnswerInv'
  <2> DEFINE t == <<c, count[c] + 1>>
  <2>1. t \in Commands /\ pc[t] = "none"
    BY <1>1, AskFresh, NoneAssumption DEF HandoverInv
  <2>2. /\ \A s \in Commands : s # t => asked'[s] = asked[s]
        /\ UNCHANGED <<replies, pc, func, out, got>>
    BY <1>1, <2>1 DEF Ask, threadVars, TypeInv, TypeOK, ClientType
  <2> HIDE DEF t
  <2> QED BY <1>0, <2>1, <2>2
<1>2. ASSUME NEW c \in Clients, Read(c) PROVE AnswerInv'
  <2>1. PICK r \in replies :
          r.to = Current(c) /\ got' = [got EXCEPT ![Current(c)] = r.answer]
    BY <1>2 DEF Read
  <2>2. UNCHANGED <<replies, pc, func, out, asked>>
    BY <1>2 DEF Read, netVars, threadVars
  <2> QED BY <1>0, <2>1, <2>2
<1>3. CASE replies' \subseteq replies /\ UNCHANGED <<pc, func, out, asked, got>>
  BY <1>3
<1>4. CASE Create
  <2>1. /\ taken \in Commands /\ pc[taken] = "none" /\ pc'[taken] = "start"
        /\ \A t \in Commands : t # taken => pc'[t] = pc[t] /\ func'[t] = func[t]
        /\ UNCHANGED <<replies, out, asked, got>>
    BY <1>0, <1>4
    DEF Create, ManagerAt, history, HandoverInv, TypeInv, TakenInv
  <2> QED BY <1>0, <2>1
<1>5. ASSUME NEW t \in Commands, ThreadStep(t) PROVE AnswerInv'
  <2>1. /\ pc[t] \notin {"none", "done"} /\ pc'[t] # "none"
        /\ \A s \in Commands \ {t} : pc'[s] = pc[s]
        /\ adr = t /\ asked[t] \in Request /\ func[t] = asked[t].func
        /\ UNCHANGED <<func, asked, got>>
    BY <1>0, <1>5, ThreadFrame DEF HandoverInv, Running
  <2>2. CASE Act(t)
    <3>1. PICK answer \in Answer : out' = [out EXCEPT ![t] = answer]
      BY <2>2, ActFrame
    <3>2. out \in [Commands -> Answer \cup {None}]
      BY DEF TypeInv, TypeOK, ThreadType
    <3>3. arg[t] = Effective(t) /\ pc[t] = "act" /\ UNCHANGED replies
      BY <2>2 DEF Act, At, WorkInv
    <3>4. ASSUME Malformed(t) PROVE out'[t] = No
      <4>1. arg[t] = Text BY <3>3, <3>4 DEF Effective
      <4>2. Logout(t)
        BY <2>1, <2>2, <3>4
        DEF Act, Login, AccountCreation, AccountDeletion, ConnectedUsersList
      <4>3. \A s \in sessions : s.token \in Commands
        BY DEF TypeInv, TypeOK, StoreType
      <4> QED BY <3>2, <4>1, <4>2, <4>3, DataFacts DEF Logout
    <3>5. ASSUME func[t] = "login", out'[t].type = 0
          PROVE  out'[t].data = Token(t)
      <4>1. Login(t)
        BY <2>2, <3>5
        DEF Act, Logout, AccountCreation, AccountDeletion, ConnectedUsersList
      <4> QED BY <3>2, <3>5, <4>1, DataFacts DEF Login
    <3> QED BY <1>0, <2>1, <3>1, <3>2, <3>3, <3>4, <3>5
  <2>3. CASE BadSend(t)
    <3>1. /\ replies' = replies \cup {[to |-> t, answer |-> No]}
          /\ Malformed(t) /\ UNCHANGED out /\ pc'[t] = "copy"
      BY <1>0, <2>1, <2>3 DEF BadSend, Sent, At, Goto, WorkInv, No
    <3> QED BY <1>0, <2>1, <3>1
  <2>4. CASE Sendto(t)
    <3>1. out[t] \in Answer /\ pc[t] = "send"
      BY <2>4 DEF Sendto, At, TypeInv, TakenInv
    <3>2. [type |-> type, data |-> data] = out[t]
      BY <3>1 DEF WorkInv, Answer
    <3>3. /\ replies' = replies \cup {[to |-> t, answer |-> out[t]]}
          /\ UNCHANGED out /\ pc'[t] = "done"
      BY <1>0, <2>1, <2>4, <3>2 DEF Sendto, Sent, Goto
    <3> QED BY <1>0, <2>1, <3>1, <3>3
  <2>5. CASE \/ Start(t) \/ StartLogout(t) \/ BadType(t) \/ BadData(t) \/ Copy(t)
             \/ WriteType(t) \/ WriteData(t)
    <3>1. UNCHANGED <<replies, out>>
      BY <2>5
      DEF Start, StartLogout, BadType, BadData, Copy, WriteType, WriteData
    <3>2. pc'[t] \in {"type", "data", "send", "done"} => pc[t] \in {"type", "data"}
      BY <1>0, <2>5
      DEF Start, StartLogout, BadType, BadData, Copy, WriteType, WriteData, At,
          Goto
    <3> QED BY <1>0, <2>1, <3>1, <3>2
  <2> QED BY <1>5, <2>2, <2>3, <2>4, <2>5 DEF ThreadStep
<1>6. ASSUME NEW t \in Commands, Lose(t) PROVE AnswerInv'
  BY <1>3, <1>6 DEF Lose, threadVars, history
<1>7. CASE (\E t \in Commands : Recvfrom(t)) \/ SetAdr \/ SetRequest
  BY <1>3, <1>7
  DEF Recvfrom, SetAdr, SetRequest, ManagerAt, threadVars, history
<1>8. CASE UNCHANGED vars
  BY <1>3, <1>8 DEF vars, netVars, threadVars, history
<1> QED
  BY <1>1, <1>2, <1>4, <1>5, <1>6, <1>7, <1>8 DEF Next, ClientStep, ManagerStep

LEMMA HeldInductive ==
  ASSUME TypeInv, HandoverInv, AnswerInv, HeldInv, [Next]_vars
  PROVE  HeldInv'
<1>0. /\ asked \in [Commands -> Request \cup {None}]
      /\ got \in [Commands -> Answer \cup {None}]
      /\ waiting \in [Clients -> BOOLEAN] /\ held \in [Clients -> Data]
      /\ count \in [Clients -> Nat]
      /\ \A t \in Commands : t[1] \in Clients
  BY CommandFacts DEF TypeInv, TypeOK, ClientType
<1> USE DEF HeldInv, Current
<1>1. ASSUME NEW c \in Clients, NEW f \in Funcs, NEW d \in Data, Ask(c, f, d)
      PROVE  HeldInv'
  <2> DEFINE t == <<c, count[c] + 1>>
  <2>1. t \in Commands /\ asked[t] = None /\ t[1] = c
    BY <1>1, AskFresh
  <2>2. /\ ~waiting[c] /\ waiting' = [waiting EXCEPT ![c] = TRUE]
        /\ count' = [count EXCEPT ![c] = @ + 1] /\ MayAsk(c, f, d)
        /\ asked' = [asked EXCEPT ![t] = [func |-> f, data |-> d]]
        /\ UNCHANGED <<held, got>>
    BY <1>1 DEF Ask
  <2>3. asked'[t] = [func |-> f, data |-> d] /\ [func |-> f, data |-> d] # None
    BY <1>0, <2>1, <2>2, NoneAssumption DEF Request
  <2>4. \A s \in Commands : s # t => asked'[s] = asked[s]
    BY <1>0, <2>2
  <2>5. ASSUME NEW b \in Clients, held'[b] # Empty
        PROVE  \E s \in Commands :
                 s[1] = b /\ held'[b] = Token(s) /\ asked'[s] # None
    BY <2>1, <2>2, <2>3, <2>4, <2>5
  <2>6. Current(c)' = t /\ waiting'[c]
    BY <1>0, <2>2
  <2>7. ASSUME NEW s \in Commands, s # t, asked'[s] # None
        PROVE  /\ s[1] # c => Current(s[1])' = Current(s[1])
                               /\ waiting'[s[1]] = waiting[s[1]]
               /\ s[1] = c => got[s] # None /\ s # Current(s[1])'
    <3>1. CASE s[1] # c
      BY <1>0, <2>2, <3>1
    <3>2. CASE s[1] = c
      <4>1. s # Current(s[1])' BY <2>6, <2>7, <3>2
      <4>2. got[s] # None BY <1>0, <2>2, <2>4, <2>7, <3>2
      <4> QED BY <3>2, <4>1, <4>2
    <3> QED BY <3>1, <3>2
  <2>8. held[c] = Empty \/ held[c].is = "token"
    BY DataFacts
  <2>9. /\ f = "list" => d = Empty
        /\ f = "logout" => d = held[c]
        /\ f = "login" => d \in Typed /\ held[c] = Empty
    BY <2>2 DEF MayAsk
  <2> HIDE DEF t
  <2>10. ASSUME NEW s \in Commands, asked'[s] # None
         PROVE /\ got'[s] = None => s = Current(s[1])' /\ waiting'[s[1]]
               /\ asked'[s].func = "list" => asked'[s].data = Empty
               /\ asked'[s].func = "logout" =>
                    /\ asked'[s].data = Empty \/ asked'[s].data.is = "token"
                    /\ s = Current(s[1])' => asked'[s].data = held'[s[1]]
               /\ asked'[s].func = "login" =>
                    /\ asked'[s].data \in Typed
                    /\ s = Current(s[1])' /\ waiting'[s[1]] => held'[s[1]] = Empty
    <3>1. CASE s = t
      BY <2>1, <2>2, <2>3, <2>6, <2>8, <2>9, <3>1
    <3>2. CASE s # t
      <4>1. asked'[s] = asked[s] BY <2>4, <3>2
      <4> HIDE DEF Current
      <4> QED BY <2>2, <2>7, <2>10, <3>2, <4>1
    <3> QED BY <3>1, <3>2
  <2> QED BY <2>5, <2>10 DEF Typed
<1>2. ASSUME NEW c \in Clients, Read(c) PROVE HeldInv'
  <2> DEFINE t == Current(c)
  <2>1. PICK r \in replies :
          /\ r.to = t /\ got' = [got EXCEPT ![t] = r.answer]
          /\ held' = IF asked[t].func = "login" /\ r.answer.type = 0
                       THEN [held EXCEPT ![c] = r.answer.data] ELSE held
    BY <1>2 DEF Read
  <2>2. waiting' = [waiting EXCEPT ![c] = FALSE] /\ UNCHANGED <<asked, count>>
    BY <1>2 DEF Read
  <2>3. /\ t \in Commands /\ t[1] = c /\ r.answer \in Answer
        /\ Answered(t) /\ r.answer = Reply(t)
    BY <2>1 DEF TypeInv, TypeOK, NetType, AnswerInv
  <2>4. asked[t] \in Request /\ asked[t] # None /\ func[t] = asked[t].func
    BY <2>3, NoneAssumption DEF Answered, HandoverInv
  <2>5. ASSUME asked[t].func = "login", r.answer.type = 0
        PROVE  held' = [held EXCEPT ![c] = Token(t)]
    <3>1. ~Malformed(t) BY <2>5 DEF Malformed
    <3>2. t \in Served /\ r.answer = out[t]
      BY <2>3, <3>1 DEF Answered, Served, Reply
    <3> QED BY <2>1, <2>4, <2>5, <3>2 DEF AnswerInv
  <2>6. held' = held \/ (asked[t].func = "login" /\ held' = [held EXCEPT ![c] = Token(t)])
    BY <2>1, <2>5
  <2>7. \A s \in Commands : got'[s] = IF s = t THEN r.answer ELSE got[s]
    BY <1>0, <2>1
  <2>8. r.answer # None
    BY <2>3, NoneAssumption
  <2> HIDE DEF t
  <2>9. \A s \in Commands : s # t /\ s = Current(s[1]) => s[1] # c
    BY DEF t
  <2>10. \A b \in Clients : Current(b)' = Current(b)
    BY <2>2
  <2>11. ASSUME NEW b \in Clients, held'[b] # Empty
         PROVE  \E s \in Commands :
                  s[1] = b /\ held'[b] = Token(s) /\ asked'[s] # None
    BY <1>0, <2>2, <2>3, <2>4, <2>6, <2>11
  <2> HIDE DEF Current
  <2>12. ASSUME NEW s \in Commands, asked'[s] # None
         PROVE /\ got'[s] = None => s = Current(s[1])' /\ waiting'[s[1]]
               /\ asked'[s].func = "list" => asked'[s].data = Empty
               /\ asked'[s].func = "logout" =>
                    /\ asked'[s].data = Empty \/ asked'[s].data.is = "token"
                    /\ s = Current(s[1])' => asked'[s].data = held'[s[1]]
               /\ asked'[s].func = "login" =>
                    /\ asked'[s].data \in Typed
                    /\ s = Current(s[1])' /\ waiting'[s[1]] => held'[s[1]] = Empty
    <3>1. CASE s = t
      <4>1. t = Current(c) /\ Current(c)' = Current(c) BY <2>10 DEF t
      <4>2. got'[s] # None /\ ~waiting'[c]
        BY <1>0, <2>2, <2>3, <2>7, <2>8, <3>1
      <4> QED BY <1>0, <2>2, <2>3, <2>6, <2>12, <3>1, <4>1, <4>2
    <3>2. CASE s # t
      <4>1. s = Current(s[1])' => /\ s[1] # c /\ held'[s[1]] = held[s[1]]
                                  /\ waiting'[s[1]] = waiting[s[1]]
        BY <1>0, <2>2, <2>6, <2>9, <2>10, <3>2
      <4>2. /\ Current(s[1])' = Current(s[1]) /\ asked'[s] = asked[s]
            /\ asked[s] # None /\ got'[s] = got[s]
        BY <1>0, <2>2, <2>7, <2>10, <2>12, <3>2
      <4>3. got'[s] = None => s = Current(s[1])' /\ waiting'[s[1]]
        BY <4>1, <4>2
      <4>4. asked'[s].func = "logout" =>
              /\ asked'[s].data = Empty \/ asked'[s].data.is = "token"
              /\ s = Current(s[1])' => asked'[s].data = held'[s[1]]
        BY <4>1, <4>2
      <4>5. asked'[s].func = "login" =>
              /\ asked'[s].data \in Typed
              /\ s = Current(s[1])' /\ waiting'[s[1]] => held'[s[1]] = Empty
        BY <4>1, <4>2
      <4> QED BY <4>2, <4>3, <4>4, <4>5
    <3> QED BY <3>1, <3>2
  <2> QED BY <2>11, <2>12 DEF Typed
<1>3. CASE UNCHANGED <<held, asked, got, count, waiting>>
  BY <1>3 DEF Typed
<1>4. ASSUME NEW t \in Commands, Lose(t) PROVE HeldInv'
  BY <1>3, <1>4 DEF Lose, clientVars, history
<1>5. CASE ManagerStep
  BY <1>3, <1>5
  DEF ManagerStep, Recvfrom, SetAdr, SetRequest, Create, ManagerAt, clientVars,
      history
<1>6. ASSUME NEW t \in Commands, ThreadStep(t) PROVE HeldInv'
  BY <1>3, <1>6, ThreadFrame DEF clientVars
<1>7. CASE UNCHANGED vars
  BY <1>3, <1>7 DEF vars, clientVars, history
<1> QED BY <1>1, <1>2, <1>4, <1>5, <1>6, <1>7 DEF Next, ClientStep

-----------------------------------------------------------------------------
(* A session is its client's own.                                          *)

HasSession(t) ==
  \E s \in sessions : s.token = t /\ User(s.user) = asked[t].data

LoggedOut(c) ==
  /\ Current(c) \in Served /\ func[Current(c)] = "logout"
  /\ ~Malformed(Current(c)) /\ out[Current(c)].type = 0

\* A log in that went right has its session until its client logs out.
SessionInv ==
  /\ \A t \in Served : func[t] = "login" /\ out[t].type = 0 =>
       held[t[1]] = Token(t) \/ HasSession(t)
  /\ \A c \in Clients, t \in Commands :
       held[c] = Token(t) => HasSession(t) \/ LoggedOut(c)

IInv == TypeInv /\ HandoverInv /\ WorkInv /\ AnswerInv /\ HeldInv

\* A session is removed by the log out of the client that holds its token.
LEMMA LogoutRemoves ==
  ASSUME IInv, [Next]_vars, NEW s \in sessions, s \notin sessions'
  PROVE  \E c \in Clients :
           /\ waiting[c] /\ held[c] = Token(s.token) /\ c = s.token[1]
           /\ asked[Current(c)].func = "logout" /\ LoggedOut(c)'
<1>0. s.token \in Commands
  BY DEF IInv, TypeInv, TypeOK, StoreType
<1>1. PICK t \in Commands : Act(t)
  BY DEF Next, ClientStep, Ask, Read, Lose, ManagerStep, Recvfrom, SetAdr,
         SetRequest, Create, ManagerAt, ThreadStep, Start, StartLogout, BadType,
         BadData, BadSend, Copy, WriteType, WriteData, Sendto, store, vars
<1>2. /\ Logout(t) /\ arg[t] = Token(s.token)
      /\ out' = [out EXCEPT ![t] = Yes]
  BY <1>1
  DEF Act, Login, Logout, AccountCreation, AccountDeletion, ConnectedUsersList,
      store
<1>3. /\ pc[t] = "act" /\ arg[t] = Effective(t) /\ t \notin Served
      /\ func[t] = "logout" /\ asked[t].func = "logout" /\ asked[t] \in Request
  BY <1>1, <1>2 DEF Act, At, Logout, IInv, WorkInv, HandoverInv, Served
<1>4. ~Malformed(t) /\ asked[t].data = Token(s.token)
  BY <1>0, <1>2, <1>3, DataFacts DEF Effective
<1>5. got[t] = None
  BY <1>3, <1>4 DEF IInv, AnswerInv, Answered
<1>6. t = Current(t[1]) /\ waiting[t[1]] /\ held[t[1]] = Token(s.token)
  BY <1>3, <1>4, <1>5, NoneAssumption DEF IInv, HeldInv
<1>7. t[1] \in Clients
  BY CommandFacts
<1>8. t[1] = s.token[1]
  BY <1>0, <1>6, <1>7, DataFacts DEF IInv, HeldInv
<1>9. LoggedOut(t[1])'
  <2>1. pc' = [pc EXCEPT ![t] = "type"] /\ UNCHANGED <<count, asked, func>>
    BY <1>1 DEF Act, Goto, clientVars
  <2>2. out'[t].type = 0 /\ pc'[t] = "type"
    BY <1>2, <2>1 DEF IInv, TypeInv, TypeOK, ThreadType, Yes
  <2>3. Current(t[1])' = t
    BY <1>6, <2>1 DEF Current
  <2> QED
    BY <1>3, <1>4, <2>1, <2>2, <2>3 DEF LoggedOut, Served, Malformed
<1> QED BY <1>3, <1>6, <1>7, <1>8, <1>9

LEMMA SessionInductive ==
  ASSUME IInv, SessionInv, [Next]_vars
  PROVE  SessionInv'
<1> USE DEF SessionInv
<1>0. /\ asked \in [Commands -> Request \cup {None}] /\ pc \in [Commands -> Pcs]
      /\ func \in [Commands -> Funcs \cup {None}]
      /\ out \in [Commands -> Answer \cup {None}]
      /\ held \in [Clients -> Data] /\ count \in [Clients -> Nat]
      /\ \A t \in Commands : t[1] \in Clients
      /\ \A t \in Served : asked[t] \in Request /\ func[t] = asked[t].func
  BY CommandFacts
  DEF IInv, TypeInv, TypeOK, ClientType, ThreadType, HandoverInv, Served
<1>1. ASSUME NEW t \in Commands, HasSession(t), asked'[t] = asked[t]
      PROVE  \/ HasSession(t)'
             \/ held[t[1]] = Token(t) /\ LoggedOut(t[1])'
  BY <1>1, LogoutRemoves DEF HasSession
<1>2. ASSUME NEW c \in Clients, NEW t \in Commands, held[c] = Token(t)
      PROVE  t[1] = c /\ asked[t] # None
  BY <1>2, DataFacts DEF IInv, HeldInv
<1>3. CASE /\ Served' = Served /\ UNCHANGED <<held, asked, func, out, count>>
  <2>1. \A c \in Clients : LoggedOut(c) => LoggedOut(c)'
    BY <1>3 DEF LoggedOut, Current, Malformed
  <2> QED BY <1>0, <1>1, <1>2, <1>3, <2>1 DEF Served
<1>4. ASSUME NEW c \in Clients, NEW f \in Funcs, NEW d \in Data, Ask(c, f, d)
      PROVE  SessionInv'
  <2> DEFINE t == <<c, count[c] + 1>>
  <2>1. t \in Commands /\ asked[t] = None /\ t[1] = c
    BY <1>4, AskFresh DEF IInv
  <2>2. /\ ~waiting[c] /\ ~Ended(c) /\ count' = [count EXCEPT ![c] = @ + 1]
        /\ \A s \in Commands : s # t => asked'[s] = asked[s]
        /\ UNCHANGED <<held, func, out, pc, sessions>>
    BY <1>0, <1>4 DEF Ask, threadVars, store
  <2>3. ~LoggedOut(c)
    <3> SUFFICES ASSUME LoggedOut(c) PROVE FALSE
      OBVIOUS
    <3> DEFINE u == Current(c)
    <3>1. u \in Commands /\ u \in Served /\ u[1] = c /\ asked[u] \in Request
      BY <1>0 DEF LoggedOut, Served, Current
    <3>2. got[u] # None
      BY <2>2, <3>1, NoneAssumption DEF IInv, HeldInv
    <3>3. got[u] = out[u]
      BY <3>1, <3>2 DEF IInv, AnswerInv, Reply, LoggedOut
    <3>4. asked[u].func = "logout" /\ got[u].type = 0 /\ asked[u] # None
      BY <1>0, <3>1, <3>3, NoneAssumption DEF LoggedOut
    <3> QED BY <2>2, <3>1, <3>2, <3>4 DEF Ended
  <2>4. \A s \in Commands : asked[s] # None => s # t
    BY <2>1
  <2>5. \A s \in Served : asked'[s] = asked[s]
    BY <1>0, <2>2, <2>4, NoneAssumption DEF Served
  <2>6. ASSUME NEW b \in Clients, LoggedOut(b) PROVE LoggedOut(b)'
    <3>1. b # c BY <2>3, <2>6
    <3>2. Current(b)' = Current(b)
      BY <1>0, <2>2, <3>1 DEF Current
    <3> QED BY <2>2, <2>5, <2>6, <3>2 DEF LoggedOut, Served, Malformed
  <2>7. \A s \in Commands : asked[s] # None /\ HasSession(s) => HasSession(s)'
    BY <2>2, <2>4 DEF HasSession
  <2>8. \A s \in Served : asked[s] # None /\ s \in Commands
    BY <1>0, NoneAssumption DEF Served
  <2>9. Served' = Served
    BY <2>2 DEF Served
  <2> QED BY <1>0, <1>2, <2>2, <2>6, <2>7, <2>8, <2>9
<1>5. ASSUME NEW c \in Clients, Read(c) PROVE SessionInv'
  <2> DEFINE t == Current(c)
  <2>1. PICK r \in replies :
          /\ r.to = t
          /\ held' = IF asked[t].func = "login" /\ r.answer.type = 0
                       THEN [held EXCEPT ![c] = r.answer.data] ELSE held
    BY <1>5 DEF Read
  <2>2. waiting[c] /\ UNCHANGED <<asked, func, out, count, pc, sessions>>
    BY <1>5 DEF Read, threadVars, store
  <2>3. CASE held' = held
    BY <1>3, <2>2, <2>3 DEF Served
  <2>4. CASE held' # held
    <3>1. /\ asked[t].func = "login" /\ r.answer.type = 0
          /\ held' = [held EXCEPT ![c] = r.answer.data]
      BY <2>1, <2>4
    <3>2. t \in Commands /\ t[1] = c /\ Answered(t) /\ r.answer = Reply(t)
      BY <2>1 DEF IInv, TypeInv, TypeOK, NetType, AnswerInv, Current
    <3>3. ~Malformed(t) BY <3>1 DEF Malformed
    <3>4. t \in Served /\ r.answer = out[t]
      BY <3>2, <3>3 DEF Answered, Served, Reply
    <3>5. func[t] = "login" /\ asked[t] # None
      BY <1>0, <3>1, <3>4, NoneAssumption
    <3>6. r.answer.data = Token(t)
      BY <3>1, <3>4, <3>5 DEF IInv, AnswerInv
    <3>7. held[c] = Empty
      BY <2>2, <3>1, <3>2, <3>5 DEF IInv, HeldInv
    <3>8. HasSession(t)
      BY <3>1, <3>2, <3>4, <3>5, <3>7, DataFacts
    <3>9. /\ \A s \in Commands : HasSession(s)' <=> HasSession(s)
          /\ \A b \in Clients : LoggedOut(b)' <=> LoggedOut(b)
          /\ Served' = Served
      BY <2>2 DEF HasSession, LoggedOut, Current, Served, Malformed
    <3>10. ASSUME NEW s \in Served, func'[s] = "login", out'[s].type = 0
           PROVE  held'[s[1]] = Token(s) \/ HasSession(s)'
      <4>1. s \in Commands BY DEF Served
      <4>2. held[s[1]] = Token(s) \/ HasSession(s) BY <2>2, <3>10
      <4>3. held[s[1]] = Token(s) => s[1] # c BY <3>7, <4>1, DataFacts
      <4> QED BY <1>0, <3>1, <3>9, <4>1, <4>2, <4>3
    <3>11. ASSUME NEW b \in Clients, NEW s \in Commands, held'[b] = Token(s)
           PROVE  HasSession(s)' \/ LoggedOut(b)'
      <4>1. CASE b = c
        <5>1. Token(s) = Token(t) BY <1>0, <3>1, <3>6, <3>11, <4>1
        <5>2. s = t BY <3>2, <5>1, DataFacts
        <5> QED BY <3>8, <3>9, <5>2
      <4>2. CASE b # c
        <5>1. held[b] = Token(s) BY <1>0, <3>1, <3>11, <4>2
        <5> QED BY <3>9, <5>1
      <4> QED BY <4>1, <4>2
    <3> QED BY <3>9, <3>10, <3>11
  <2> QED BY <2>3, <2>4
<1>6. ASSUME NEW t \in Commands, Act(t) PROVE SessionInv'
  <2>1. /\ pc[t] = "act" /\ arg[t] = Effective(t) /\ t \notin Served
        /\ func[t] = asked[t].func /\ asked[t] \in Request
        /\ UNCHANGED <<held, asked, func, count>>
        /\ Served' = Served \cup {t}
    BY <1>0, <1>6
    DEF Act, At, Goto, IInv, WorkInv, HandoverInv, Served, clientVars
  <2>2. \A s \in Served : out'[s] = out[s] /\ s \in Commands
    BY <1>0, <1>6, <2>1, ActFrame DEF IInv, Served
  <2>3. \A c \in Clients : LoggedOut(c) => LoggedOut(c)'
    BY <2>1, <2>2 DEF LoggedOut, Current, Malformed
  <2>4. ASSUME func[t] = "login", out'[t].type = 0 PROVE HasSession(t)'
    <3>1. Login(t)
      BY <1>6, <2>4
      DEF Act, Logout, AccountCreation, AccountDeletion, ConnectedUsersList
    <3>2. HasName(t) /\ [user |-> NameOf(t), token |-> t] \in sessions'
      BY <1>0, <2>4, <3>1, DataFacts DEF Login
    <3>3. arg[t] \in Data /\ arg[t] = asked[t].data
      <4>1. asked[t].func # "logout" BY <2>1, <2>4
      <4>2. ~Malformed(t) BY <4>1 DEF Malformed
      <4>3. arg[t] \in Data BY DEF IInv, TypeInv, TypeOK, ThreadType
      <4> QED BY <2>1, <4>2, <4>3 DEF Effective
    <3>4. User(NameOf(t)) = asked'[t].data
      BY <2>1, <3>2, <3>3, DataFacts DEF HasName, NameOf
    <3> QED BY <3>2, <3>4 DEF HasSession
  <2> QED BY <1>0, <1>1, <1>2, <2>1, <2>2, <2>3, <2>4
<1>7. ASSUME NEW t \in Commands,
             \/ Start(t) \/ StartLogout(t) \/ BadType(t) \/ BadData(t)
             \/ BadSend(t) \/ Copy(t) \/ WriteType(t) \/ WriteData(t) \/ Sendto(t)
      PROVE  SessionInv'
  <2>1. UNCHANGED <<held, asked, func, out, count>>
    BY <1>7
    DEF Start, StartLogout, BadType, BadData, BadSend, Copy, WriteType, WriteData,
        Sendto, Goto, clientVars
  <2>2. Served' = Served
    BY <1>0, <1>7
    DEF Start, StartLogout, BadType, BadData, BadSend, Copy, WriteType, WriteData,
        Sendto, At, Goto, Served
  <2> QED BY <1>3, <2>1, <2>2
<1>8. ASSUME NEW t \in Commands, Lose(t) PROVE SessionInv'
  BY <1>3, <1>8 DEF Lose, clientVars, threadVars, history, Served
<1>9. CASE (\E t \in Commands : Recvfrom(t)) \/ SetAdr \/ SetRequest
  BY <1>3, <1>9
  DEF Recvfrom, SetAdr, SetRequest, ManagerAt, clientVars, threadVars, history,
      Served
<1>10. CASE Create
  <2>1. /\ taken \in Commands /\ pc[taken] = "none"
        /\ pc' = [pc EXCEPT ![taken] = "start"]
        /\ func' = [func EXCEPT ![taken] = asked[taken].func]
        /\ UNCHANGED <<held, asked, out, count, sessions>>
    BY <1>10
    DEF Create, ManagerAt, clientVars, history, store, IInv, HandoverInv, TypeInv,
        TakenInv
  <2>2. Served' = Served /\ \A s \in Served : func'[s] = func[s]
    BY <1>0, <2>1 DEF Served
  <2>3. \A c \in Clients : LoggedOut(c) => LoggedOut(c)'
    BY <2>1, <2>2 DEF LoggedOut, Current, Malformed
  <2> QED BY <1>0, <1>1, <1>2, <2>1, <2>2, <2>3 DEF Served
<1>11. CASE UNCHANGED vars
  BY <1>3, <1>11 DEF vars, clientVars, threadVars, history, Served
<1> QED
  BY <1>4, <1>5, <1>6, <1>7, <1>8, <1>9, <1>10, <1>11
  DEF Next, ClientStep, ManagerStep, ThreadStep

-----------------------------------------------------------------------------
LEMMA InitIInv == Init => IInv /\ SessionInv
BY InitTypes, DataFacts
DEF Init, IInv, HandoverInv, WorkInv, AnswerInv, HeldInv, SessionInv, Served,
    Running

LEMMA IInvInductive ==
  ~Overlap /\ IInv /\ SessionInv /\ [Next]_vars => IInv' /\ SessionInv'
BY TypesInductive, HandoverInductive, WorkInductive, AnswerInductive,
   HeldInductive, SessionInductive
DEF IInv

\* With Overlap off a command is carried out with its own function and its own
\* data, whatever datagrams are lost (main.c:220-221, 248); a log out without a
\* token is carried out on the text that answered it.
THEOREM CommandsServedAsAsked ==
  ASSUME ~Overlap PROVE Spec => []ServedAsAsked
<1>1. IInv => ServedAsAsked
  <2> SUFFICES ASSUME IInv, NEW t \in Commands, did[t] # None
               PROVE  IF Malformed(t)
                        THEN did[t] = [func |-> "logout", data |-> Text]
                        ELSE did[t] = asked[t]
    BY DEF ServedAsAsked
  <2>1. did[t] = [func |-> asked[t].func, data |-> Effective(t)]
    BY DEF IInv, WorkInv
  <2>2. t \in Served
    BY DEF IInv, WorkInv
  <2>3. asked[t] \in Request
    BY <2>2 DEF IInv, HandoverInv, Served
  <2> QED BY <2>1, <2>3 DEF Effective, Malformed, Request
<1> QED BY <1>1, InitIInv, IInvInductive, PTL DEF Spec

\* With Overlap off the answer that a client reads is the outcome of its own
\* command (request_management.c), a malformed log out's being that it is wrong.
THEOREM AnswersAreOutcomes ==
  ASSUME ~Overlap PROVE Spec => []AnsweredAsServed
<1>1. IInv => AnsweredAsServed
  BY DEF IInv, AnswerInv, Reply, AnsweredAsServed
<1> QED BY <1>1, InitIInv, IInvInductive, PTL DEF Spec

\* With Overlap off a client that was given a token is logged in, under the
\* account it named, until its own log out is asked.
THEOREM SessionsAreOwn ==
  ASSUME ~Overlap PROVE Spec => []SessionIsMine
<1>1. IInv /\ SessionInv => SessionIsMine
  <2> SUFFICES ASSUME IInv, SessionInv, NEW c \in Clients, held[c] # Empty
               PROVE  /\ held[c].is = "token" /\ held[c].val[1] = c
                      /\ \/ \E s \in sessions :
                              /\ Token(s.token) = held[c]
                              /\ User(s.user) = asked[s.token].data
                         \/ asked[Current(c)].func = "logout"
    BY DEF SessionIsMine
  <2>1. PICK t \in Commands : t[1] = c /\ held[c] = Token(t)
    BY DEF IInv, HeldInv
  <2>2. CASE HasSession(t)
    BY <2>1, <2>2, DataFacts DEF HasSession
  <2>3. CASE LoggedOut(c)
    BY <2>1, <2>3, DataFacts DEF LoggedOut, Served, IInv, HandoverInv
  <2> QED BY <2>1, <2>2, <2>3 DEF SessionInv
<1> QED BY <1>1, InitIInv, IInvInductive, PTL DEF Spec

\* With Overlap off a session is removed only by the log out that its own client
\* waits for (user_management.c:43-50).
THEOREM LogoutsAreOwn ==
  ASSUME ~Overlap PROVE Spec => OnlyOwnLogout
<1>1. IInv /\ [Next]_vars =>
        [\A s \in sessions \ sessions' : \E c \in Clients :
           /\ waiting[c] /\ held[c] = Token(s.token)
           /\ asked[Current(c)].func = "logout"]_vars
  BY LogoutRemoves
<1> QED BY <1>1, InitIInv, IInvInductive, PTL DEF Spec, OnlyOwnLogout

=============================================================================
