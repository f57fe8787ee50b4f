------------------------------ MODULE Accounts ------------------------------
(***************************************************************************)
(* The account file, users.txt, and the request threads that read and      *)
(* write it without a lock. Each fopen reads or writes the file at its own *)
(* moment: findNickname reads it three times (numberOfLines for its own    *)
(* loop, numberOfLines for the list, the list), delete three times more    *)
(* before it truncates the file and writes it anew when it closes it.      *)
(***************************************************************************)
EXTENDS Naturals, Sequences, SequencesExt

CONSTANTS
  Requests,    \* log ins, creations and deletions over the server's life
  Names,       \* user names
  Passwords,   \* passwords, as the words fscanf reads: one with a blank has two
  Files,       \* what users.txt may hold when the server starts
  Junk, None   \* a word nobody wrote; no request, no list

PasswordWords == UNION {ToSet(p) : p \in Passwords}

ASSUME PasswordAssumption == Passwords \subseteq Seq(PasswordWords)
ASSUME FileAssumption     == Files \subseteq Seq(Names \X PasswordWords)
ASSUME WordAssumption     == {Junk, ""} \cap (Names \cup PasswordWords) = {}

VARIABLES
  exists, file,           \* users.txt: its lines, each a sequence of words
  pc, request, result,    \* request threads
  length, size, couples,  \* findNickname's length, listOfCouples's length, list
  lines, old, var,        \* delete's length, couples and var
  missing,                \* threads in numberOfLines that saw no file
  start,                  \* history: the file when the server first started
  sound, wild             \* history: the promise holds; a list was overrun

vars == <<exists, file, pc, request, result, length, size, couples, lines, old,
          var, missing, start, sound, wild>>
finding  == <<length, size, couples>>
deleting == <<lines, old, var>>

Inputs == [op : {"login", "create", "delete"}, name : Names, password : Passwords]
ASSUME NoneAssumption == None \notin Inputs /\ None \notin {"yes", "no", "lost"}

Words  == Names \cup PasswordWords \cup {Junk, ""}
Pcs    == {"none", "length", "size", "read", "oldSize", "oldRead", "lines",
           "append", "truncate", "rewrite", "done"}

TypeOK ==
  /\ exists \in BOOLEAN /\ sound \in BOOLEAN /\ wild \in BOOLEAN
  /\ file \in Seq(Seq(Words)) /\ start \in Files
  /\ pc \in [Requests -> Pcs]
  /\ request \in [Requests -> Inputs \cup {None}]
  /\ result \in [Requests -> {"yes", "no", "lost", None}]
  /\ length \in [Requests -> Nat] /\ size \in [Requests -> Nat]
  /\ lines \in [Requests -> Nat] /\ var \in [Requests -> Nat]
  /\ \A r \in Requests : \A list \in {couples[r], old[r]} \ {None} :
       list \in Seq(Words \X Words)
  /\ missing \subseteq Requests

Init ==
  /\ file \in Files /\ start = file /\ exists = (file # <<>>)
  /\ pc = [r \in Requests |-> "none"]
  /\ request = [r \in Requests |-> None] /\ result = [r \in Requests |-> None]
  /\ length = [r \in Requests |-> 0] /\ size = [r \in Requests |-> 0]
  /\ lines = [r \in Requests |-> 0] /\ var = [r \in Requests |-> 0]
  /\ couples = [r \in Requests |-> None] /\ old = [r \in Requests |-> None]
  /\ missing = {} /\ sound = TRUE /\ wild = FALSE

-----------------------------------------------------------------------------
At(r, label)   == pc[r] = label /\ r \notin missing
Goto(r, label) == pc' = [pc EXCEPT ![r] = label]
Return(r, answer) ==
  Goto(r, "done") /\ result' = [result EXCEPT ![r] = answer]

Ask(r) ==
  /\ pc[r] = "none"
  /\ \E input \in Inputs : request' = [request EXCEPT ![r] = input]
  /\ Goto(r, "length")
  /\ UNCHANGED <<exists, file, result, finding, deleting, missing, wild>>

\* Fault: the result of access() is taken the wrong way round.
SeeFile(r) ==
  /\ pc[r] \in {"length", "size", "oldSize", "lines"} /\ exists
  /\ missing' = missing \cup {r}
  /\ UNCHANGED <<exists, file, pc, request, result, finding, deleting, wild>>

\* numberOfLines: access() finds no file, and fopen(path, "w") makes one.
SeeNoFile(r) ==
  /\ pc[r] \in {"length", "size", "oldSize", "lines"} /\ ~exists
  /\ missing' = missing \cup {r}
  /\ UNCHANGED <<exists, file, pc, request, result, finding, deleting, wild>>

MakeFile(r) ==
  /\ r \in missing
  /\ missing' = missing \ {r}
  /\ exists' = TRUE /\ file' = <<>>
  /\ UNCHANGED <<pc, request, result, finding, deleting, wild>>

\* numberOfLines, called by findNickname, listOfCouples and delete.
NumberOfLines(r) ==
  /\ exists /\ r \notin missing
  /\ \/ /\ pc[r] = "length" /\ Goto(r, "size")
        /\ length' = [length EXCEPT ![r] = Len(file)]
        /\ UNCHANGED <<size, lines>>
     \/ /\ pc[r] \in {"size", "oldSize"}
        /\ Goto(r, IF pc[r] = "size" THEN "read" ELSE "oldRead")
        /\ size' = [size EXCEPT ![r] = Len(file)]
        /\ UNCHANGED <<length, lines>>
     \/ /\ pc[r] = "lines" /\ Goto(r, "length")
        /\ lines' = [lines EXCEPT ![r] = Len(file)]
        /\ UNCHANGED <<length, size>>
  /\ UNCHANGED <<exists, file, request, result, couples, old, var, missing, wild>>

\* Fault: a couple is a line.
ListOfCouplesByLine(n) ==
  {[i \in 1 .. n |-> IF i <= Len(file) THEN file[i] ELSE <<rest, rest>>] :
     rest \in {Junk, ""}}

\* fscanf takes two words for a couple, whatever lines they are on, and leaves
\* what malloc returned where there are none left.
ListOfCouples(n) ==
  LET words == FlattenSeq(file)
      word(i, rest) == IF i <= Len(words) THEN words[i] ELSE rest
  IN  {[i \in 1 .. n |-> <<word(2 * i - 1, rest), word(2 * i, rest)>>] :
         rest \in {Junk, ""}}

ReadOld(r) ==
  /\ At(r, "oldRead")
  /\ \E list \in ListOfCouples(size[r]) : old' = [old EXCEPT ![r] = list]
  /\ Goto(r, "lines")
  /\ UNCHANGED <<exists, file, request, result, finding, lines, var, missing, wild>>

\* The couples with the name. The loop of findNickname does not stop at one.
Hits(r, list) ==
  {k \in 1 .. length[r] : k <= Len(list) /\ list[k][1] = request[r].name}
LastHit(hits) == CHOOSE k \in hits : \A j \in hits : j <= k
\* Fault: the password may be anybody's.
RightPasswordOfAny(r, list) ==
  /\ Hits(r, list) # {}
  /\ \E k \in DOMAIN list : request[r].password = <<list[k][2]>>

RightPassword(r, list) ==
  LET hits == Hits(r, list)
  IN  hits # {} /\ request[r].password = <<list[LastHit(hits)][2]>>

\* The list is read and searched; findNickname is called with the password by
\* login and account_deletion, without it by creation and delete.
Read(r) ==
  /\ At(r, "read")
  /\ wild' = (wild \/ length[r] > size[r])
  /\ \E list \in ListOfCouples(size[r]) :
       /\ couples' = [couples EXCEPT ![r] = list]
       /\ LET op == request[r].op
              hits == Hits(r, list)
          IN \/ /\ op = "login" /\ UNCHANGED var
                /\ Return(r, IF RightPassword(r, list) THEN "yes" ELSE "no")
             \/ /\ op = "create" /\ UNCHANGED var
                /\ IF hits = {} THEN Goto(r, "append") /\ UNCHANGED result
                                ELSE Return(r, "no")
             \/ /\ op = "delete" /\ old[r] = None /\ UNCHANGED var
                /\ IF RightPassword(r, list)
                     THEN Goto(r, "oldSize") /\ UNCHANGED result
                     ELSE Return(r, "no")
             \/ /\ op = "delete" /\ old[r] # None
                /\ IF hits = {} THEN Return(r, "no") /\ UNCHANGED var
                     ELSE /\ Goto(r, "truncate") /\ UNCHANGED result
                          /\ var' = [var EXCEPT ![r] = LastHit(hits)]
  /\ UNCHANGED <<exists, file, request, length, size, lines, old, missing>>

\* creation: the line is written behind the last one when the file is closed.
AppendLine(r) ==
  /\ At(r, "append")
  /\ file' = Append(file, <<request[r].name>> \o request[r].password)
  /\ exists' = TRUE
  /\ Return(r, "yes")
  /\ UNCHANGED <<request, finding, deleting, missing, wild>>

\* delete: fopen(path, "w+") empties the file,
Truncate(r) ==
  /\ At(r, "truncate")
  /\ file' = <<>>
  /\ Goto(r, "rewrite")
  /\ UNCHANGED <<exists, request, result, finding, deleting, missing, wild>>

\* ... and fclose writes the couples from its start, over what came meanwhile.
AllBut(n, k) ==
  LET all == [i \in 1 .. n |-> i] IN IF k \in 1 .. n THEN RemoveAt(all, k) ELSE all
KeptOneShort(r) == AllBut(lines[r] - 1, var[r])      \* Fault: i < length - 1
Kept(r) == AllBut(lines[r], var[r])
\* fscanf takes nothing for an empty word.
Word(w) == IF w = "" THEN <<>> ELSE <<w>>
Line(r, i) ==
  IF i > Len(old[r]) THEN <<Junk, Junk>> ELSE Word(old[r][i][1]) \o Word(old[r][i][2])

Rewrite(r) ==
  LET kept == [i \in DOMAIN Kept(r) |-> Line(r, Kept(r)[i])]
  IN  /\ At(r, "rewrite")
      /\ file' = kept \o SubSeq(file, Len(kept) + 1, Len(file))
      /\ wild' = (wild \/ lines[r] > Len(old[r]))
      /\ Return(r, "yes")
      /\ UNCHANGED <<exists, request, finding, deleting, missing>>

\* The server dies (a signal, SIGPIPE, a read behind a list) and is started
\* again: its threads are gone, the file stays.
Running(r) == pc[r] \notin {"none", "done"}
Crash ==
  /\ \E r \in Requests : Running(r)
  /\ pc' = [r \in Requests |-> IF Running(r) THEN "done" ELSE pc[r]]
  /\ result' = [r \in Requests |-> IF Running(r) THEN "lost" ELSE result[r]]
  /\ missing' = {}
  /\ UNCHANGED <<exists, file, request, finding, deleting, wild>>

RequestStep(r) ==
  \/ Ask(r) \/ SeeNoFile(r) \/ MakeFile(r) \/ NumberOfLines(r) \/ ReadOld(r)
  \/ Read(r) \/ AppendLine(r) \/ Truncate(r) \/ Rewrite(r)

-----------------------------------------------------------------------------
(* What the promise needs: creations and deletions take turns, none runs   *)
(* while a thread is about to make the file, no new password has a blank,  *)
(* and the server does not die between Truncate and Rewrite.               *)
Writers == {r \in Requests : Running(r) /\ request[r].op # "login"}
Apart ==
  /\ \A r, q \in Writers : r = q
  /\ Writers # {} => missing \subseteq Writers
  /\ \A r \in Writers : request[r].op = "create" => Len(request[r].password) = 1
Torn == \E r \in Requests : pc[r] = "rewrite" /\ result'[r] = "lost"

Next ==
  /\ (\E r \in Requests : RequestStep(r)) \/ Crash
  /\ sound' = (sound /\ Apart' /\ ~Torn)
  /\ UNCHANGED start

Spec == Init /\ [][Next]_vars

-----------------------------------------------------------------------------
\* The accounts of the file, and of the file before it was emptied.
AccountsIn(fileLines) ==
  {[name |-> l[1], password |-> Tail(l)] : l \in ToSet(fileLines)}
Accounts ==
  IF ~sound THEN {}
  ELSE IF \E r \in Requests : pc[r] = "rewrite"
         THEN AccountsIn(old[CHOOSE r \in Requests : pc[r] = "rewrite"])
         ELSE AccountsIn(file)

Promise == INSTANCE AccountSet WITH accounts <- Accounts

\* The file implements a set of accounts, each in it once and removed by its
\* own deletion only, as long as creations and deletions take turns, log ins
\* come at any time, and passwords have no blank (user_management.h:83, 94).
ServesAccounts == Promise!Spec

\* Nobody logs in with an account that was neither in the file when the server
\* first started nor created since, races, crashes and garbage in lists
\* included, as long as no password has a blank (user_management.h:82-83).
NoInventedAccount ==
  (\A r \in Requests : request[r] # None => Len(request[r].password) = 1) =>
  \A r \in Requests :
    (result[r] = "yes" /\ request[r].op = "login") =>
      \/ Promise!Account(r) \in AccountsIn(start)
      \/ \E q \in Requests : /\ request[q] = [request[r] EXCEPT !.op = "create"]
                             /\ result[q] = "yes"

\* While the promise holds, a thread runs over the end of its list
\* (user_management.c:101-102) only next to a deletion, which alone makes the
\* file shorter.
OverrunNeedsDeletion ==
  sound /\ wild =>
    \E r \in Requests : request[r] # None /\ request[r].op = "delete" /\ var[r] # 0

=============================================================================
