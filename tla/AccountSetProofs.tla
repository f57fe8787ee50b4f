-------------------------- MODULE AccountSetProofs --------------------------
(***************************************************************************)
(* Proof that the account file serves a set of accounts: Accounts          *)
(* implements AccountSet for any requests, names and passwords, and any    *)
(* file that names each account once.                                      *)
(***************************************************************************)
EXTENDS AccountsProofs

AccountLines == Names \X PasswordWords

\* A file names each account once.
Once(s) == \A i, j \in 1 .. Len(s) : s[i][1] = s[j][1] => i = j

\* Line i of s is the account of the request.
NamedAt(r, s, i) == s[i][1] = request[r].name /\ request[r].password = <<s[i][2]>>
Listed(r, s)     == \E i \in 1 .. Len(s) : NamedAt(r, s, i)
Chosen(r, s)     == var[r] \in 1 .. Len(s) /\ NamedAt(r, s, var[r])

-----------------------------------------------------------------------------
(* What a creation or a deletion knows between two of its readings, when   *)
(* none other runs: the file is still what it was when it looked.          *)

\* A deletion that has seen its account in the file.
Found(r) ==
  \/ pc[r] \in {"oldSize", "oldRead", "lines"}
  \/ old[r] # None /\ pc[r] \in {"length", "size", "read"}

TurnOf(r) ==
  /\ pc[r] \in {"size", "read"} => length[r] = Len(file)
  /\ pc[r] \in {"read", "oldRead"} => size[r] = Len(file)
  /\ pc[r] = "append" => \A i \in 1 .. Len(file) : file[i][1] # request[r].name
  /\ Found(r) => Listed(r, file)
  /\ old[r] # None /\ pc[r] \in {"lines", "length", "size", "read", "truncate"} =>
       old[r] = file
  /\ old[r] # None /\ pc[r] \in {"length", "size", "read", "truncate"} =>
       lines[r] = Len(file)
  /\ pc[r] = "truncate" => Chosen(r, file)
  /\ pc[r] = "rewrite" =>
       /\ file = <<>> /\ old[r] \in Seq(AccountLines) /\ Once(old[r])
       /\ lines[r] = Len(old[r]) /\ Chosen(r, old[r])

FileInv ==
  /\ file \in Seq(AccountLines) /\ Once(file)
  /\ missing # {} \/ ~exists => file = <<>>

NoList == \A r \in Requests : pc[r] = "none" => old[r] = None

ServedInv ==
  /\ TypeInv /\ Answered /\ NoList
  /\ sound => Apart /\ FileInv /\ \A r \in Writers : TurnOf(r)

-----------------------------------------------------------------------------
(* Lines, lists and accounts.                                              *)

LEMMA LineOfFile ==
  ASSUME NEW s \in Seq(AccountLines), NEW i \in 1 .. Len(s)
  PROVE  /\ s[i] = <<s[i][1], s[i][2]>> /\ Len(s) \in Nat
         /\ s[i][1] \in Names /\ s[i][2] \in PasswordWords
         /\ Tail(s[i]) = <<s[i][2]>>
<1>1. s[i] \in AccountLines BY ElementOfSeq
<1>2. PICK a \in Names, b \in PasswordWords : s[i] = <<a, b>> BY <1>1 DEF AccountLines
<1>3. Tail(<<a, b>>) = <<b>> OBVIOUS
<1> QED BY <1>2, <1>3, Fields, LenProperties

\* The accounts of a file, line by line.
LEMMA AccountsByLine ==
  ASSUME NEW s \in Seq(AccountLines)
  PROVE  AccountsIn(s) = {[name |-> s[i][1], password |-> <<s[i][2]>>] : i \in 1 .. Len(s)}
<1>1. DOMAIN s = 1 .. Len(s) BY LenProperties
<1>2. \A i \in 1 .. Len(s) : Tail(s[i]) = <<s[i][2]>> BY LineOfFile
<1> QED BY <1>1, <1>2 DEF AccountsIn, ToSet

LEMMA AccountListed ==
  ASSUME NEW s \in Seq(AccountLines), NEW r
  PROVE  Promise!Account(r) \in AccountsIn(s) <=> Listed(r, s)
<1> DEFINE account(i) == [name |-> s[i][1], password |-> <<s[i][2]>>]
<1>1. AccountsIn(s) = {account(i) : i \in 1 .. Len(s)} BY AccountsByLine
<1>2. \A i : account(i) = Promise!Account(r) <=> NamedAt(r, s, i)
  BY DEF Promise!Account, NamedAt
<1> HIDE DEF account
<1> QED BY <1>1, <1>2 DEF Listed

LEMMA OnceAccounts ==
  ASSUME NEW s \in Seq(AccountLines), Once(s)
  PROVE  \A a, b \in AccountsIn(s) : a.name = b.name => a = b
BY AccountsByLine DEF Once

\* A list is the lines of the file, and garbage that is nobody's name behind them.
LEMMA ListIsFile ==
  ASSUME file \in Seq(AccountLines), NEW n \in Nat, NEW list \in ListOfCouples(n)
  PROVE  /\ Len(list) = n
         /\ \A i \in 1 .. n : IF i <= Len(file) THEN list[i] = file[i]
                                                ELSE list[i][1] \notin Names
<1> DEFINE words == FlattenSeq(file)
<1>0. AccountLines \subseteq Words \X Words /\ Len(file) \in Nat
  BY LenProperties DEF AccountLines, Words
<1>1. /\ Len(words) = 2 * Len(file)
      /\ \A j \in 1 .. Len(file) : /\ words[2 * j - 1] = file[j][1]
                                   /\ words[2 * j] = file[j][2]
  <2>1. file \in Seq(Words \X Words) BY <1>0, SeqMonotonic
  <2> QED BY <2>1, FlattenCouples
<1>2. PICK rest \in {Junk, ""} : list = [i \in 1 .. n |->
        <<IF 2 * i - 1 <= Len(words) THEN words[2 * i - 1] ELSE rest,
          IF 2 * i <= Len(words) THEN words[2 * i] ELSE rest>>]
  BY DEF ListOfCouples
<1> HIDE DEF words
<1>3. Len(list) = n
  <2>1. AccountLines \subseteq Seq(Words) BY WordsOfLines DEF AccountLines
  <2>2. file \in Seq(Seq(Words)) BY <2>1, SeqMonotonic
  <2> QED BY <2>2, CouplesTyped
<1>4. ASSUME NEW i \in 1 .. n, i <= Len(file) PROVE list[i] = file[i]
  <2>1. i \in 1 .. Len(file) /\ 2 * i - 1 <= 2 * Len(file) /\ 2 * i <= 2 * Len(file)
    BY <1>0, <1>4, Bounds
  <2>2. list[i] = <<words[2 * i - 1], words[2 * i]>> BY <1>1, <1>2, <2>1
  <2> QED BY <1>1, <2>1, <2>2, LineOfFile
<1>5. ASSUME NEW i \in 1 .. n, ~(i <= Len(file)) PROVE list[i][1] \notin Names
  <2>1. ~(2 * i - 1 <= 2 * Len(file)) BY <1>0, <1>5, Bounds
  <2>2. list[i][1] = rest BY <1>1, <1>2, <2>1
  <2> QED BY <2>2, WordAssumption
<1> QED BY <1>3, <1>4, <1>5

\* A couple with the name is a line of the file with the name.
LEMMA HitsOfFile ==
  ASSUME NEW r \in Requests, request[r] \in Inputs, length[r] \in Nat, size[r] \in Nat,
         file \in Seq(AccountLines), NEW list \in ListOfCouples(size[r])
  PROVE  /\ \A k \in Hits(r, list) : /\ k \in 1 .. Len(file) /\ list[k] = file[k]
                                     /\ file[k][1] = request[r].name
         /\ Hits(r, list) # {} => LastHit(Hits(r, list)) \in Hits(r, list)
<1>1. Len(file) \in Nat BY LenProperties
<1>2. ASSUME NEW k \in Hits(r, list)
      PROVE  k \in 1 .. Len(file) /\ list[k] = file[k] /\ file[k][1] = request[r].name
  <2>1. /\ Len(list) = size[r] /\ k \in 1 .. size[r]
        /\ list[k][1] = request[r].name /\ request[r].name \in Names
    BY ListIsFile DEF Hits, Inputs
  <2>2. k <= Len(file) /\ list[k] = file[k] BY <2>1, ListIsFile
  <2> QED BY <1>1, <2>1, <2>2
<1>3. Hits(r, list) \in SUBSET (1 .. length[r]) BY DEF Hits
<1> QED BY <1>2, <1>3, LastHitInHits

\* ... and with counts that are right, every such line is hit.
LEMMA EveryHit ==
  ASSUME NEW r \in Requests, length[r] = Len(file), size[r] = Len(file),
         file \in Seq(AccountLines), NEW list \in ListOfCouples(size[r]),
         NEW i \in 1 .. Len(file), file[i][1] = request[r].name
  PROVE  i \in Hits(r, list)
<1>1. Len(file) \in Nat BY LenProperties
<1>2. Len(list) = Len(file) /\ list[i] = file[i] BY <1>1, ListIsFile
<1> QED BY <1>1, <1>2 DEF Hits

LEMMA WholeList ==
  ASSUME file \in Seq(AccountLines), NEW list \in ListOfCouples(Len(file))
  PROVE  list = file
<1>1. Len(file) \in Nat BY LenProperties
<1>2. Len(list) = Len(file) /\ \A i \in 1 .. Len(file) : list[i] = file[i]
  BY <1>1, ListIsFile
<1>3. list = [i \in 1 .. Len(file) |-> list[i]] BY DEF ListOfCouples
<1>4. file = [i \in 1 .. Len(file) |-> file[i]] BY LenProperties
<1> QED BY <1>2, <1>3, <1>4

\* The password is found right only where the file has it.
LEMMA RightPasswordListed ==
  ASSUME NEW r \in Requests, request[r] \in Inputs, length[r] \in Nat, size[r] \in Nat,
         file \in Seq(AccountLines), NEW list \in ListOfCouples(size[r]),
         RightPassword(r, list)
  PROVE  Listed(r, file)
<1> DEFINE k == LastHit(Hits(r, list))
<1>1. k \in 1 .. Len(file) /\ list[k] = file[k] /\ file[k][1] = request[r].name
  BY HitsOfFile DEF RightPassword
<1>2. request[r].password = <<list[k][2]>> BY DEF RightPassword
<1> HIDE DEF k
<1> QED BY <1>1, <1>2 DEF Listed, NamedAt

\* With counts that are right and each account named once, it is found right where
\* the file has it.
LEMMA ListedRightPassword ==
  ASSUME NEW r \in Requests, request[r] \in Inputs,
         length[r] = Len(file), size[r] = Len(file),
         file \in Seq(AccountLines), Once(file), NEW list \in ListOfCouples(size[r]),
         Listed(r, file)
  PROVE  /\ RightPassword(r, list) /\ Hits(r, list) # {}
         /\ LastHit(Hits(r, list)) \in 1 .. Len(file)
         /\ NamedAt(r, file, LastHit(Hits(r, list)))
<1> DEFINE k == LastHit(Hits(r, list))
<1>0. length[r] \in Nat /\ size[r] \in Nat BY LenProperties
<1>1. PICK i \in 1 .. Len(file) : NamedAt(r, file, i) BY DEF Listed
<1>2. i \in Hits(r, list) BY <1>1, EveryHit DEF NamedAt
<1>3. k \in 1 .. Len(file) /\ list[k] = file[k] /\ file[k][1] = request[r].name
  BY <1>0, <1>2, HitsOfFile
<1> HIDE DEF k
<1>4. k = i BY <1>1, <1>3 DEF Once, NamedAt
<1> QED BY <1>1, <1>2, <1>3, <1>4 DEF RightPassword, NamedAt, k

\* What a deletion writes: all its lines but the account's.
LEMMA KeptLines ==
  ASSUME NEW r \in Requests, old[r] \in Seq(AccountLines), Once(old[r]),
         lines[r] = Len(old[r]), Chosen(r, old[r]),
         NEW kept, kept = [i \in DOMAIN Kept(r) |-> Line(r, Kept(r)[i])]
  PROVE  /\ kept \in Seq(AccountLines) /\ Once(kept)
         /\ AccountsIn(kept) = AccountsIn(old[r]) \ {Promise!Account(r)}
         /\ Listed(r, old[r])
<1> DEFINE s == old[r]  n == Len(s)  k == var[r]
           from(i) == IF i >= k THEN i + 1 ELSE i
<1>1. n \in Nat /\ k \in 1 .. n /\ NamedAt(r, s, k)
  BY LenProperties DEF Chosen
<1>2. /\ Kept(r) \in Seq(1 .. n) /\ Len(Kept(r)) = n - 1
      /\ \A i \in 1 .. n - 1 : Kept(r)[i] = from(i)
  <2>1. Kept(r) = AllBut(n, k) /\ k \in Nat BY <1>1 DEF Kept
  <2> HIDE DEF n, k, s
  <2> QED BY <1>1, <2>1, AllButProperties
<1>3. DOMAIN Kept(r) = 1 .. n - 1 BY <1>2, LenProperties
<1>4. ASSUME NEW j \in 1 .. n PROVE Line(r, j) = s[j] /\ s[j] \in AccountLines
  <2>1. s[j] = <<s[j][1], s[j][2]>> /\ s[j][1] \in Names /\ s[j][2] \in PasswordWords
    BY LineOfFile
  <2>2. s[j][1] # "" /\ s[j][2] # "" BY <2>1, WordAssumption
  <2>3. Word(s[j][1]) \o Word(s[j][2]) = <<s[j][1], s[j][2]>>
    BY <2>2, TwoWords DEF Word
  <2>4. ~(j > Len(old[r])) BY <1>1
  <2> QED BY <2>1, <2>3, <2>4, ElementOfSeq DEF Line
<1>5. \A i \in 1 .. n - 1 : from(i) \in 1 .. n /\ from(i) # k
  BY <1>1
<1> HIDE DEF s, n, k, from
<1>6. \A i \in 1 .. n - 1 : kept[i] = s[from(i)] /\ s[from(i)] \in AccountLines
  BY <1>2, <1>3, <1>4, <1>5
<1>7. kept \in Seq(AccountLines) /\ Len(kept) = n - 1
  <2>1. kept = [i \in 1 .. n - 1 |-> kept[i]] BY <1>3
  <2>2. kept \in [1 .. n - 1 -> AccountLines] BY <1>6, <2>1
  <2>3. n - 1 \in Nat BY <1>1
  <2> QED BY <2>2, <2>3, FunctionIsSeq
<1>8. ASSUME NEW i \in 1 .. n - 1, NEW j \in 1 .. n - 1, kept[i][1] = kept[j][1]
      PROVE  i = j
  <2>1. s[from(i)][1] = s[from(j)][1] BY <1>6, <1>8
  <2>2. from(i) = from(j) BY <1>5, <2>1 DEF Once, s, n
  <2> QED BY <1>1, <2>2 DEF from
<1> DEFINE account(t, i) == [name |-> t[i][1], password |-> <<t[i][2]>>]
<1>9. /\ AccountsIn(kept) = {account(kept, i) : i \in 1 .. n - 1}
      /\ AccountsIn(s) = {account(s, i) : i \in 1 .. n}
  BY <1>7, AccountsByLine DEF s, n
<1>10. account(s, k) = Promise!Account(r)
  BY <1>1 DEF NamedAt, Promise!Account
<1>11. \A i \in 1 .. n - 1 : account(kept, i) = account(s, from(i))
  BY <1>6
<1>12. \A j \in 1 .. n : j # k => \E i \in 1 .. n - 1 : j = from(i)
  <2> TAKE j \in 1 .. n
  <2>1. CASE j < k
    <3>1. j \in 1 .. n - 1 /\ j = from(j) BY <1>1, <2>1 DEF from
    <3> QED BY <3>1
  <2>2. CASE j > k
    <3>1. j - 1 \in 1 .. n - 1 /\ j = from(j - 1) BY <1>1, <2>2 DEF from
    <3> QED BY <3>1
  <2> QED BY <1>1, <2>1, <2>2
<1>13. \A j \in 1 .. n : j # k => account(s, j) # account(s, k)
  BY <1>1 DEF Once, s, n
<1> HIDE DEF account
<1>14. AccountsIn(kept) = AccountsIn(s) \ {account(s, k)}
  BY <1>5, <1>9, <1>11, <1>12, <1>13
<1>15. Once(kept) BY <1>7, <1>8 DEF Once
<1>16. Listed(r, s) BY <1>1 DEF Listed, n, s
<1> QED BY <1>7, <1>10, <1>14, <1>15, <1>16 DEF s

-----------------------------------------------------------------------------
(* The invariant.                                                          *)

LEMMA InitServed ==
  ASSUME \A f \in Files : Once(f)
  PROVE  Init => ServedInv
<1> SUFFICES ASSUME Init PROVE ServedInv OBVIOUS
<1>1. TypeInv /\ Answered BY InitGenuine DEF GenuineInv
<1>2. Apart BY DEF Init, Apart, Writers, Running
<1>3. FileInv BY FileAssumption DEF Init, FileInv, AccountLines
<1>4. Writers = {} BY DEF Init, Writers, Running
<1> QED BY <1>1, <1>2, <1>3, <1>4 DEF ServedInv, NoList, Init

\* The step of one thread leaves what the others know.
LEMMA OthersStand ==
  ASSUME TypeInv, NEW r \in Requests, RequestStep(r), NEW q \in Requests, q # r
  PROVE  /\ pc'[q] = pc[q] /\ request'[q] = request[q] /\ old'[q] = old[q]
         /\ length'[q] = length[q] /\ size'[q] = size[q] /\ lines'[q] = lines[q]
         /\ var'[q] = var[q]
<1> USE DEF finding, deleting, Goto, Return
<1>0. /\ pc = [x \in Requests |-> pc[x]] /\ request = [x \in Requests |-> request[x]]
      /\ old = [x \in Requests |-> old[x]] /\ length = [x \in Requests |-> length[x]]
      /\ size = [x \in Requests |-> size[x]] /\ lines = [x \in Requests |-> lines[x]]
      /\ var = [x \in Requests |-> var[x]]
  BY DEF TypeInv, Places, ValueTypes, ListTypes
<1>1. CASE Ask(r) BY <1>0, <1>1 DEF Ask
<1>2. CASE SeeNoFile(r) \/ MakeFile(r) BY <1>2 DEF SeeNoFile, MakeFile
<1>3. CASE NumberOfLines(r) BY <1>0, <1>3 DEF NumberOfLines
<1>4. CASE ReadOld(r) BY <1>0, <1>4 DEF ReadOld
<1>5. CASE Read(r) BY <1>0, <1>5 DEF Read
<1>6. CASE AppendLine(r) \/ Truncate(r) \/ Rewrite(r)
  BY <1>0, <1>6 DEF AppendLine, Truncate, Rewrite
<1> QED BY <1>1, <1>2, <1>3, <1>4, <1>5, <1>6 DEF RequestStep

LEMMA OthersTurn ==
  ASSUME ServedInv, sound, NEW r \in Requests, RequestStep(r),
         file' = file \/ r \in Writers,
         NEW q \in Writers', q # r
  PROVE  TurnOf(q)'
<1>1. q \in Requests BY DEF Writers
<1>2. /\ pc'[q] = pc[q] /\ request'[q] = request[q] /\ old'[q] = old[q]
      /\ length'[q] = length[q] /\ size'[q] = size[q] /\ lines'[q] = lines[q]
      /\ var'[q] = var[q]
  BY <1>1, OthersStand DEF ServedInv
<1>3. q \in Writers BY <1>1, <1>2 DEF Writers, Running
<1>4. file' = file BY <1>3 DEF ServedInv, Apart
<1>5. TurnOf(q) BY <1>3 DEF ServedInv
<1> QED
  BY <1>2, <1>4, <1>5 DEF TurnOf, Found, Listed, Chosen, NamedAt

\* A creation or deletion on its turn is the only one, and nobody makes the file.
LEMMA OnTurn ==
  ASSUME ServedInv, sound, NEW r \in Requests, Running(r), request[r].op # "login"
  PROVE  /\ r \in Writers /\ TurnOf(r) /\ FileInv
         /\ \A q \in Requests : Running(q) /\ request[q].op # "login" => q = r
         /\ r \notin missing => missing = {}
         /\ request[r].op = "create" => Len(request[r].password) = 1
BY DEF ServedInv, Apart, Writers

LEMMA StepServedSmall ==
  ASSUME ServedInv, sound, NEW r \in Requests,
         Ask(r) \/ SeeNoFile(r) \/ MakeFile(r) \/ NumberOfLines(r) \/ ReadOld(r)
  PROVE  /\ file' = file /\ FileInv' /\ (r \in Writers' => TurnOf(r)')
<1>0. TypeInv /\ FileInv /\ NoList BY DEF ServedInv
<1>1. /\ pc \in [Requests -> Pcs] /\ request \in [Requests -> Inputs \cup {None}]
      /\ old = [x \in Requests |-> old[x]]
      /\ length \in [Requests -> Nat] /\ size \in [Requests -> Nat]
      /\ lines \in [Requests -> Nat]
  BY <1>0 DEF TypeInv, Places, ValueTypes, ListTypes
<1>2. pc[r] # "none" /\ r \in Writers' /\ UNCHANGED request /\ pc[r] # "done" => TurnOf(r)
  BY DEF ServedInv, Writers, Running
<1>3. CASE Ask(r)
  <2>1. /\ pc[r] = "none" /\ pc' = [pc EXCEPT ![r] = "length"]
        /\ UNCHANGED <<exists, file, length, size, lines, old, var, missing>>
    BY <1>3 DEF Ask, Goto, finding, deleting
  <2>2. old'[r] = None /\ pc'[r] = "length" BY <1>0, <1>1, <2>1 DEF NoList
  <2> QED BY <1>0, <2>1, <2>2 DEF FileInv, TurnOf, Found
<1>4. CASE SeeNoFile(r) \/ MakeFile(r)
  <2>1. /\ UNCHANGED <<pc, request, length, size, lines, old, var>>
        /\ file' = file
    BY <1>0, <1>4 DEF SeeNoFile, MakeFile, FileInv, finding, deleting
  <2>2. missing' # {} \/ ~exists' => file' = <<>>
    BY <1>0, <1>4, <2>1 DEF SeeNoFile, MakeFile, FileInv
  <2>3. pc[r] # "none" /\ pc[r] # "done"
    BY <1>0, <1>4 DEF SeeNoFile, MakeFile, TypeInv, Places, PlacesOf
  <2>4. r \in Writers' => TurnOf(r) BY <1>2, <2>1, <2>3
  <2> QED
    BY <1>0, <2>1, <2>2, <2>4 DEF FileInv, TurnOf, Found, Listed, Chosen, NamedAt
<1>5. CASE NumberOfLines(r)
  <2>1. /\ UNCHANGED <<exists, file, request, old, var, missing>>
        /\ pc[r] \in {"length", "size", "oldSize", "lines"}
    BY <1>5 DEF NumberOfLines
  <2>2. FileInv' BY <1>0, <2>1 DEF FileInv
  <2>3. Len(file) \in Nat BY <1>0, LenProperties DEF FileInv
  <2>4. r \in Writers' => TurnOf(r) BY <1>2, <2>1
  <2>5. CASE pc[r] = "length"
    <3>1. pc'[r] = "size" /\ length'[r] = Len(file) /\ UNCHANGED <<size, lines>>
      BY <1>1, <1>5, <2>5 DEF NumberOfLines, Goto
    <3> QED BY <2>1, <2>2, <2>4, <2>5, <3>1
      DEF TurnOf, Found, Listed, Chosen, NamedAt
  <2>6. CASE pc[r] \in {"size", "oldSize"}
    <3>1. /\ pc'[r] = IF pc[r] = "size" THEN "read" ELSE "oldRead"
          /\ size'[r] = Len(file) /\ UNCHANGED <<length, lines>>
      BY <1>1, <1>5, <2>6 DEF NumberOfLines, Goto
    <3> QED BY <2>1, <2>2, <2>4, <2>6, <3>1
      DEF TurnOf, Found, Listed, Chosen, NamedAt
  <2>7. CASE pc[r] = "lines"
    <3>1. /\ pc'[r] = "length" /\ lines'[r] = Len(file) /\ UNCHANGED <<length, size>>
      BY <1>1, <1>5, <2>7 DEF NumberOfLines, Goto
    <3> QED BY <2>1, <2>2, <2>4, <2>7, <3>1
      DEF TurnOf, Found, Listed, Chosen, NamedAt
  <2> QED BY <2>1, <2>5, <2>6, <2>7
<1>6. CASE ReadOld(r)
  <2>1. /\ UNCHANGED <<exists, file, request, length, size, lines, var, missing>>
        /\ pc[r] = "oldRead" /\ pc'[r] = "lines"
    BY <1>1, <1>6 DEF ReadOld, At, Goto, finding
  <2>2. FileInv' BY <1>0, <2>1 DEF FileInv
  <2>3. r \in Writers' => TurnOf(r) BY <1>2, <2>1
  <2>4. r \in Writers' => old'[r] = file
    <3>1. PICK list \in ListOfCouples(size[r]) : old'[r] = list
      BY <1>1, <1>6 DEF ReadOld
    <3>2. r \in Writers' => size[r] = Len(file) BY <2>1, <2>3 DEF TurnOf
    <3> QED BY <1>0, <3>1, <3>2, WholeList DEF FileInv
  <2> QED BY <2>1, <2>2, <2>3, <2>4 DEF TurnOf, Found, Listed, Chosen, NamedAt
<1> QED BY <1>3, <1>4, <1>5, <1>6

\* A login that reads says yes only to an account of the file, and a creation or
\* deletion sees what is there.
LEMMA ReadSees ==
  ASSUME ServedInv, sound, NEW r \in Requests, Read(r)
  PROVE  /\ UNCHANGED <<exists, file, request, length, size, lines, old, missing>>
         /\ pc[r] = "read" /\ request[r] \in Inputs
         /\ \/ /\ request[r].op = "login" /\ Listed(r, file)
               /\ Return(r, "yes") /\ UNCHANGED var
            \/ /\ request[r].op = "login"
               /\ Return(r, "no") /\ UNCHANGED var
            \/ /\ request[r].op = "create"
               /\ \A i \in 1 .. Len(file) : file[i][1] # request[r].name
               /\ Goto(r, "append") /\ UNCHANGED <<var, result>>
            \/ /\ request[r].op = "create"
               /\ \E i \in 1 .. Len(file) : file[i][1] = request[r].name
               /\ Return(r, "no") /\ UNCHANGED var
            \/ /\ request[r].op = "delete" /\ old[r] = None /\ Listed(r, file)
               /\ Goto(r, "oldSize") /\ UNCHANGED <<var, result>>
            \/ /\ request[r].op = "delete" /\ old[r] = None /\ ~Listed(r, file)
               /\ Return(r, "no") /\ UNCHANGED var
            \/ /\ request[r].op = "delete" /\ old[r] # None
               /\ Goto(r, "truncate") /\ UNCHANGED result
               /\ var'[r] \in 1 .. Len(file) /\ NamedAt(r, file, var'[r])
<1>0. TypeInv /\ FileInv BY DEF ServedInv
<1>1. /\ UNCHANGED <<exists, file, request, length, size, lines, old, missing>>
      /\ pc[r] = "read" /\ request[r] \in Inputs
  BY <1>0 DEF Read, At, TypeInv, Places, PlacesOf
<1>2. PICK list \in ListOfCouples(size[r]) :
        LET op == request[r].op
            hits == Hits(r, list)
        IN \/ /\ op = "login" /\ UNCHANGED var
              /\ Return(r, IF RightPassword(r, list) THEN "yes" ELSE "no")
           \/ /\ op = "create" /\ UNCHANGED var
              /\ IF hits = {} THEN Goto(r, "append") /\ UNCHANGED result
                              ELSE Return(r, "no")
           \/ /\ op = "delete" /\ old[r] = None /\ UNCHANGED var
              /\ IF RightPassword(r, list)
                   THEN Goto(r, "oldSize") /\ UNCHANGED result
                   ELSE Return(r, "no")
           \/ /\ op = "delete" /\ old[r] # None
              /\ IF hits = {} THEN Return(r, "no") /\ UNCHANGED var
                   ELSE /\ Goto(r, "truncate") /\ UNCHANGED result
                        /\ var' = [var EXCEPT ![r] = LastHit(hits)]
  BY DEF Read
<1>3. /\ length[r] \in Nat /\ size[r] \in Nat /\ var = [x \in Requests |-> var[x]]
      /\ file \in Seq(AccountLines) /\ Once(file)
  BY <1>0 DEF TypeInv, Places, ValueTypes, FileInv
<1>4. RightPassword(r, list) => Listed(r, file)
  BY <1>1, <1>3, RightPasswordListed
<1>5. request[r].op # "login" =>
        length[r] = Len(file) /\ size[r] = Len(file) /\ (old[r] # None => Listed(r, file))
  <2> SUFFICES ASSUME request[r].op # "login"
               PROVE  length[r] = Len(file) /\ size[r] = Len(file)
                      /\ (old[r] # None => Listed(r, file))
    OBVIOUS
  <2>1. TurnOf(r) BY <1>1, OnTurn DEF Running
  <2> QED BY <1>1, <2>1 DEF TurnOf, Found
<1>6. CASE request[r].op = "login"
  BY <1>1, <1>2, <1>4, <1>6
<1>7. CASE request[r].op = "create"
  <2>1. Hits(r, list) = {} => \A i \in 1 .. Len(file) : file[i][1] # request[r].name
    BY <1>3, <1>5, <1>7, EveryHit
  <2>2. Hits(r, list) # {} => \E i \in 1 .. Len(file) : file[i][1] = request[r].name
    BY <1>1, <1>3, HitsOfFile
  <2> QED BY <1>1, <1>2, <1>7, <2>1, <2>2
<1>8. CASE request[r].op = "delete" /\ old[r] = None
  <2>1. Listed(r, file) => RightPassword(r, list)
    BY <1>1, <1>3, <1>5, <1>8, ListedRightPassword
  <2> QED BY <1>1, <1>2, <1>4, <1>8, <2>1
<1>9. CASE request[r].op = "delete" /\ old[r] # None
  <2> DEFINE k == LastHit(Hits(r, list))
  <2>1. Hits(r, list) # {} /\ k \in 1 .. Len(file) /\ NamedAt(r, file, k)
    BY <1>1, <1>3, <1>5, <1>9, ListedRightPassword
  <2>2. /\ Goto(r, "truncate") /\ UNCHANGED result
        /\ var' = [var EXCEPT ![r] = k]
    BY <1>2, <1>9, <2>1
  <2> HIDE DEF k
  <2>3. var'[r] = k BY <1>3, <2>2
  <2> QED BY <1>1, <1>9, <2>1, <2>2, <2>3
<1> QED BY <1>1, <1>6, <1>7, <1>8, <1>9 DEF Inputs

LEMMA StepServedRead ==
  ASSUME ServedInv, sound, NEW r \in Requests, Read(r)
  PROVE  file' = file /\ FileInv' /\ (r \in Writers' => TurnOf(r)')
<1>0. TypeInv /\ FileInv BY DEF ServedInv
<1>1. pc = [x \in Requests |-> pc[x]] BY <1>0 DEF TypeInv, Places
<1>2. /\ UNCHANGED <<exists, file, request, length, size, lines, old, missing>>
      /\ pc[r] = "read"
  BY ReadSees
<1>3. FileInv' BY <1>0, <1>2 DEF FileInv
<1>4. ASSUME r \in Writers' PROVE TurnOf(r)'
  <2>1. request[r].op # "login" /\ pc'[r] # "done" BY <1>2, <1>4 DEF Writers, Running
  <2>2. TurnOf(r) BY <1>2, <2>1, OnTurn DEF Running
  <2>3. \/ /\ pc'[r] = "append"
           /\ \A i \in 1 .. Len(file) : file[i][1] # request[r].name
        \/ pc'[r] = "oldSize" /\ Listed(r, file)
        \/ /\ pc'[r] = "truncate" /\ old[r] # None
           /\ var'[r] \in 1 .. Len(file) /\ NamedAt(r, file, var'[r])
    BY <1>1, <2>1, ReadSees DEF Return, Goto
  <2>4. CASE pc'[r] = "append"
    BY <1>2, <2>2, <2>3, <2>4 DEF TurnOf, Found
  <2>5. CASE pc'[r] = "oldSize"
    BY <1>2, <2>2, <2>3, <2>5 DEF TurnOf, Found, Listed, NamedAt
  <2>6. CASE pc'[r] = "truncate"
    BY <1>2, <2>2, <2>3, <2>6 DEF TurnOf, Found, Chosen, NamedAt
  <2> QED BY <2>3, <2>4, <2>5, <2>6
<1> QED BY <1>2, <1>3, <1>4

\* The line a creation writes.
LEMMA LineAppended ==
  ASSUME ServedInv, sound, NEW r \in Requests, AppendLine(r)
  PROVE  /\ r \in Writers /\ request[r] \in Inputs /\ request[r].op = "create"
         /\ \A i \in 1 .. Len(file) : file[i][1] # request[r].name
         /\ file' \in Seq(AccountLines) /\ Len(file') = Len(file) + 1
         /\ \A i \in 1 .. Len(file) : file'[i] = file[i]
         /\ file'[Len(file) + 1] = <<request[r].name, request[r].password[1]>>
         /\ request[r].password = <<request[r].password[1]>>
         /\ missing = {} /\ exists' /\ UNCHANGED <<request, old, missing>>
         /\ Return(r, "yes")
<1>0. TypeInv /\ FileInv BY DEF ServedInv
<1>1. /\ pc[r] = "append" /\ request[r] \in Inputs /\ request[r].op = "create"
      /\ r \notin missing
      /\ UNCHANGED <<request, old, missing>> /\ exists' /\ Return(r, "yes")
      /\ file' = Append(file, <<request[r].name>> \o request[r].password)
  BY <1>0 DEF AppendLine, At, TypeInv, Places, PlacesOf, deleting
<1>2. /\ r \in Writers /\ missing = {} /\ Len(request[r].password) = 1
      /\ \A i \in 1 .. Len(file) : file[i][1] # request[r].name
  BY <1>1, OnTurn DEF Running, TurnOf
<1>3. /\ request[r].name \in Names
      /\ request[r].password[1] \in PasswordWords
      /\ request[r].password = <<request[r].password[1]>>
  BY <1>1, <1>2, OneWordPassword DEF Inputs
<1>4. PICK l : l = <<request[r].name, request[r].password[1]>> OBVIOUS
<1>5. l \in AccountLines BY <1>3, <1>4 DEF AccountLines
<1>6. file' = Append(file, l) BY <1>1, <1>3, <1>4, TwoWords
<1>7. /\ file' \in Seq(AccountLines) /\ Len(file') = Len(file) + 1
      /\ \A i \in 1 .. Len(file) : file'[i] = file[i]
      /\ file'[Len(file) + 1] = l
  BY <1>0, <1>5, <1>6, AppendProperties DEF FileInv
<1> QED BY <1>1, <1>2, <1>3, <1>4, <1>7

LEMMA StepServedAppend ==
  ASSUME ServedInv, sound, NEW r \in Requests, AppendLine(r)
  PROVE  r \in Writers /\ FileInv' /\ r \notin Writers'
<1>0. FileInv /\ TypeInv BY DEF ServedInv
<1>1. /\ \A i \in 1 .. Len(file) : file[i][1] # request[r].name
      /\ file' \in Seq(AccountLines) /\ Len(file') = Len(file) + 1
      /\ \A i \in 1 .. Len(file) : file'[i] = file[i]
      /\ file'[Len(file) + 1] = <<request[r].name, request[r].password[1]>>
      /\ missing = {} /\ exists' /\ UNCHANGED missing
  BY LineAppended
<1>2. Len(file) \in Nat BY <1>0, LenProperties DEF FileInv
<1>3. file'[Len(file) + 1][1] = request[r].name BY <1>1, Fields
<1>4. ASSUME NEW i \in 1 .. Len(file'), NEW j \in 1 .. Len(file'),
             file'[i][1] = file'[j][1]
      PROVE  i = j
  <2>1. \A x \in 1 .. Len(file') : x \in 1 .. Len(file) \/ x = Len(file) + 1
    BY <1>1, <1>2
  <2>2. CASE i \in 1 .. Len(file) /\ j \in 1 .. Len(file)
    BY <1>0, <1>1, <1>4, <2>2 DEF FileInv, Once
  <2> QED BY <1>1, <1>3, <1>4, <2>1, <2>2
<1>5. Once(file)' BY <1>4 DEF Once
<1>6. pc'[r] = "done"
  BY <1>0 DEF AppendLine, Return, Goto, TypeInv, Places
<1> QED BY <1>1, <1>5, <1>6, LineAppended DEF FileInv, Writers, Running

LEMMA StepServedTruncate ==
  ASSUME ServedInv, sound, NEW r \in Requests, Truncate(r)
  PROVE  r \in Writers /\ FileInv' /\ TurnOf(r)'
<1>0. TypeInv BY DEF ServedInv
<1>1. /\ pc[r] = "truncate" /\ pc'[r] = "rewrite" /\ file' = <<>>
      /\ UNCHANGED <<request, lines, old, var>>
      /\ request[r].op = "delete" /\ old[r] # None
  BY <1>0 DEF Truncate, At, Goto, TypeInv, Places, PlacesOf, ListTypes, deleting
<1>2. r \in Writers /\ TurnOf(r) /\ FileInv
  BY <1>1, OnTurn DEF Running
<1>3. FileInv'
  <2>1. file' \in Seq(AccountLines) /\ Len(file') = 0 BY <1>1, EmptySeq
  <2> QED BY <1>1, <2>1 DEF FileInv, Once
<1>4. old[r] = file /\ lines[r] = Len(file) /\ Chosen(r, file)
  BY <1>1, <1>2 DEF TurnOf
<1>5. /\ old[r] \in Seq(AccountLines) /\ Once(old[r]) /\ lines[r] = Len(old[r])
      /\ Chosen(r, old[r])
  BY <1>2, <1>4 DEF FileInv
<1>6. Chosen(r, old[r])' BY <1>1, <1>5 DEF Chosen, NamedAt
<1>7. Once(old[r])' BY <1>1, <1>5
<1> QED BY <1>1, <1>2, <1>3, <1>5, <1>6, <1>7 DEF TurnOf, Found

\* What a deletion leaves.
LEMMA AccountDeleted ==
  ASSUME ServedInv, sound, NEW r \in Requests, Rewrite(r)
  PROVE  /\ r \in Writers /\ pc[r] = "rewrite" /\ request[r].op = "delete"
         /\ file' \in Seq(AccountLines) /\ Once(file')
         /\ old[r] \in Seq(AccountLines) /\ Listed(r, old[r])
         /\ AccountsIn(file') = AccountsIn(old[r]) \ {Promise!Account(r)}
         /\ missing = {} /\ exists' /\ UNCHANGED <<request, missing>>
         /\ Return(r, "yes")
<1>0. TypeInv BY DEF ServedInv
<1>1. PICK kept : kept = [i \in DOMAIN Kept(r) |-> Line(r, Kept(r)[i])] OBVIOUS
<1>2. /\ pc[r] = "rewrite" /\ request[r].op = "delete" /\ exists /\ r \notin missing
      /\ UNCHANGED <<exists, request, missing>> /\ Return(r, "yes")
      /\ file' = kept \o SubSeq(file, Len(kept) + 1, Len(file))
  BY <1>0, <1>1 DEF Rewrite, At, TypeInv, Places, PlacesOf
<1>3. /\ r \in Writers /\ TurnOf(r) /\ missing = {}
  BY <1>2, OnTurn DEF Running
<1>4. /\ file = <<>> /\ old[r] \in Seq(AccountLines) /\ Once(old[r])
      /\ lines[r] = Len(old[r]) /\ Chosen(r, old[r])
  BY <1>2, <1>3 DEF TurnOf
<1>5. /\ kept \in Seq(AccountLines) /\ Once(kept) /\ Listed(r, old[r])
      /\ AccountsIn(kept) = AccountsIn(old[r]) \ {Promise!Account(r)}
  BY <1>1, <1>4, KeptLines
<1>6. SubSeq(file, Len(kept) + 1, Len(file)) = <<>>
  <2>1. Len(kept) \in Nat /\ file \in Seq(AccountLines) /\ Len(file) = 0
    BY <1>4, <1>5, EmptySeq, LenProperties
  <2>2. Len(SubSeq(file, Len(kept) + 1, Len(file))) = 0
    <3>1. ~(Len(kept) + 1 <= Len(file)) /\ Len(kept) + 1 \in Int /\ Len(file) \in Int
          /\ \A i \in Len(kept) + 1 .. Len(file) : file[i] \in AccountLines
      BY <2>1
    <3> QED BY <2>1, <3>1, SubSeqProperties
  <2>3. SubSeq(file, Len(kept) + 1, Len(file)) \in Seq(AccountLines)
    BY <2>1, RestTypes
  <2> QED BY <2>2, <2>3, EmptySeq
<1>7. file' = kept BY <1>2, <1>5, <1>6, ConcatEmptySeq
<1> QED BY <1>2, <1>3, <1>4, <1>5, <1>7

LEMMA StepServedRewrite ==
  ASSUME ServedInv, sound, NEW r \in Requests, Rewrite(r)
  PROVE  r \in Writers /\ FileInv' /\ r \notin Writers'
<1>1. pc'[r] = "done"
  BY DEF ServedInv, Rewrite, Return, Goto, TypeInv, Places
<1>2. Once(file)' BY AccountDeleted DEF Once
<1> QED BY <1>1, <1>2, AccountDeleted DEF FileInv, Writers, Running

LEMMA StepServed == ServedInv /\ [Next]_vars => ServedInv'
<1> SUFFICES ASSUME ServedInv, [Next]_vars PROVE ServedInv' OBVIOUS
<1>1. TypeInv /\ Answered /\ NoList BY DEF ServedInv
<1>2. TypeInv' /\ Answered' BY <1>1, StepTypes, AnswersStand
<1>3. CASE UNCHANGED vars
  <2> USE <1>3 DEF vars, finding, deleting
  <2>1. NoList' BY <1>1 DEF NoList
  <2>2. UNCHANGED <<Apart, FileInv, Writers>>
    BY DEF Apart, FileInv, Writers, Running, Once
  <2>3. \A r \in Writers : TurnOf(r) => TurnOf(r)'
    BY DEF TurnOf, Found, Listed, Chosen, NamedAt, Once
  <2> QED BY <1>2, <2>1, <2>2, <2>3 DEF ServedInv
<1>4. CASE Next
  <2>1. NoList'
    <3>1. ASSUME NEW r \in Requests, ReadOld(r) PROVE NoList'
      BY <1>1, <3>1 DEF ReadOld, At, Goto, NoList, TypeInv, Places, ListTypes
    <3>2. CASE UNCHANGED old
      <4>1. \A r \in Requests : pc'[r] = "none" => pc[r] = "none"
        BY <1>1, <1>2, AnswersStand, NoneAssumption DEF TypeInv, Places, PlacesOf
      <4> QED BY <1>1, <3>2, <4>1 DEF NoList
    <3> QED
      BY <1>4, <3>1, <3>2
      DEF Next, RequestStep, Crash, Ask, SeeNoFile, MakeFile, NumberOfLines, Read,
          AppendLine, Truncate, Rewrite, deleting
  <2> SUFFICES ASSUME sound' PROVE FileInv' /\ \A r \in Writers' : TurnOf(r)'
    BY <1>2, <1>4, <2>1 DEF ServedInv, Next
  <2>2. sound BY <1>4 DEF Next
  <2>3. FileInv BY <2>2 DEF ServedInv
  <2>4. CASE Crash
    <3>1. Writers' = {} BY <2>4 DEF Crash, Writers, Running
    <3>2. FileInv' BY <2>3, <2>4 DEF Crash, FileInv
    <3> QED BY <3>1, <3>2
  <2>5. ASSUME NEW r \in Requests, RequestStep(r)
        PROVE  FileInv' /\ \A q \in Writers' : TurnOf(q)'
    <3>1. /\ FileInv' /\ (r \in Writers' => TurnOf(r)')
          /\ file' = file \/ r \in Writers
      BY <2>2, <2>5, StepServedSmall, StepServedRead, StepServedAppend,
         StepServedTruncate, StepServedRewrite DEF RequestStep
    <3>2. \A q \in Writers' : q # r => TurnOf(q)'
      BY <2>2, <2>5, <3>1, OthersTurn
    <3> QED BY <3>1, <3>2
  <2> QED BY <1>4, <2>4, <2>5 DEF Next
<1> QED BY <1>3, <1>4

-----------------------------------------------------------------------------
(* The refinement: which step of the set of accounts a step is.            *)

\* The accounts are the file's, but while it is empty under a deletion.
LEMMA AccountsNow ==
  ASSUME sound, Apart, \A r \in Requests : pc[r] = "rewrite" => request[r].op = "delete"
  PROVE  /\ (\A r \in Requests : pc[r] # "rewrite") => Accounts = AccountsIn(file)
         /\ \A r \in Requests : pc[r] = "rewrite" => Accounts = AccountsIn(old[r])
<1>1. \A r \in Requests : pc[r] = "rewrite" => r \in Writers
  BY DEF Writers, Running
<1>2. ASSUME NEW r \in Requests, pc[r] = "rewrite"
      PROVE  Accounts = AccountsIn(old[r])
  <2>1. \A q \in Requests : pc[q] = "rewrite" => q = r
    BY <1>1, <1>2 DEF Apart
  <2>2. (CHOOSE q \in Requests : pc[q] = "rewrite") = r
    BY <1>2, <2>1
  <2> QED BY <1>2, <2>2 DEF Accounts
<1>3. (\A r \in Requests : pc[r] # "rewrite") => Accounts = AccountsIn(file)
  BY DEF Accounts
<1> QED BY <1>2, <1>3

LEMMA AccountsThen ==
  ASSUME ServedInv', sound'
  PROVE  /\ (\A r \in Requests : pc'[r] # "rewrite") => Accounts' = AccountsIn(file')
         /\ \A r \in Requests : pc'[r] = "rewrite" => Accounts' = AccountsIn(old'[r])
<1>1. \A r \in Requests : pc'[r] = "rewrite" => r \in Writers'
  BY DEF Writers, Running, ServedInv, TypeInv, Places, PlacesOf
<1>2. ASSUME NEW r \in Requests, pc'[r] = "rewrite"
      PROVE  Accounts' = AccountsIn(old'[r])
  <2>1. \A q \in Requests : pc'[q] = "rewrite" => q = r
    BY <1>1, <1>2 DEF ServedInv, Apart
  <2>2. (CHOOSE q \in Requests : pc'[q] = "rewrite") = r
    BY <1>2, <2>1
  <2> QED BY <1>2, <2>2 DEF Accounts, AccountsIn
<1>3. (\A r \in Requests : pc'[r] # "rewrite") => Accounts' = AccountsIn(file')
  BY DEF Accounts, AccountsIn
<1> QED BY <1>2, <1>3

\* A step that moves neither the file nor a deletion that has emptied it leaves the
\* accounts.
LEMMA AccountsKept ==
  ASSUME ServedInv, sound, ServedInv', sound', file' = file,
         \A r \in Requests : /\ pc[r] = "rewrite" <=> pc'[r] = "rewrite"
                             /\ pc[r] = "rewrite" => old'[r] = old[r]
  PROVE  Accounts' = Accounts
<1>1. Apart /\ \A r \in Requests : pc[r] = "rewrite" => request[r].op = "delete"
  BY DEF ServedInv, TypeInv, Places, PlacesOf
<1> QED BY <1>1, AccountsNow, AccountsThen

\* The steps between answers that do not touch the file.
LEMMA SmallServed ==
  ASSUME ServedInv, sound, ServedInv', sound', NEW r \in Requests,
         SeeNoFile(r) \/ MakeFile(r) \/ NumberOfLines(r) \/ ReadOld(r)
  PROVE  UNCHANGED Promise!vars
<1>1. /\ UNCHANGED <<request, result>> /\ file' = file
      /\ \A q \in Requests : /\ pc[q] = "rewrite" <=> pc'[q] = "rewrite"
                             /\ pc[q] = "rewrite" => old'[q] = old[q]
  <2>1. file' = file BY StepServedSmall
  <2> QED
    BY <2>1
    DEF SeeNoFile, MakeFile, NumberOfLines, ReadOld, At, Goto, finding, deleting,
        ServedInv, TypeInv, Places, ListTypes
<1>2. Accounts' = Accounts BY <1>1, AccountsKept
<1> QED BY <1>1, <1>2 DEF Promise!vars

LEMMA AskServed ==
  ASSUME ServedInv, sound, ServedInv', sound', NEW r \in Requests, Ask(r)
  PROVE  Promise!Ask(r)
<1>1. /\ UNCHANGED <<result, old>> /\ file' = file
      /\ \A q \in Requests : pc[q] = "rewrite" <=> pc'[q] = "rewrite"
  BY DEF Ask, Goto, deleting, ServedInv, TypeInv, Places
<1>2. Accounts' = Accounts BY <1>1, AccountsKept
<1> QED
  BY <1>1, <1>2 DEF Ask, Promise!Ask, ServedInv, TypeInv, Places, PlacesOf

\* A thread that answers has been asked and has not answered.
LEMMA AnswerServed ==
  ASSUME ServedInv, NEW r \in Requests, Running(r), NEW answer, Return(r, answer),
         UNCHANGED request
  PROVE  Promise!Answer(r, answer)
BY NoneAssumption
DEF Promise!Answer, Return, ServedInv, Answered, TypeInv, Places, PlacesOf, Running

LEMMA ReadServed ==
  ASSUME ServedInv, sound, ServedInv', sound', NEW r \in Requests, Read(r)
  PROVE  \/ Promise!Create(r) \/ Promise!Delete(r) \/ Promise!Login(r)
         \/ UNCHANGED Promise!vars
<1>0. /\ pc = [x \in Requests |-> pc[x]] /\ file \in Seq(AccountLines) /\ Apart
      /\ \A q \in Requests : pc[q] = "rewrite" => request[q].op = "delete"
      /\ request[r] # None
  BY NoneAssumption, ReadSees DEF ServedInv, TypeInv, Places, PlacesOf, FileInv
<1>1. /\ UNCHANGED <<request, old>> /\ pc[r] = "read" /\ file' = file
      /\ \E s \in {"done", "append", "oldSize", "truncate"} :
           pc' = [pc EXCEPT ![r] = s]
  BY ReadSees DEF Return, Goto
<1>2. Accounts' = Accounts BY <1>0, <1>1, AccountsKept
<1>3. \A answer : Return(r, answer) => Promise!Answer(r, answer)
  BY <1>1, AnswerServed DEF Running
<1>4. request[r].op # "login" => Accounts = AccountsIn(file)
  <2> SUFFICES ASSUME request[r].op # "login" PROVE Accounts = AccountsIn(file)
    OBVIOUS
  <2>1. \A q \in Requests : pc[q] # "rewrite"
    BY <1>0, <1>1, OnTurn DEF Running
  <2> QED BY <1>0, <2>1, AccountsNow
<1>5. ASSUME request[r].op = "login", Listed(r, file)
      PROVE  Promise!Account(r) \in Accounts
  <2>1. CASE \A q \in Requests : pc[q] # "rewrite"
    <3>1. Accounts = AccountsIn(file) BY <1>0, <2>1, AccountsNow
    <3> QED BY <1>0, <1>5, <3>1, AccountListed
  <2>2. ASSUME NEW q \in Requests, pc[q] = "rewrite" PROVE FALSE
    <3>1. q \in Writers BY <1>0, <2>2 DEF Writers, Running
    <3>2. file = <<>> BY <2>2, <3>1 DEF ServedInv, TurnOf
    <3>3. Len(file) = 0 BY <3>2
    <3>4. 1 .. Len(file) = {} BY <3>3
    <3> QED BY <1>5, <3>4 DEF Listed
  <2> QED BY <2>1, <2>2
<1>6. CASE request[r].op = "login"
  BY <1>0, <1>2, <1>3, <1>5, <1>6, ReadSees DEF Promise!Login
<1>7. CASE request[r].op = "create"
  <2>1. (\E i \in 1 .. Len(file) : file[i][1] = request[r].name) =>
          Promise!AccountsOf(request[r].name) # {}
    <3> SUFFICES ASSUME NEW i \in 1 .. Len(file), file[i][1] = request[r].name
                 PROVE  Promise!AccountsOf(request[r].name) # {}
      OBVIOUS
    <3>1. [name |-> file[i][1], password |-> <<file[i][2]>>] \in Accounts
      BY <1>0, <1>4, <1>7, AccountsByLine
    <3> QED BY <3>1 DEF Promise!AccountsOf
  <2>2. \/ pc' = [pc EXCEPT ![r] = "append"] /\ UNCHANGED result
        \/ /\ \E i \in 1 .. Len(file) : file[i][1] = request[r].name
           /\ Promise!Answer(r, "no")
    BY <1>3, <1>7, ReadSees DEF Goto
  <2> QED BY <1>0, <1>1, <1>2, <1>7, <2>1, <2>2 DEF Promise!Create, Promise!vars
<1>8. CASE request[r].op = "delete"
  <2>1. \/ UNCHANGED result
        \/ ~Listed(r, file) /\ Promise!Answer(r, "no")
    BY <1>3, <1>8, ReadSees
  <2>2. ~Listed(r, file) => Promise!Account(r) \notin Accounts
    BY <1>0, <1>4, <1>8, AccountListed
  <2> QED BY <1>0, <1>1, <1>2, <1>8, <2>1, <2>2 DEF Promise!Delete, Promise!vars
<1> QED BY <1>6, <1>7, <1>8, ReadSees DEF Inputs

LEMMA AppendServed ==
  ASSUME ServedInv, sound, ServedInv', sound', NEW r \in Requests, AppendLine(r)
  PROVE  Promise!Create(r)
<1>0. pc = [x \in Requests |-> pc[x]] /\ file \in Seq(AccountLines) /\ Apart
      /\ \A q \in Requests : pc[q] = "rewrite" => request[q].op = "delete"
  BY DEF ServedInv, TypeInv, Places, PlacesOf, FileInv
<1>1. pc[r] = "append" /\ pc' = [pc EXCEPT ![r] = "done"] /\ Running(r)
  BY DEF AppendLine, At, Return, Goto, Running
<1>2. request[r] \in Inputs /\ request[r].op = "create" /\ request[r] # None
  BY LineAppended, NoneAssumption
<1>3. \A q \in Requests : pc[q] # "rewrite" /\ pc'[q] # "rewrite"
  BY <1>0, <1>1, <1>2, OnTurn DEF Running
<1>4. Accounts = AccountsIn(file) /\ Accounts' = AccountsIn(file')
  BY <1>0, <1>3, AccountsNow, AccountsThen
<1>5. /\ \A i \in 1 .. Len(file) : file[i][1] # request[r].name
      /\ file' \in Seq(AccountLines) /\ Len(file') = Len(file) + 1
      /\ \A i \in 1 .. Len(file) : file'[i] = file[i]
      /\ file'[Len(file) + 1] = <<request[r].name, request[r].password[1]>>
      /\ request[r].password = <<request[r].password[1]>>
      /\ Len(file) \in Nat
  BY <1>0, LineAppended, LenProperties
<1> DEFINE account(s, i) == [name |-> s[i][1], password |-> <<s[i][2]>>]
<1>6. /\ AccountsIn(file) = {account(file, i) : i \in 1 .. Len(file)}
      /\ AccountsIn(file') = {account(file', i) : i \in 1 .. Len(file) + 1}
  BY <1>0, <1>5, AccountsByLine
<1>7. account(file', Len(file) + 1) = Promise!Account(r)
  BY <1>5, Fields DEF Promise!Account
<1>8. \A i \in 1 .. Len(file) : account(file', i) = account(file, i)
  BY <1>5
<1>9. Promise!AccountsOf(request[r].name) = {}
  BY <1>4, <1>5, <1>6 DEF Promise!AccountsOf
<1> HIDE DEF account
<1>10. 1 .. Len(file) + 1 = 1 .. Len(file) \cup {Len(file) + 1}
  BY <1>5
<1>11. Accounts' = Accounts \cup {Promise!Account(r)}
  BY <1>4, <1>6, <1>7, <1>8, <1>10
<1>12. Promise!Answer(r, "yes") BY <1>1, AnswerServed, LineAppended
<1> QED BY <1>2, <1>9, <1>11, <1>12 DEF Promise!Create

LEMMA TruncateServed ==
  ASSUME ServedInv, sound, ServedInv', sound', NEW r \in Requests, Truncate(r)
  PROVE  UNCHANGED Promise!vars
<1>0. pc = [x \in Requests |-> pc[x]] /\ Apart
      /\ \A q \in Requests : pc[q] = "rewrite" => request[q].op = "delete"
  BY DEF ServedInv, TypeInv, Places, PlacesOf
<1>1. /\ pc[r] = "truncate" /\ pc' = [pc EXCEPT ![r] = "rewrite"] /\ Running(r)
      /\ UNCHANGED <<request, result, old>>
      /\ request[r].op = "delete" /\ old[r] # None
  BY DEF Truncate, At, Goto, Running, deleting, ServedInv, TypeInv, Places, PlacesOf, ListTypes
<1>2. old[r] = file /\ \A q \in Requests : pc[q] # "rewrite"
  BY <1>0, <1>1, OnTurn DEF Running, TurnOf
<1>3. Accounts = AccountsIn(file) BY <1>0, <1>2, AccountsNow
<1>4. pc'[r] = "rewrite" BY <1>0, <1>1
<1>5. Accounts' = AccountsIn(old'[r]) BY <1>4, AccountsThen
<1> QED BY <1>1, <1>2, <1>3, <1>5 DEF Promise!vars

LEMMA RewriteServed ==
  ASSUME ServedInv, sound, ServedInv', sound', NEW r \in Requests, Rewrite(r)
  PROVE  Promise!Delete(r)
<1>0. pc = [x \in Requests |-> pc[x]] /\ Apart
      /\ \A q \in Requests : pc[q] = "rewrite" => request[q].op = "delete"
      /\ (pc[r] = "rewrite" => request[r] # None)
  BY NoneAssumption DEF ServedInv, TypeInv, Places, PlacesOf
<1>1. /\ pc[r] = "rewrite" /\ pc' = [pc EXCEPT ![r] = "done"] /\ Running(r)
      /\ request[r].op = "delete"
  BY AccountDeleted DEF Return, Goto, Running
<1>2. \A q \in Requests : pc'[q] # "rewrite"
  BY <1>0, <1>1, OnTurn DEF Running
<1>3. Accounts = AccountsIn(old[r]) /\ Accounts' = AccountsIn(file')
  BY <1>0, <1>1, <1>2, AccountsNow, AccountsThen
<1>4. Promise!Account(r) \in Accounts /\ Accounts' = Accounts \ {Promise!Account(r)}
  BY <1>3, AccountDeleted, AccountListed
<1>5. Promise!Answer(r, "yes") BY <1>1, AnswerServed, AccountDeleted
<1> QED BY <1>0, <1>1, <1>4, <1>5 DEF Promise!Delete

LEMMA CrashServed ==
  ASSUME ServedInv, sound, ServedInv', sound', Crash, ~Torn
  PROVE  Promise!Crash
<1>1. \A r \in Requests : pc[r] # "rewrite" /\ pc'[r] # "rewrite"
  <2>1. \A r \in Requests : pc[r] = "rewrite" => result'[r] = "lost"
    BY DEF Crash, Running
  <2> QED BY <2>1 DEF Torn, Crash
<1>2. UNCHANGED <<request, old>> /\ file' = file BY DEF Crash, deleting
<1>3. Accounts' = Accounts BY <1>1, <1>2, AccountsKept
<1>4. \A r \in Requests : Running(r) <=> request[r] # None /\ result[r] = None
  BY NoneAssumption DEF ServedInv, Answered, TypeInv, Places, PlacesOf, Running
<1>5. result' = [r \in Requests |->
        IF request[r] # None /\ result[r] = None THEN "lost" ELSE result[r]]
  BY <1>4 DEF Crash
<1> QED BY <1>2, <1>3, <1>5 DEF Promise!Crash

LEMMA StepPromise ==
  ServedInv /\ ServedInv' /\ [Next]_vars => [Promise!Next]_(Promise!vars)
<1> SUFFICES ASSUME ServedInv, ServedInv', [Next]_vars
             PROVE  Promise!Next \/ UNCHANGED Promise!vars
  OBVIOUS
<1>1. CASE UNCHANGED vars
  BY <1>1
  DEF vars, finding, deleting, Promise!vars, Accounts, AccountsIn
<1>2. CASE Next /\ ~sound'
  BY <1>2 DEF Promise!Next, ServedInv, TypeInv, ValueTypes
<1>3. CASE Next /\ sound'
  <2>1. sound /\ ~Torn BY <1>3 DEF Next
  <2>2. sound' = sound
    BY <1>3, <2>1 DEF ServedInv, TypeInv, ValueTypes
  <2>3. CASE Crash BY <1>3, <2>1, <2>2, <2>3, CrashServed DEF Promise!Next
  <2>4. ASSUME NEW r \in Requests, RequestStep(r)
        PROVE  Promise!Next \/ UNCHANGED Promise!vars
    <3>1. \/ Promise!Ask(r) \/ Promise!Create(r) \/ Promise!Delete(r) \/ Promise!Login(r)
          \/ UNCHANGED Promise!vars
      BY <1>3, <2>1, <2>4, SmallServed, AskServed, ReadServed, AppendServed,
         TruncateServed, RewriteServed DEF RequestStep
    <3> QED BY <2>2, <3>1 DEF Promise!Next
  <2> QED BY <1>3, <2>3, <2>4 DEF Next
<1> QED BY <1>1, <1>2, <1>3

\* The file implements a set of accounts (user_management.h:83, 94): if it names each
\* account once to begin with, then as long as creations and deletions take turns, no
\* new password has a blank and the server does not die while a deletion has the file
\* empty, every request is served in one step on the set, log ins at any time.
THEOREM AccountsServed ==
  ASSUME \A f \in Files : Once(f)
  PROVE  Spec => ServesAccounts
<1>1. Init => Promise!Init
  <2> SUFFICES ASSUME Init PROVE Promise!Init OBVIOUS
  <2>1. file \in Seq(AccountLines) /\ Once(file)
    BY FileAssumption DEF Init, AccountLines
  <2>2. Accounts = AccountsIn(file) BY DEF Init, Accounts
  <2> QED BY <2>1, <2>2, OnceAccounts DEF Init, Promise!Init
<1>2. Init => ServedInv BY InitServed
<1>3. ServedInv /\ [Next]_vars => ServedInv' BY StepServed
<1> QED BY <1>1, <1>2, <1>3, StepPromise, PTL DEF Spec, ServesAccounts, Promise!Spec

=============================================================================
