--------------------------- MODULE AccountsProofs ---------------------------
(***************************************************************************)
(* Proofs about Accounts, for any requests, names, passwords and files at  *)
(* the start: what lists hold, whose accounts are in the file, and when a  *)
(* thread can run over the end of a list.                                  *)
(***************************************************************************)
EXTENDS Accounts, SequenceTheorems, WellFoundedInduction, TLAPS

-----------------------------------------------------------------------------
(* Induction on numbers, with a set for the property, and the sequences    *)
(* that are defined by it.                                                 *)

LEMMA NatMin ==
  ASSUME NEW T \in SUBSET Nat, T # {}
  PROVE  \E m \in T : \A k \in T : m <= k
<1> DEFINE R == {p \in Nat \X Nat : p[1] < p[2]}
<1>1. IsWellFoundedOn(R, Nat)
  <2>1. IsWellFoundedOn(OpToRel(<, Nat), Nat) BY NatLessThanWellFounded
  <2>2. R = OpToRel(<, Nat) BY DEF OpToRel
  <2> QED BY <2>1, <2>2
<1>2. \A x, y \in Nat : <<y, x>> \notin R => x <= y
  OBVIOUS
<1> HIDE DEF R
<1>3. PICK m \in T : \A k \in T : <<k, m>> \notin R BY <1>1, WFMin
<1> QED BY <1>2, <1>3

LEMMA NatSetInduction ==
  ASSUME NEW I \in SUBSET Nat, 0 \in I, \A m \in I : m + 1 \in I
  PROVE  I = Nat
<1> SUFFICES ASSUME Nat \ I # {} PROVE FALSE
  OBVIOUS
<1>1. PICK m \in Nat \ I : \A k \in Nat \ I : m <= k
  BY NatMin
<1>2. m - 1 \in Nat /\ m - 1 \in I
  BY <1>1
<1> QED BY <1>1, <1>2

\* FlattenSeq, unfolded.
Flattens(f, s) ==
  f = [i \in 1 .. Len(s) |-> IF i = 1 THEN s[i] ELSE f[i - 1] \o s[i]]

LEMMA FlattenUnfold ==
  ASSUME NEW S, NEW s \in Seq(S), s # <<>>
  PROVE  \E f : Flattens(f, s) /\ FlattenSeq(s) = f[Len(s)]
<1> DEFINE Part(m, g) == g = [i \in 1 .. m |-> IF i = 1 THEN s[i] ELSE g[i - 1] \o s[i]]
           I == {m \in Nat : \E g : Part(m, g)}
<1>1. 0 \in I
  <2> DEFINE g == [i \in 1 .. 0 |-> <<>>]
  <2>1. Part(0, g) OBVIOUS
  <2> QED BY <2>1
<1>2. ASSUME NEW m \in I PROVE m + 1 \in I
  <2>0. m \in Nat OBVIOUS
  <2>1. PICK g : Part(m, g) OBVIOUS
  <2> DEFINE h == [i \in 1 .. m + 1 |-> IF i <= m THEN g[i]
                      ELSE IF i = 1 THEN s[i] ELSE g[i - 1] \o s[i]]
  <2>2. ASSUME NEW i \in 1 .. m + 1
        PROVE  h[i] = IF i = 1 THEN s[i] ELSE h[i - 1] \o s[i]
    <3>1. CASE i <= m
      <4>0. i \in 1 .. m BY <2>0, <3>1
      <4> HIDE DEF I, h
      <4>1. g[i] = IF i = 1 THEN s[i] ELSE g[i - 1] \o s[i]
        BY <2>1, <4>0
      <4> USE DEF h
      <4>2. h[i] = g[i] /\ (i # 1 => h[i - 1] = g[i - 1])
        BY <2>0, <3>1
      <4> QED BY <4>1, <4>2
    <3>2. CASE ~(i <= m)
      <4>1. i = m + 1 BY <2>0, <3>2
      <4>2. i # 1 => h[i - 1] = g[i - 1]
        BY <4>1
      <4>3. h[i] = IF i = 1 THEN s[i] ELSE g[i - 1] \o s[i]
        BY <3>2
      <4> QED BY <4>2, <4>3
    <3> QED BY <3>1, <3>2
  <2>3. Part(m + 1, h)
    BY <2>2
  <2> HIDE DEF Part, h
  <2> QED BY <2>0, <2>3
<1> HIDE DEF I
<1>3. I = Nat BY <1>1, <1>2, NatSetInduction DEF I
<1>4. Len(s) \in Nat /\ Len(s) # 0 BY EmptySeq, LenProperties
<1>5. \E g : Part(Len(s), g) BY <1>3, <1>4 DEF I
<1>6. \E f : Flattens(f, s) BY <1>5 DEF Flattens
<1>7. FlattenSeq(s) = (CHOOSE f : Flattens(f, s))[Len(s)]
  BY <1>4 DEF FlattenSeq, Flattens
<1> QED BY <1>6, <1>7

\* What holds of no words, and is kept when a line is added, holds of all the
\* words of the file.
LEMMA FlattenClosed ==
  ASSUME NEW S, NEW C, <<>> \in C, NEW L \in SUBSET Seq(S),
         L \subseteq C, \A w \in C, l \in L : w \o l \in C,
         NEW s \in Seq(L)
  PROVE  FlattenSeq(s) \in C
<1>1. CASE s = <<>>
  <2>1. FlattenSeq(s) = s
    BY <1>1 DEF FlattenSeq
  <2> QED BY <1>1, <2>1
<1>2. CASE s # <<>>
  <2>1. PICK f : Flattens(f, s) /\ FlattenSeq(s) = f[Len(s)]
    BY <1>2, FlattenUnfold
  <2>2. /\ Len(s) \in Nat \ {0}
        /\ \A i \in 1 .. Len(s) : s[i] \in L
    BY <1>2, EmptySeq, LenProperties, ElementOfSeq
  <2>3. \A i \in 1 .. Len(s) : f[i] = IF i = 1 THEN s[i] ELSE f[i - 1] \o s[i]
    BY <2>1 DEF Flattens
  <2> DEFINE I == {m \in Nat : m \in 1 .. Len(s) => f[m] \in C}
  <2>4. 0 \in I
    OBVIOUS
  <2>5. ASSUME NEW m \in I PROVE m + 1 \in I
    <3>1. SUFFICES ASSUME m + 1 \in 1 .. Len(s) PROVE f[m + 1] \in C
      OBVIOUS
    <3>2. s[m + 1] \in L /\ m \in Nat
      BY <2>2, <3>1
    <3>3. CASE m = 0
      BY <2>3, <3>1, <3>2, <3>3
    <3>4. CASE m # 0
      <4>1. m \in 1 .. Len(s) BY <2>2, <3>1, <3>2, <3>4
      <4>2. f[m] \in C BY <4>1
      <4>3. f[m + 1] = f[m] \o s[m + 1]
        <5>1. m + 1 # 1 /\ (m + 1) - 1 = m BY <3>2, <3>4
        <5>2. f[m + 1] = f[(m + 1) - 1] \o s[m + 1] BY <2>3, <3>1, <5>1
        <5> QED BY <5>1, <5>2
      <4> QED BY <3>2, <4>2, <4>3
    <3> QED BY <3>3, <3>4
  <2> HIDE DEF I
  <2>6. I = Nat BY <2>4, <2>5, NatSetInduction DEF I
  <2> QED BY <2>1, <2>2, <2>6 DEF I
<1> QED BY <1>1, <1>2

\* A file of couples, flattened, is the couples' words in their order.
LEMMA FlattenCouples ==
  ASSUME NEW W, NEW s \in Seq(W \X W)
  PROVE  /\ FlattenSeq(s) \in Seq(W) /\ Len(FlattenSeq(s)) = 2 * Len(s)
         /\ \A j \in 1 .. Len(s) : /\ FlattenSeq(s)[2 * j - 1] = s[j][1]
                                   /\ FlattenSeq(s)[2 * j] = s[j][2]
<1>0. Len(s) \in Nat /\ \A i \in 1 .. Len(s) : s[i] \in W \X W
  BY LenProperties, ElementOfSeq
<1>1. CASE s = <<>>
  <2>1. FlattenSeq(s) = s
    BY <1>1 DEF FlattenSeq
  <2>2. Len(s) = 0 /\ s \in Seq(W) BY <1>1, EmptySeq
  <2>3. Len(FlattenSeq(s)) = 2 * Len(s) BY <2>1, <2>2
  <2>4. 1 .. Len(s) = {} BY <2>2
  <2> QED BY <2>1, <2>2, <2>3, <2>4
<1>2. CASE s # <<>>
  <2>1. PICK f : Flattens(f, s) /\ FlattenSeq(s) = f[Len(s)]
    BY <1>2, FlattenUnfold
  <2>2. \A i \in 1 .. Len(s) : f[i] = IF i = 1 THEN s[i] ELSE f[i - 1] \o s[i]
    BY <2>1 DEF Flattens
  <2>3. ASSUME NEW i \in 1 .. Len(s)
        PROVE  s[i] \in Seq(W) /\ Len(s[i]) = 2
    <3>1. PICK a \in W, b \in W : s[i] = <<a, b>> BY <1>0
    <3>2. <<a, b>> \in Seq(W) /\ Len(<<a, b>>) = 2 OBVIOUS
    <3> QED BY <3>1, <3>2
  <2> DEFINE Whole(i) == /\ f[i] \in Seq(W) /\ Len(f[i]) = 2 * i
                         /\ \A j \in 1 .. i : /\ f[i][2 * j - 1] = s[j][1]
                                              /\ f[i][2 * j] = s[j][2]
             I == {m \in Nat : m \in 1 .. Len(s) => Whole(m)}
  <2>4. 0 \in I
    OBVIOUS
  <2>5. ASSUME NEW m \in I PROVE m + 1 \in I
    <3>1. SUFFICES ASSUME m + 1 \in 1 .. Len(s) PROVE Whole(m + 1)
      OBVIOUS
    <3>2. m \in Nat /\ s[m + 1] \in Seq(W) /\ Len(s[m + 1]) = 2
      BY <2>3, <3>1
    <3>3. CASE m = 0
      <4>1. f[1] = s[1] BY <2>2, <3>1, <3>3
      <4> QED BY <3>2, <3>3, <4>1
    <3>4. CASE m # 0
      <4>1. m \in 1 .. Len(s) BY <1>0, <3>1, <3>2, <3>4
      <4>2. Whole(m) BY <4>1
      <4>3. f[m + 1] = f[m] \o s[m + 1]
        <5>1. m + 1 # 1 /\ (m + 1) - 1 = m BY <3>2, <3>4
        <5>2. f[m + 1] = f[(m + 1) - 1] \o s[m + 1] BY <2>2, <3>1, <5>1
        <5> QED BY <5>1, <5>2
      <4> HIDE DEF I
      <4>4. /\ f[m + 1] \in Seq(W) /\ Len(f[m + 1]) = 2 * m + 2
            /\ \A k \in 1 .. 2 * m + 2 : f[m + 1][k] =
                 IF k <= 2 * m THEN f[m][k] ELSE s[m + 1][k - 2 * m]
        <5>1. f[m] \in Seq(W) /\ Len(f[m]) = 2 * m BY <4>2
        <5> HIDE DEF Whole
        <5>2. /\ f[m] \o s[m + 1] \in Seq(W)
              /\ Len(f[m] \o s[m + 1]) = Len(f[m]) + Len(s[m + 1])
              /\ \A k \in 1 .. Len(f[m]) + Len(s[m + 1]) : (f[m] \o s[m + 1])[k] =
                   IF k <= Len(f[m]) THEN f[m][k] ELSE s[m + 1][k - Len(f[m])]
          BY <3>2, <5>1, ConcatProperties
        <5> QED BY <3>2, <4>3, <5>1, <5>2
      <4>5. ASSUME NEW j \in 1 .. m + 1
            PROVE  f[m + 1][2 * j - 1] = s[j][1] /\ f[m + 1][2 * j] = s[j][2]
        <5>1. CASE j \in 1 .. m
          <6>1. 2 * j - 1 \in 1 .. 2 * m /\ 2 * j \in 1 .. 2 * m BY <3>2, <5>1
          <6>2. f[m + 1][2 * j - 1] = f[m][2 * j - 1] /\ f[m + 1][2 * j] = f[m][2 * j]
            BY <3>2, <4>4, <6>1
          <6> QED BY <4>2, <5>1, <6>2
        <5>2. CASE j = m + 1
          <6>1. 2 * j - 1 = 2 * m + 1 /\ 2 * j = 2 * m + 2 BY <3>2, <5>2
          <6>2. f[m + 1][2 * m + 1] = s[m + 1][1] /\ f[m + 1][2 * m + 2] = s[m + 1][2]
            BY <3>2, <4>4
          <6> QED BY <5>2, <6>1, <6>2
        <5> QED BY <3>2, <5>1, <5>2
      <4>6. 2 * (m + 1) = 2 * m + 2 BY <3>2
      <4> QED BY <4>4, <4>5, <4>6
    <3> QED BY <3>3, <3>4
  <2> HIDE DEF I, Whole
  <2>6. I = Nat BY <2>4, <2>5, NatSetInduction DEF I
  <2>7. Len(s) \in 1 .. Len(s) BY <1>0, <1>2, EmptySeq
  <2>8. Whole(Len(s)) BY <1>0, <2>6, <2>7 DEF I
  <2> QED BY <2>1, <2>8 DEF Whole
<1> QED BY <1>1, <1>2

-----------------------------------------------------------------------------
(* What a list holds, and what delete writes of it.                        *)

\* The index of all but one.
LEMMA AllButProperties ==
  ASSUME NEW n \in Nat, NEW k \in Nat
  PROVE  /\ AllBut(n, k) \in Seq(1 .. n)
         /\ Len(AllBut(n, k)) = IF k \in 1 .. n THEN n - 1 ELSE n
         /\ \A i \in 1 .. Len(AllBut(n, k)) :
              AllBut(n, k)[i] = IF k \in 1 .. n /\ i >= k THEN i + 1 ELSE i
<1> DEFINE all == [i \in 1 .. n |-> i]
<1>1. all \in Seq(1 .. n) /\ Len(all) = n
  OBVIOUS
<1>2. CASE k \notin 1 .. n
  <2>1. AllBut(n, k) = all BY <1>2 DEF AllBut
  <2> QED BY <1>1, <1>2, <2>1
<1>3. CASE k \in 1 .. n
  <2> DEFINE s == SubSeq(all, 1, k - 1)
             t == SubSeq(all, k + 1, n)
  <2>1. AllBut(n, k) = s \o t
    BY <1>1, <1>3 DEF AllBut, RemoveAt
  <2>2. /\ s \in Seq(1 .. n) /\ Len(s) = k - 1
        /\ \A i \in 1 .. k - 1 : s[i] = i
    <3>1. \A i \in 1 .. k - 1 : all[i] \in 1 .. n /\ all[i] = i BY <1>3
    <3>2. k - 1 \in Int /\ 1 \in Int BY <1>3
    <3> HIDE DEF all
    <3>3. /\ s \in Seq(1 .. n) /\ Len(s) = IF 1 <= k - 1 THEN k - 1 - 1 + 1 ELSE 0
          /\ \A i \in 1 .. k - 1 - 1 + 1 : s[i] = all[1 + i - 1]
      BY <3>1, <3>2, SubSeqProperties
    <3>4. \A i \in 1 .. k - 1 : 1 + i - 1 = i BY <1>3
    <3> QED BY <1>3, <3>1, <3>3, <3>4
  <2>3. /\ t \in Seq(1 .. n) /\ Len(t) = n - k
        /\ \A i \in 1 .. n - k : t[i] = k + i
    <3>1. \A i \in k + 1 .. n : all[i] \in 1 .. n /\ all[i] = i BY <1>3
    <3>2. k + 1 \in Int /\ n \in Int BY <1>3
    <3> HIDE DEF all
    <3>3. /\ t \in Seq(1 .. n)
          /\ Len(t) = IF k + 1 <= n THEN n - (k + 1) + 1 ELSE 0
          /\ \A i \in 1 .. n - (k + 1) + 1 : t[i] = all[k + 1 + i - 1]
      BY <3>1, <3>2, SubSeqProperties
    <3>4. \A i \in 1 .. n - k : k + 1 + i - 1 = k + i /\ k + i \in k + 1 .. n BY <1>3
    <3> QED BY <1>3, <3>1, <3>3, <3>4
  <2> HIDE DEF s, t
  <2>4. /\ s \o t \in Seq(1 .. n) /\ Len(s \o t) = n - 1
        /\ \A i \in 1 .. n - 1 : (s \o t)[i] = IF i <= k - 1 THEN s[i] ELSE t[i - (k - 1)]
    <3>1. /\ s \o t \in Seq(1 .. n) /\ Len(s \o t) = Len(s) + Len(t)
          /\ \A i \in 1 .. Len(s) + Len(t) :
               (s \o t)[i] = IF i <= Len(s) THEN s[i] ELSE t[i - Len(s)]
      BY <2>2, <2>3, ConcatProperties
    <3>2. Len(s) + Len(t) = n - 1 BY <1>3, <2>2, <2>3
    <3> QED BY <2>2, <3>1, <3>2
  <2>5. ASSUME NEW i \in 1 .. n - 1 PROVE (s \o t)[i] = IF i >= k THEN i + 1 ELSE i
    <3>1. CASE i <= k - 1 BY <1>3, <2>2, <2>4, <3>1
    <3>2. CASE ~(i <= k - 1)
      <4>1. i - (k - 1) \in 1 .. n - k /\ k + (i - (k - 1)) = i + 1 BY <1>3, <3>2
      <4> QED BY <1>3, <2>3, <2>4, <3>2, <4>1
    <3> QED BY <3>1, <3>2
  <2> QED BY <1>3, <2>1, <2>4, <2>5
<1> QED BY <1>2, <1>3

\* The numbers of the two words of a couple.
LEMMA Doubles ==
  ASSUME NEW n \in Nat, NEW i \in 1 .. n
  PROVE  2 * i - 1 \in Nat \ {0} /\ 2 * i \in Nat \ {0}
OBVIOUS

LEMMA Bounds ==
  ASSUME NEW n \in Nat, NEW i \in 1 .. n, NEW k \in Nat
  PROVE  IF i <= k THEN i \in 1 .. k /\ 2 * i - 1 <= 2 * k /\ 2 * i <= 2 * k
                   ELSE ~(2 * i - 1 <= 2 * k) /\ ~(2 * i <= 2 * k)
OBVIOUS

LEMMA WordOfSeq ==
  ASSUME NEW S, NEW w \in Seq(S), NEW j \in Nat \ {0}, j <= Len(w)
  PROVE  w[j] \in S
<1>1. Len(w) \in Nat BY LenProperties
<1>2. j \in 1 .. Len(w) BY <1>1
<1> QED BY <1>2, ElementOfSeq

LEMMA FunctionIsSeq ==
  ASSUME NEW S, NEW n \in Nat, NEW f \in [1 .. n -> S]
  PROVE  f \in Seq(S) /\ Len(f) = n
OBVIOUS

\* A list has as many couples as the count before it, and no other words than
\* the file's and what malloc left.
LEMMA CouplesTyped ==
  ASSUME file \in Seq(Seq(Words)), NEW n \in Nat, NEW list \in ListOfCouples(n)
  PROVE  list \in Seq(Words \X Words) /\ Len(list) = n
<1> DEFINE words == FlattenSeq(file)
<1>1. words \in Seq(Words)
  <2>1. \A u, v \in Seq(Words) : u \o v \in Seq(Words) BY ConcatProperties
  <2>2. Seq(Words) \in SUBSET Seq(Words) /\ <<>> \in Seq(Words) OBVIOUS
  <2> QED BY <2>1, <2>2, FlattenClosed
<1>2. PICK rest \in {Junk, ""} : list = [i \in 1 .. n |->
        <<IF 2 * i - 1 <= Len(words) THEN words[2 * i - 1] ELSE rest,
          IF 2 * i <= Len(words) THEN words[2 * i] ELSE rest>>]
  BY DEF ListOfCouples
<1> HIDE DEF words
<1>3. rest \in Words BY DEF Words
<1>4. \A j \in Nat \ {0} : j <= Len(words) => words[j] \in Words
  BY <1>1, WordOfSeq
<1>5. ASSUME NEW i \in 1 .. n PROVE list[i] \in Words \X Words
  <2>1. 2 * i - 1 \in Nat \ {0} /\ 2 * i \in Nat \ {0} BY Doubles
  <2> QED BY <1>2, <1>3, <1>4, <2>1
<1>6. list = [i \in 1 .. n |-> list[i]] BY <1>2
<1>7. list \in [1 .. n -> Words \X Words] BY <1>5, <1>6
<1> QED BY <1>7, FunctionIsSeq

\* If every line is a couple of G or empty, so is every couple of a list, but for
\* those that malloc left.
LEMMA CouplesGenuine ==
  ASSUME NEW G \in SUBSET (Words \X Words), file \in Seq({<<>>} \cup G),
         NEW n \in Nat, NEW list \in ListOfCouples(n), NEW i \in 1 .. n
  PROVE  list[i] \in G \cup {<<Junk, Junk>>, <<"", "">>}
<1> DEFINE words == FlattenSeq(file)
           Paired(w) == \E k \in Nat : /\ Len(w) = 2 * k
                                       /\ \A j \in 1 .. k : <<w[2 * j - 1], w[2 * j]>> \in G
           C == {w \in Seq(Words) : Paired(w)}
<1>1. ASSUME NEW l \in G
      PROVE  l \in Seq(Words) /\ Len(l) = 2 /\ <<l[1], l[2]>> \in G
  <2>1. PICK a \in Words, b \in Words : l = <<a, b>> OBVIOUS
  <2>2. <<a, b>> \in Seq(Words) /\ Len(<<a, b>>) = 2 BY <2>1
  <2> QED BY <2>1, <2>2
<1>2. <<>> \in C
  <2>1. <<>> \in Seq(Words) /\ Len(<<>>) = 2 * 0 BY EmptySeq
  <2> QED BY <2>1
<1>3. ASSUME NEW w \in C, NEW l \in {<<>>} \cup G PROVE w \o l \in C
  <2>1. CASE l = <<>>
    <3>1. w \o l = w BY <2>1, ConcatEmptySeq
    <3> QED BY <3>1
  <2>2. CASE l \in G
    <3>1. PICK k \in Nat : /\ Len(w) = 2 * k
                           /\ \A j \in 1 .. k : <<w[2 * j - 1], w[2 * j]>> \in G
      OBVIOUS
    <3> DEFINE v == w \o l
    <3>2. /\ v \in Seq(Words) /\ Len(v) = 2 * k + 2
          /\ \A m \in 1 .. 2 * k + 2 : v[m] = IF m <= 2 * k THEN w[m] ELSE l[m - 2 * k]
      <4>1. w \in Seq(Words) /\ l \in Seq(Words) /\ Len(l) = 2
        BY <1>1, <2>2
      <4> HIDE DEF C
      <4>2. /\ w \o l \in Seq(Words) /\ Len(w \o l) = Len(w) + Len(l)
            /\ \A m \in 1 .. Len(w) + Len(l) :
                 (w \o l)[m] = IF m <= Len(w) THEN w[m] ELSE l[m - Len(w)]
        BY <4>1, ConcatProperties
      <4> QED BY <3>1, <4>1, <4>2
    <3> HIDE DEF v
    <3>3. ASSUME NEW j \in 1 .. k + 1 PROVE <<v[2 * j - 1], v[2 * j]>> \in G
      <4>1. CASE j \in 1 .. k
        <5>1. 2 * j - 1 \in 1 .. 2 * k /\ 2 * j \in 1 .. 2 * k BY <4>1
        <5>2. v[2 * j - 1] = w[2 * j - 1] /\ v[2 * j] = w[2 * j] BY <3>2, <5>1
        <5> QED BY <3>1, <4>1, <5>2
      <4>2. CASE j = k + 1
        <5>1. 2 * j - 1 = 2 * k + 1 /\ 2 * j = 2 * k + 2 BY <4>2
        <5>2. v[2 * k + 1] = l[1] /\ v[2 * k + 2] = l[2] BY <3>2
        <5> QED BY <1>1, <2>2, <5>1, <5>2
      <4> QED BY <4>1, <4>2
    <3>4. Len(v) = 2 * (k + 1) /\ k + 1 \in Nat BY <3>2
    <3>5. Paired(v) BY <3>3, <3>4
    <3> HIDE DEF Paired
    <3> QED BY <3>2, <3>5 DEF v
  <2> QED BY <2>1, <2>2
<1>4. {<<>>} \cup G \subseteq C
  <2>1. ASSUME NEW l \in G PROVE l \in C
    <3>1. \A j \in 1 .. 1 : <<l[2 * j - 1], l[2 * j]>> \in G
      <4>1. \A j \in 1 .. 1 : 2 * j - 1 = 1 /\ 2 * j = 2 OBVIOUS
      <4> QED BY <1>1, <2>1, <4>1
    <3>2. Len(l) = 2 * 1 BY <1>1, <2>1
    <3>3. Paired(l) BY <3>1, <3>2
    <3> HIDE DEF Paired
    <3> QED BY <1>1, <2>1, <3>3
  <2> QED BY <1>2, <2>1
<1> HIDE DEF Paired
<1>5. {<<>>} \cup G \in SUBSET Seq(Words)
  BY <1>1, EmptySeq
<1>6. words \in C
  <2> HIDE DEF C
  <2> QED BY <1>2, <1>3, <1>4, <1>5, FlattenClosed
<1>7. PICK k \in Nat : /\ Len(words) = 2 * k
                       /\ \A j \in 1 .. k : <<words[2 * j - 1], words[2 * j]>> \in G
  BY <1>6 DEF Paired
<1>8. PICK rest \in {Junk, ""} : list = [j \in 1 .. n |->
        <<IF 2 * j - 1 <= Len(words) THEN words[2 * j - 1] ELSE rest,
          IF 2 * j <= Len(words) THEN words[2 * j] ELSE rest>>]
  BY DEF ListOfCouples
<1> HIDE DEF words, C
<1>9. CASE i <= k
  <2>1. i \in 1 .. k /\ 2 * i - 1 <= 2 * k /\ 2 * i <= 2 * k BY <1>9, Bounds
  <2>2. list[i] = <<words[2 * i - 1], words[2 * i]>> BY <1>7, <1>8, <2>1
  <2> QED BY <1>7, <2>1, <2>2
<1>10. CASE ~(i <= k)
  <2>1. ~(2 * i - 1 <= 2 * k) /\ ~(2 * i <= 2 * k) BY <1>10, Bounds
  <2>2. list[i] = <<rest, rest>> BY <1>7, <1>8, <2>1
  <2> QED BY <2>2
<1> QED BY <1>9, <1>10

LEMMA LastHitInHits ==
  ASSUME NEW n \in Nat, NEW hits \in SUBSET (1 .. n), hits # {}
  PROVE  LastHit(hits) \in hits /\ \A j \in hits : j <= LastHit(hits)
<1> DEFINE T == {n - k : k \in hits}
<1>1. \A k \in hits : k \in Nat /\ n - k \in Nat
  OBVIOUS
<1>2. T \in SUBSET Nat /\ T # {}
  BY <1>1
<1>3. PICK x \in T : \A y \in T : x <= y
  BY <1>2, NatMin
<1>4. PICK k \in hits : x = n - k
  OBVIOUS
<1>5. ASSUME NEW j \in hits PROVE j <= k
  <2>1. n - j \in T /\ x <= n - j BY <1>3
  <2> QED BY <1>1, <1>4, <2>1
<1> QED BY <1>4, <1>5 DEF LastHit

-----------------------------------------------------------------------------
(* Which thread is where.                                                  *)

\* Before a deletion has found its line.
Undeleted ==
  \A r \in Requests : request[r] # None /\ request[r].op = "delete" => var[r] = 0

\* Which thread is where.
PlacesOf(r) ==
  /\ pc[r] \in Pcs
  /\ pc[r] # "none" => request[r] \in Inputs
  /\ pc[r] = "none" => request[r] = None
  /\ pc[r] = "append" => request[r].op = "create"
  /\ pc[r] \in {"truncate", "rewrite"} => request[r].op = "delete"
  /\ var[r] # 0 => pc[r] \in {"truncate", "rewrite", "done"}
  /\ pc[r] \notin {"none", "length", "done"} => exists
  /\ r \in missing => pc[r] = "length"

Places ==
  /\ pc \in [Requests -> Pcs] /\ request \in [Requests -> Inputs \cup {None}]
  /\ var = [r \in Requests |-> var[r]] /\ missing \subseteq Requests
  /\ \A r \in Requests : PlacesOf(r)

LEMMA InitPlaces == Init => Places
BY DEF Init, Places, PlacesOf, Pcs

LEMMA StepPlaces == Places /\ [Next]_vars => Places'
<1> SUFFICES ASSUME Places, [Next]_vars PROVE Places' OBVIOUS
<1> USE DEF Places, PlacesOf, Pcs
<1>1. CASE UNCHANGED vars BY <1>1 DEF vars, finding, deleting
<1>2. CASE Crash
  BY <1>2 DEF Crash, Running, finding, deleting
<1>3. ASSUME NEW r \in Requests, Ask(r) PROVE Places'
  BY <1>3 DEF Ask, Goto, finding, deleting
<1>4. ASSUME NEW r \in Requests, SeeNoFile(r) PROVE Places'
  BY <1>4 DEF SeeNoFile, finding, deleting
<1>5. ASSUME NEW r \in Requests, MakeFile(r) PROVE Places'
  BY <1>5 DEF MakeFile, finding, deleting
<1>6. ASSUME NEW r \in Requests, NumberOfLines(r) PROVE Places'
  BY <1>6 DEF NumberOfLines, Goto
<1>7. ASSUME NEW r \in Requests, ReadOld(r) PROVE Places'
  BY <1>7 DEF ReadOld, At, Goto, finding
<1>8. ASSUME NEW r \in Requests, Read(r) PROVE Places'
  <2>1. /\ pc[r] = "read" /\ UNCHANGED <<exists, request, missing>>
        /\ \/ UNCHANGED var /\ pc' = [pc EXCEPT ![r] = "done"]
           \/ UNCHANGED var /\ pc' = [pc EXCEPT ![r] = "append"] /\ request[r].op = "create"
           \/ UNCHANGED var /\ pc' = [pc EXCEPT ![r] = "oldSize"]
           \/ /\ pc' = [pc EXCEPT ![r] = "truncate"] /\ request[r].op = "delete"
              /\ \E v : var' = [var EXCEPT ![r] = v]
    BY <1>8 DEF Read, At, Return, Goto
  <2>2. CASE UNCHANGED var BY <2>1, <2>2
  <2>3. ASSUME NEW v, var' = [var EXCEPT ![r] = v], request[r].op = "delete",
               pc' = [pc EXCEPT ![r] = "truncate"]
        PROVE  Places'
    <3>1. /\ \A q \in Requests \ {r} : var'[q] = var[q] /\ pc'[q] = pc[q]
          /\ pc'[r] = "truncate" /\ var' = [q \in Requests |-> var'[q]]
      BY <2>3
    <3> QED BY <2>1, <2>3, <3>1
  <2> QED BY <2>1, <2>2, <2>3
<1>9. ASSUME NEW r \in Requests, AppendLine(r) \/ Truncate(r) \/ Rewrite(r)
      PROVE  Places'
  <2>1. /\ UNCHANGED <<request, var, missing>> /\ (exists => exists')
        /\ r \notin missing
        /\ \/ pc[r] \in {"append", "rewrite"} /\ pc' = [pc EXCEPT ![r] = "done"]
           \/ pc[r] = "truncate" /\ pc' = [pc EXCEPT ![r] = "rewrite"]
    BY <1>9 DEF AppendLine, Truncate, Rewrite, At, Return, Goto, finding, deleting
  <2> QED BY <2>1
<1> QED
  BY <1>1, <1>2, <1>3, <1>4, <1>5, <1>6, <1>7, <1>8, <1>9 DEF Next, RequestStep

-----------------------------------------------------------------------------
(* Types.                                                                  *)

ValueTypes ==
  /\ exists \in BOOLEAN /\ sound \in BOOLEAN /\ wild \in BOOLEAN
  /\ file \in Seq(Seq(Words))
  /\ result \in [Requests -> {"yes", "no", "lost", None}]
  /\ length \in [Requests -> Nat] /\ size \in [Requests -> Nat]
  /\ lines \in [Requests -> Nat] /\ var \in [Requests -> Nat]

\* delete has its list before it empties the file.
ListType(list) == list # None => list \in Seq(Words \X Words)
ListTypes ==
  /\ couples = [r \in Requests |-> couples[r]] /\ old = [r \in Requests |-> old[r]]
  /\ \A r \in Requests :
       /\ ListType(couples[r]) /\ ListType(old[r])
       /\ pc[r] \in {"truncate", "rewrite"} => old[r] # None

TypeInv == Places /\ ValueTypes /\ ListTypes /\ start \in Files

LEMMA WordsOfLines ==
  /\ \A p \in Passwords : p \in Seq(Words)
  /\ \A l \in Names \X PasswordWords : l \in Seq(Words)
<1>1. PasswordWords \subseteq Words /\ Names \subseteq Words BY DEF Words
<1>2. \A p \in Passwords : p \in Seq(Words)
  BY <1>1, PasswordAssumption, SeqMonotonic
<1>3. ASSUME NEW l \in Names \X PasswordWords PROVE l \in Seq(Words)
  <2>1. PICK name \in Names, w \in PasswordWords : l = <<name, w>> OBVIOUS
  <2>2. name \in Words /\ w \in Words BY <1>1
  <2>3. <<name, w>> \in Seq(Words) BY <2>2
  <2> QED BY <2>1, <2>3
<1> QED BY <1>2, <1>3

LEMMA FilesAreLines == \A f \in Files : f \in Seq(Seq(Words))
<1>1. Names \X PasswordWords \subseteq Seq(Words) BY WordsOfLines
<1> QED BY <1>1, FileAssumption, SeqMonotonic

LEMMA InitTypes == Init => TypeInv
<1> SUFFICES ASSUME Init PROVE TypeInv OBVIOUS
<1>1. Places BY InitPlaces
<1>2. file \in Seq(Seq(Words)) BY FilesAreLines DEF Init
<1> QED BY <1>1, <1>2 DEF Init, TypeInv, ValueTypes, ListTypes, ListType

\* The lines delete writes are made of words.
LEMMA LineTypes ==
  ASSUME NEW r \in Requests, ListType(old[r]), old[r] # None,
         lines[r] \in Nat, var[r] \in Nat
  PROVE  /\ Len(old[r]) \in Nat
         /\ [i \in DOMAIN Kept(r) |-> Line(r, Kept(r)[i])] \in Seq(Seq(Words))
         /\ Len([i \in DOMAIN Kept(r) |-> Line(r, Kept(r)[i])]) = Len(Kept(r))
<1>1. old[r] \in Seq(Words \X Words) /\ Len(old[r]) \in Nat
  BY LenProperties DEF ListType
<1>2. Kept(r) \in Seq(1 .. lines[r])
  BY AllButProperties DEF Kept
<1>3. /\ Len(Kept(r)) \in Nat /\ DOMAIN Kept(r) = 1 .. Len(Kept(r))
      /\ \A i \in 1 .. Len(Kept(r)) : Kept(r)[i] \in 1 .. lines[r]
  BY <1>2, LenProperties, ElementOfSeq
<1>4. ASSUME NEW w \in Words PROVE Word(w) \in Seq(Words)
  <2>1. <<w>> \in Seq(Words) /\ <<>> \in Seq(Words) BY EmptySeq
  <2> QED BY <2>1 DEF Word
<1>5. ASSUME NEW k \in 1 .. lines[r] PROVE Line(r, k) \in Seq(Words)
  <2>1. CASE k > Len(old[r])
    <3>1. Junk \in Words BY DEF Words
    <3>2. <<Junk, Junk>> \in Seq(Words) BY <3>1
    <3> QED BY <2>1, <3>2 DEF Line
  <2>2. CASE ~(k > Len(old[r]))
    <3>1. k \in 1 .. Len(old[r]) BY <1>1, <2>2
    <3>2. old[r][k] \in Words \X Words BY <1>1, <3>1, ElementOfSeq
    <3>3. old[r][k][1] \in Words /\ old[r][k][2] \in Words BY <3>2
    <3>4. Word(old[r][k][1]) \o Word(old[r][k][2]) \in Seq(Words)
      BY <1>4, <3>3, ConcatProperties
    <3> QED BY <2>2, <3>4 DEF Line
  <2> QED BY <2>1, <2>2
<1> DEFINE f == [i \in DOMAIN Kept(r) |-> Line(r, Kept(r)[i])]
<1>6. f \in [1 .. Len(Kept(r)) -> Seq(Words)] BY <1>3, <1>5
<1> HIDE DEF f
<1>7. f \in Seq(Seq(Words)) /\ Len(f) = Len(Kept(r)) BY <1>3, <1>6, FunctionIsSeq
<1> QED BY <1>1, <1>7 DEF f

\* What is left of the file behind what is written over it.
LEMMA RestTypes ==
  ASSUME NEW S, NEW s \in Seq(S), NEW n \in Nat
  PROVE  SubSeq(s, n + 1, Len(s)) \in Seq(S)
<1>1. Len(s) \in Nat BY LenProperties
<1>2. \A i \in n + 1 .. Len(s) : s[i] \in S
  <2>1. \A i \in n + 1 .. Len(s) : i \in 1 .. Len(s) BY <1>1
  <2> QED BY <2>1, ElementOfSeq
<1> QED BY <1>1, <1>2, SubSeqProperties

\* The value of one thread is changed to one of the type.
LEMMA ExceptTypes ==
  ASSUME NEW S, NEW f \in [Requests -> S], NEW r \in Requests, NEW v \in S
  PROVE  [f EXCEPT ![r] = v] \in [Requests -> S]
OBVIOUS

LEMMA StepTypes == TypeInv /\ [Next]_vars => TypeInv'
<1> SUFFICES ASSUME TypeInv, [Next]_vars PROVE TypeInv' OBVIOUS
<1>0. Places /\ ValueTypes /\ ListTypes /\ Places'
  BY StepPlaces DEF TypeInv
<1>1. sound' \in BOOLEAN /\ start' \in Files
  BY <1>0 DEF Next, vars, ValueTypes, TypeInv
<1>2. CASE UNCHANGED vars
  BY <1>0, <1>2 DEF vars, finding, deleting, TypeInv, ValueTypes, ListTypes
<1> SUFFICES ASSUME Next PROVE ValueTypes' /\ ListTypes'
  BY <1>0, <1>1, <1>2 DEF TypeInv
<1>3. Len(file) \in Nat
  BY <1>0, LenProperties DEF ValueTypes
<1>4. CASE Crash
  <2>1. ValueTypes'
    BY <1>0, <1>1, <1>4 DEF Crash, ValueTypes, finding, deleting
  <2>2. ListTypes'
    BY <1>0, <1>4 DEF Crash, Running, ListTypes, Places, PlacesOf, Pcs, finding, deleting
  <2> QED BY <2>1, <2>2
<1>5. ASSUME NEW r \in Requests, Ask(r) \/ SeeNoFile(r) \/ MakeFile(r)
      PROVE  ValueTypes' /\ ListTypes'
  <2>1. /\ UNCHANGED <<result, finding, deleting, wild>>
        /\ pc' = pc \/ pc' = [pc EXCEPT ![r] = "length"]
        /\ exists' \in BOOLEAN /\ file' \in Seq(Seq(Words))
    BY <1>0, <1>5, EmptySeq DEF Ask, SeeNoFile, MakeFile, Goto, ValueTypes
  <2>2. ValueTypes'
    BY <1>0, <1>1, <2>1 DEF ValueTypes, finding, deleting
  <2>3. ListTypes'
    BY <1>0, <2>1 DEF ListTypes, finding, deleting, Places
  <2> QED BY <2>2, <2>3
<1>6. ASSUME NEW r \in Requests, NumberOfLines(r) PROVE ValueTypes' /\ ListTypes'
  <2>1. /\ UNCHANGED <<exists, file, result, couples, old, var, wild>>
        /\ length' = length \/ length' = [length EXCEPT ![r] = Len(file)]
        /\ size' = size \/ size' = [size EXCEPT ![r] = Len(file)]
        /\ lines' = lines \/ lines' = [lines EXCEPT ![r] = Len(file)]
        /\ \E s \in {"size", "read", "oldRead", "length"} : pc' = [pc EXCEPT ![r] = s]
    BY <1>6 DEF NumberOfLines, Goto
  <2>2. /\ length' \in [Requests -> Nat] /\ size' \in [Requests -> Nat]
        /\ lines' \in [Requests -> Nat]
    <3>1. \A f \in [Requests -> Nat] : [f EXCEPT ![r] = Len(file)] \in [Requests -> Nat]
      BY <1>3, ExceptTypes
    <3>2. /\ length \in [Requests -> Nat] /\ size \in [Requests -> Nat]
          /\ lines \in [Requests -> Nat]
      BY <1>0 DEF ValueTypes
    <3> QED BY <2>1, <3>1, <3>2
  <2>3. ValueTypes'
    BY <1>0, <1>1, <2>1, <2>2 DEF ValueTypes
  <2>4. ListTypes'
    BY <1>0, <2>1 DEF ListTypes, Places
  <2> QED BY <2>3, <2>4
<1>7. ASSUME NEW r \in Requests, ReadOld(r) PROVE ValueTypes' /\ ListTypes'
  <2>1. PICK list \in ListOfCouples(size[r]) : old' = [old EXCEPT ![r] = list]
    BY <1>7 DEF ReadOld
  <2>2. list \in Seq(Words \X Words)
    BY <1>0, CouplesTyped DEF ValueTypes
  <2>3. /\ UNCHANGED <<exists, file, result, finding, lines, var, wild>>
        /\ pc' = [pc EXCEPT ![r] = "lines"]
    BY <1>7 DEF ReadOld, Goto
  <2>4. ValueTypes'
    BY <1>0, <1>1, <2>3 DEF ValueTypes, finding
  <2>5. ListTypes'
    BY <1>0, <2>1, <2>2, <2>3 DEF ListTypes, ListType, Places, finding
  <2> QED BY <2>4, <2>5
<1>8. ASSUME NEW r \in Requests, Read(r) PROVE ValueTypes' /\ ListTypes'
  <2>1. PICK list \in ListOfCouples(size[r]) :
          /\ couples' = [couples EXCEPT ![r] = list]
          /\ \/ UNCHANGED var
             \/ /\ old[r] # None /\ Hits(r, list) # {}
                /\ var' = [var EXCEPT ![r] = LastHit(Hits(r, list))]
    BY <1>8 DEF Read
  <2>2. /\ UNCHANGED <<exists, file, length, size, lines, old>>
        /\ wild' = (wild \/ length[r] > size[r])
        /\ result' \in {result, [result EXCEPT ![r] = "yes"], [result EXCEPT ![r] = "no"]}
        /\ \E s \in {"done", "append", "oldSize", "truncate"} :
             pc' = [pc EXCEPT ![r] = s] /\ (s = "truncate" => old[r] # None)
    BY <1>8 DEF Read, Goto, Return
  <2>3. list \in Seq(Words \X Words)
    BY <1>0, CouplesTyped DEF ValueTypes
  <2>4. var' \in [Requests -> Nat]
    <3>1. length[r] \in Nat /\ Hits(r, list) \in SUBSET (1 .. length[r])
      BY <1>0 DEF ValueTypes, Hits
    <3>2. Hits(r, list) # {} => LastHit(Hits(r, list)) \in 1 .. length[r]
      BY <3>1, LastHitInHits
    <3>3. 1 .. length[r] \subseteq Nat BY <3>1
    <3> QED BY <1>0, <2>1, <3>2, <3>3, ExceptTypes DEF ValueTypes
  <2>5. ValueTypes'
    BY <1>0, <1>1, <2>2, <2>4, ExceptTypes DEF ValueTypes
  <2>6. ListTypes'
    BY <1>0, <2>1, <2>2, <2>3 DEF ListTypes, ListType, Places
  <2> QED BY <2>5, <2>6
<1>9. ASSUME NEW r \in Requests, AppendLine(r) PROVE ValueTypes' /\ ListTypes'
  <2>1. request[r] \in Inputs
    BY <1>0, <1>9 DEF AppendLine, At, Places, PlacesOf
  <2>2. <<request[r].name>> \o request[r].password \in Seq(Words)
    <3>1. request[r].name \in Words /\ request[r].password \in Seq(Words)
      BY <2>1, WordsOfLines DEF Inputs, Words
    <3> QED BY <3>1, ConcatProperties
  <2>3. file' \in Seq(Seq(Words))
    BY <1>0, <1>9, <2>2, AppendProperties DEF AppendLine, ValueTypes
  <2>4. /\ UNCHANGED <<finding, deleting, wild>> /\ exists' = TRUE
        /\ result' = [result EXCEPT ![r] = "yes"] /\ pc' = [pc EXCEPT ![r] = "done"]
    BY <1>9 DEF AppendLine, Return, Goto
  <2>5. ValueTypes'
    BY <1>0, <1>1, <2>3, <2>4 DEF ValueTypes, finding, deleting
  <2>6. ListTypes'
    BY <1>0, <2>4 DEF ListTypes, Places, finding, deleting
  <2> QED BY <2>5, <2>6
<1>10. ASSUME NEW r \in Requests, Truncate(r) PROVE ValueTypes' /\ ListTypes'
  <2>1. /\ UNCHANGED <<exists, result, finding, deleting, wild>> /\ file' = <<>>
        /\ pc[r] = "truncate" /\ pc' = [pc EXCEPT ![r] = "rewrite"]
    BY <1>10 DEF Truncate, At, Goto
  <2>2. ValueTypes'
    BY <1>0, <1>1, <2>1, EmptySeq DEF ValueTypes, finding, deleting
  <2>3. ListTypes'
    BY <1>0, <2>1 DEF ListTypes, Places, finding, deleting
  <2> QED BY <2>2, <2>3
<1>11. ASSUME NEW r \in Requests, Rewrite(r) PROVE ValueTypes' /\ ListTypes'
  <2> DEFINE kept == [i \in DOMAIN Kept(r) |-> Line(r, Kept(r)[i])]
  <2>1. /\ UNCHANGED <<exists, finding, deleting>> /\ pc[r] = "rewrite"
        /\ file' = kept \o SubSeq(file, Len(kept) + 1, Len(file))
        /\ wild' = (wild \/ lines[r] > Len(old[r]))
        /\ result' = [result EXCEPT ![r] = "yes"] /\ pc' = [pc EXCEPT ![r] = "done"]
    BY <1>11 DEF Rewrite, At, Return, Goto
  <2>2. /\ old[r] # None /\ ListType(old[r])
        /\ lines[r] \in Nat /\ var[r] \in Nat
    BY <1>0, <2>1 DEF ListTypes, ValueTypes
  <2>3. kept \in Seq(Seq(Words))
    BY <2>2, LineTypes
  <2> HIDE DEF kept
  <2>4. SubSeq(file, Len(kept) + 1, Len(file)) \in Seq(Seq(Words))
    BY <1>0, <2>3, LenProperties, RestTypes DEF ValueTypes
  <2>5. file' \in Seq(Seq(Words))
    BY <2>1, <2>3, <2>4, ConcatProperties
  <2>6. ValueTypes'
    BY <1>0, <1>1, <2>1, <2>5 DEF ValueTypes, finding, deleting
  <2>7. ListTypes'
    BY <1>0, <2>1 DEF ListTypes, Places, finding, deleting
  <2> QED BY <2>6, <2>7
<1> QED
  BY <1>4, <1>5, <1>6, <1>7, <1>8, <1>9, <1>10, <1>11 DEF Next, RequestStep

\* Every state has the declared types: whatever garbage fscanf leaves in a list and
\* delete writes back, the file stays lines of words and a list couples of words.
THEOREM TypeCorrect == Spec => []TypeOK
<1>1. TypeInv => TypeOK
  BY DEF TypeInv, TypeOK, Places, ValueTypes, ListTypes, ListType
<1> QED BY InitTypes, StepTypes, <1>1, PTL DEF Spec

-----------------------------------------------------------------------------
(* Whose accounts are in the file: whatever writers and crashes do to it,  *)
(* its lines are empty, garbage, or one that the file held when the server *)
(* started or a creation wrote.                                            *)

OneWord == \A r \in Requests : request[r] # None => Len(request[r].password) = 1

Created(r, l) ==
  /\ request[r] \in Inputs /\ request[r].op = "create" /\ result[r] = "yes"
  /\ l = <<request[r].name, request[r].password[1]>>
Wrote ==
  {l \in Names \X PasswordWords :
     l \in ToSet(start) \/ \E r \in Requests : Created(r, l)}
Known == Wrote \cup {<<Junk, Junk>>}

Answered == \A r \in Requests : result[r] # None <=> pc[r] = "done"

GenuineFile == file \in Seq({<<>>} \cup Known)
GenuineOld ==
  \A r \in Requests : old[r] # None =>
    \A i \in 1 .. Len(old[r]) : old[r][i] \in Known \cup {<<"", "">>}
GenuineLogins ==
  \A r \in Requests : result[r] = "yes" /\ request[r].op = "login" =>
    \E w \in PasswordWords :
      request[r].password = <<w>> /\ <<request[r].name, w>> \in Wrote

GenuineInv ==
  /\ TypeInv /\ Answered
  /\ OneWord => GenuineFile /\ GenuineOld /\ GenuineLogins

LEMMA TwoWords ==
  ASSUME NEW a, NEW b PROVE <<a>> \o <<b>> = <<a, b>>
<1>1. /\ <<a>> \in Seq({a, b}) /\ Len(<<a>>) = 1 /\ <<a>>[1] = a
      /\ <<b>> \in Seq({a, b}) /\ Len(<<b>>) = 1 /\ <<b>>[1] = b
      /\ <<a, b>> \in Seq({a, b}) /\ Len(<<a, b>>) = 2
  OBVIOUS
<1>2. /\ <<a>> \o <<b>> \in Seq({a, b}) /\ Len(<<a>> \o <<b>>) = 2
      /\ (<<a>> \o <<b>>)[1] = a /\ (<<a>> \o <<b>>)[2] = b
  BY <1>1, ConcatProperties
<1>3. \A i \in 1 .. Len(<<a>> \o <<b>>) : (<<a>> \o <<b>>)[i] = <<a, b>>[i]
  BY <1>2
<1> QED BY <1>1, <1>2, <1>3, SeqEqual

LEMMA Fields ==
  ASSUME NEW a, NEW b, NEW l, l = <<a, b>> PROVE l[1] = a /\ l[2] = b
OBVIOUS

\* The words of a password of one word.
LEMMA OneWordPassword ==
  ASSUME NEW p \in Passwords, Len(p) = 1
  PROVE  p[1] \in PasswordWords /\ p = <<p[1]>>
<1>1. p \in Seq(PasswordWords) BY PasswordAssumption
<1> QED BY <1>1

LEMMA InitGenuine == Init => GenuineInv
<1> SUFFICES ASSUME Init PROVE GenuineInv OBVIOUS
<1>1. TypeInv BY InitTypes
<1>2. Answered BY NoneAssumption DEF Init, Answered
<1>3. GenuineFile
  <2>1. file \in Files /\ file \in Seq(Names \X PasswordWords)
    BY FileAssumption DEF Init
  <2>2. \A i \in 1 .. Len(file) : file[i] \in {<<>>} \cup Known
    <3>1. \A i \in 1 .. Len(file) :
            file[i] \in Names \X PasswordWords /\ file[i] \in ToSet(file)
      BY <2>1, ElementOfSeq DEF ToSet
    <3>2. start = file BY DEF Init
    <3> QED BY <2>1, <3>1, <3>2 DEF Known, Wrote
  <2>3. PICK S : S = {<<>>} \cup Known OBVIOUS
  <2>4. file \in [1 .. Len(file) -> S] /\ Len(file) \in Nat
    BY <2>1, <2>2, <2>3, LenProperties
  <2>5. file \in Seq(S) BY <2>4, FunctionIsSeq
  <2> QED BY <2>3, <2>5 DEF GenuineFile
<1>4. GenuineOld BY DEF Init, GenuineOld
<1>5. GenuineLogins BY NoneAssumption DEF Init, GenuineLogins
<1> QED BY <1>1, <1>2, <1>3, <1>4, <1>5 DEF GenuineInv

\* A thread that has answered is done with, and no other has answered.
LEMMA AnswersStand ==
  ASSUME TypeInv, Answered, [Next]_vars
  PROVE  /\ Answered'
         /\ \A r \in Requests : pc[r] = "done" =>
              result'[r] = result[r] /\ request'[r] = request[r]
         /\ \A r \in Requests : request[r] # None => request'[r] = request[r]
<1> USE NoneAssumption DEF TypeInv, Places, PlacesOf, ValueTypes, Answered
<1>1. CASE UNCHANGED vars
  BY <1>1 DEF vars, finding, deleting
<1>2. CASE Crash
  BY <1>2 DEF Crash, Running
<1>3. ASSUME NEW r \in Requests, Ask(r) PROVE
         /\ Answered'
         /\ \A q \in Requests : pc[q] = "done" =>
              result'[q] = result[q] /\ request'[q] = request[q]
         /\ \A q \in Requests : request[q] # None => request'[q] = request[q]
  BY <1>3 DEF Ask, Goto
<1>4. ASSUME NEW r \in Requests,
             \/ SeeNoFile(r) \/ MakeFile(r) \/ NumberOfLines(r) \/ ReadOld(r)
             \/ Read(r) \/ AppendLine(r) \/ Truncate(r) \/ Rewrite(r)
      PROVE  /\ Answered'
             /\ \A q \in Requests : pc[q] = "done" => result'[q] = result[q]
             /\ UNCHANGED request
  <2>1. \/ UNCHANGED <<pc, result>>
        \/ /\ pc[r] # "done" /\ UNCHANGED result
           /\ \E s \in Pcs \ {"done"} : pc' = [pc EXCEPT ![r] = s]
        \/ /\ pc[r] # "done" /\ pc' = [pc EXCEPT ![r] = "done"]
           /\ \E a \in {"yes", "no"} : result' = [result EXCEPT ![r] = a]
    BY <1>4 DEF SeeNoFile, MakeFile, NumberOfLines, ReadOld, Read, AppendLine, Truncate,
                Rewrite, At, Goto, Return, Pcs
  <2>2. UNCHANGED request
    BY <1>4 DEF SeeNoFile, MakeFile, NumberOfLines, ReadOld, Read, AppendLine, Truncate,
                Rewrite
  <2>3. CASE UNCHANGED <<pc, result>> BY <2>2, <2>3
  <2>4. ASSUME NEW s \in Pcs \ {"done"}, pc[r] # "done", UNCHANGED result,
               pc' = [pc EXCEPT ![r] = s]
        PROVE  Answered'
    BY <2>4
  <2>5. ASSUME NEW a \in {"yes", "no"}, pc[r] # "done", pc' = [pc EXCEPT ![r] = "done"],
               result' = [result EXCEPT ![r] = a]
        PROVE  Answered' /\ \A q \in Requests : pc[q] = "done" => result'[q] = result[q]
    BY <2>5
  <2> QED BY <2>1, <2>2, <2>3, <2>4, <2>5
<1> QED BY <1>1, <1>2, <1>3, <1>4 DEF Next, RequestStep

LEMMA WroteKept ==
  ASSUME TypeInv, Answered, [Next]_vars
  PROVE  Wrote \subseteq Wrote' /\ (OneWord' => OneWord)
<1>1. /\ \A r \in Requests : pc[r] = "done" =>
           result'[r] = result[r] /\ request'[r] = request[r]
      /\ \A r \in Requests : request[r] # None => request'[r] = request[r]
  BY AnswersStand
<1>2. ASSUME NEW r \in Requests, NEW l, Created(r, l) PROVE Created(r, l)'
  BY <1>1, <1>2, NoneAssumption DEF Created, Answered
<1>3. UNCHANGED start BY DEF Next, vars
<1> QED BY <1>1, <1>2, <1>3 DEF Wrote, OneWord

\* What delete writes of genuine couples.
LEMMA LineGenuine ==
  ASSUME NEW r \in Requests, ListType(old[r]), old[r] # None, GenuineOld, NEW k \in Nat \ {0}
  PROVE  Line(r, k) \in {<<>>} \cup Known
<1>1. old[r] \in Seq(Words \X Words) /\ Len(old[r]) \in Nat
  BY LenProperties DEF ListType
<1>2. CASE k > Len(old[r])
  BY <1>2 DEF Line, Known
<1>3. CASE ~(k > Len(old[r]))
  <2>1. k \in 1 .. Len(old[r]) BY <1>1, <1>3
  <2>2. Line(r, k) = Word(old[r][k][1]) \o Word(old[r][k][2])
    BY <1>3 DEF Line
  <2>3. old[r][k] \in Wrote \cup {<<Junk, Junk>>, <<"", "">>}
    BY <2>1 DEF GenuineOld, Known
  <2>4. CASE old[r][k] \in Wrote
    <3>1. PICK name \in Names, w \in PasswordWords : old[r][k] = <<name, w>>
      BY <2>4 DEF Wrote
    <3>2. name # "" /\ w # "" BY WordAssumption
    <3>3. Word(name) \o Word(w) = <<name, w>> BY <3>2, TwoWords DEF Word
    <3>4. old[r][k][1] = name /\ old[r][k][2] = w BY <3>1
    <3>5. Line(r, k) = old[r][k] BY <2>2, <3>1, <3>3, <3>4
    <3> QED BY <2>4, <3>5 DEF Known
  <2>5. CASE old[r][k] \in {<<Junk, Junk>>, <<"", "">>}
    <3>1. Word("") \o Word("") = <<>>
      <4>1. Word("") = <<>> BY DEF Word
      <4>2. <<>> \in Seq(Words) BY EmptySeq
      <4> QED BY <4>1, <4>2, ConcatEmptySeq
    <3>2. Word(Junk) \o Word(Junk) \in {<<>>, <<Junk, Junk>>}
      BY <3>1, TwoWords DEF Word
    <3>3. \/ old[r][k][1] = Junk /\ old[r][k][2] = Junk
          \/ old[r][k][1] = "" /\ old[r][k][2] = ""
      BY <2>5, Fields
    <3> QED BY <2>2, <3>1, <3>2, <3>3 DEF Known
  <2> QED BY <2>3, <2>4, <2>5
<1> QED BY <1>2, <1>3

LEMMA KnownWords == Known \subseteq Words \X Words
<1>1. Names \subseteq Words /\ PasswordWords \subseteq Words /\ Junk \in Words BY DEF Words
<1>2. Wrote \subseteq Words \X Words BY <1>1 DEF Wrote
<1> QED BY <1>1, <1>2 DEF Known

\* Every line of the file is one more known or one that was.
LEMMA StepGenuineFile ==
  ASSUME GenuineInv, Next, OneWord, Known \subseteq Known'
  PROVE  GenuineFile'
<1>0. TypeInv /\ GenuineFile /\ GenuineOld BY DEF GenuineInv
<1>1. CASE UNCHANGED file
  BY <1>0, <1>1, SeqMonotonic DEF GenuineFile
<1>2. CASE file' = <<>>
  BY <1>2, EmptySeq DEF GenuineFile
<1>3. ASSUME NEW r \in Requests, AppendLine(r) PROVE GenuineFile'
  <2>1. /\ pc[r] = "append" /\ request[r] \in Inputs /\ request[r].op = "create"
        /\ Len(request[r].password) = 1 /\ request' = request
        /\ result' = [result EXCEPT ![r] = "yes"]
        /\ file' = Append(file, <<request[r].name>> \o request[r].password)
    BY <1>0, <1>3, NoneAssumption
    DEF AppendLine, At, Return, TypeInv, Places, PlacesOf, OneWord
  <2>2. PICK l : l = <<request[r].name, request[r].password[1]>> OBVIOUS
  <2>3. /\ request[r].name \in Names
        /\ request[r].password[1] \in PasswordWords
        /\ request[r].password = <<request[r].password[1]>>
    BY <2>1, OneWordPassword DEF Inputs
  <2>4. <<request[r].name>> \o request[r].password = l
    BY <2>3, <2>2, TwoWords
  <2>5. result'[r] = "yes" BY <1>0, <2>1 DEF TypeInv, ValueTypes
  <2>6. l \in Known'
    <3>1. Created(r, l)' BY <2>1, <2>5, <2>2 DEF Created
    <3>2. l \in Names \X PasswordWords BY <2>3, <2>2
    <3>3. l \in Wrote' BY <3>1, <3>2 DEF Wrote
    <3> QED BY <3>3 DEF Known
  <2>7. file \in Seq({<<>>} \cup Known')
    BY <1>0, SeqMonotonic DEF GenuineFile
  <2> QED BY <2>1, <2>4, <2>6, <2>7, AppendProperties DEF GenuineFile
<1>4. ASSUME NEW r \in Requests, Rewrite(r) PROVE GenuineFile'
  <2> DEFINE kept == [i \in DOMAIN Kept(r) |-> Line(r, Kept(r)[i])]
  <2>1. /\ pc[r] = "rewrite"
        /\ file' = kept \o SubSeq(file, Len(kept) + 1, Len(file))
    BY <1>4 DEF Rewrite, At
  <2>2. /\ old[r] # None /\ ListType(old[r]) /\ lines[r] \in Nat /\ var[r] \in Nat
    BY <1>0, <2>1 DEF TypeInv, ListTypes, ValueTypes
  <2>3. /\ Kept(r) \in Seq(1 .. lines[r]) /\ Len(Kept(r)) \in Nat
        /\ DOMAIN Kept(r) = 1 .. Len(Kept(r))
        /\ \A i \in 1 .. Len(Kept(r)) : Kept(r)[i] \in 1 .. lines[r]
    BY <2>2, AllButProperties, LenProperties, ElementOfSeq DEF Kept
  <2>4. \A k \in 1 .. lines[r] : Line(r, k) \in {<<>>} \cup Known
    BY <1>0, <2>2, LineGenuine
  <2>5. kept \in [1 .. Len(Kept(r)) -> {<<>>} \cup Known]
    BY <2>3, <2>4
  <2> HIDE DEF kept
  <2>6. kept \in Seq({<<>>} \cup Known)
    BY <2>3, <2>5, FunctionIsSeq
  <2>7. SubSeq(file, Len(kept) + 1, Len(file)) \in Seq({<<>>} \cup Known)
    BY <1>0, <2>6, LenProperties, RestTypes DEF GenuineFile
  <2>8. file' \in Seq({<<>>} \cup Known)
    BY <2>1, <2>6, <2>7, ConcatProperties
  <2> QED BY <2>8, SeqMonotonic DEF GenuineFile
<1> QED
  BY <1>1, <1>2, <1>3, <1>4
  DEF Next, RequestStep, Crash, Ask, SeeNoFile, MakeFile, NumberOfLines, ReadOld, Read,
      Truncate

LEMMA StepGenuineOld ==
  ASSUME GenuineInv, Next, OneWord, Known \subseteq Known'
  PROVE  GenuineOld'
<1>0. TypeInv /\ GenuineFile /\ GenuineOld BY DEF GenuineInv
<1>1. CASE UNCHANGED old
  BY <1>0, <1>1 DEF GenuineOld
<1>2. ASSUME NEW r \in Requests, ReadOld(r) PROVE GenuineOld'
  <2>1. PICK list \in ListOfCouples(size[r]) : old' = [old EXCEPT ![r] = list]
    BY <1>2 DEF ReadOld
  <2>2. size[r] \in Nat /\ file \in Seq(Seq(Words))
    BY <1>0 DEF TypeInv, ValueTypes
  <2>3. Len(list) = size[r]
    BY <2>2, CouplesTyped
  <2>4. Known \in SUBSET (Words \X Words) /\ file \in Seq({<<>>} \cup Known)
    BY <1>0, KnownWords DEF GenuineFile
  <2>5. ASSUME NEW i \in 1 .. size[r] PROVE list[i] \in Known \cup {<<"", "">>}
    <3>1. list[i] \in Known \cup {<<Junk, Junk>>, <<"", "">>}
      BY <2>2, <2>4, CouplesGenuine
    <3> QED BY <3>1 DEF Known
  <2>6. /\ old'[r] = list /\ \A q \in Requests \ {r} : old'[q] = old[q]
    BY <1>0, <2>1 DEF TypeInv, ListTypes
  <2> QED BY <1>0, <2>3, <2>5, <2>6 DEF GenuineOld
<1> QED
  BY <1>1, <1>2
  DEF Next, RequestStep, Crash, Ask, SeeNoFile, MakeFile, NumberOfLines, Read, AppendLine,
      Truncate, Rewrite, deleting

LEMMA StepGenuineLogins ==
  ASSUME GenuineInv, Next, OneWord, Wrote \subseteq Wrote'
  PROVE  GenuineLogins'
<1>0. TypeInv /\ Answered /\ GenuineFile /\ GenuineLogins BY DEF GenuineInv
<1>1. \A r \in Requests : pc[r] = "done" => result'[r] = result[r] /\ request'[r] = request[r]
  BY <1>0, AnswersStand
<1> SUFFICES ASSUME NEW r \in Requests, result'[r] = "yes", request'[r].op = "login"
             PROVE  \E w \in PasswordWords : /\ request'[r].password = <<w>>
                                             /\ <<request'[r].name, w>> \in Wrote'
  BY DEF GenuineLogins
<1>2. CASE result[r] = "yes"
  <2>1. pc[r] = "done" BY <1>0, <1>2, NoneAssumption DEF Answered
  <2>2. result'[r] = result[r] /\ request'[r] = request[r] BY <1>1, <2>1
  <2> QED BY <1>0, <1>2, <2>2 DEF GenuineLogins
<1>3. CASE result[r] # "yes"
  <2>1. ASSUME NEW q \in Requests, AppendLine(q) PROVE request[q].op = "create" /\ q = r
    BY <1>0, <1>3, <2>1
    DEF AppendLine, At, Return, TypeInv, Places, PlacesOf, ValueTypes
  <2>2. ASSUME NEW q \in Requests, Rewrite(q) PROVE request[q].op = "delete" /\ q = r
    BY <1>0, <1>3, <2>2
    DEF Rewrite, At, Return, TypeInv, Places, PlacesOf, ValueTypes
  <2>3. ASSUME NEW q \in Requests, Read(q) PROVE q = r /\ UNCHANGED request
    <3>1. \/ UNCHANGED result \/ result' = [result EXCEPT ![q] = "yes"]
          \/ result' = [result EXCEPT ![q] = "no"]
      BY <2>3 DEF Read, Return
    <3> QED BY <1>0, <1>3, <2>3, <3>1 DEF Read, TypeInv, ValueTypes
  <2>4. Read(r) /\ UNCHANGED request
    <3>1. \A q \in Requests : AppendLine(q) \/ Rewrite(q) => UNCHANGED request
      BY DEF AppendLine, Rewrite
    <3>2. \A q \in Requests : ~AppendLine(q) /\ ~Rewrite(q) BY <2>1, <2>2, <3>1
    <3>3. ~Crash BY <1>0, <1>3 DEF Crash, TypeInv, ValueTypes
    <3> QED
      BY <1>3, <2>3, <3>2, <3>3
      DEF Next, RequestStep, Ask, SeeNoFile, MakeFile, NumberOfLines, ReadOld, Truncate
  <2>5. PICK list \in ListOfCouples(size[r]) : RightPassword(r, list)
    <3>1. \E list \in ListOfCouples(size[r]) :
            Return(r, IF RightPassword(r, list) THEN "yes" ELSE "no")
      BY <2>4 DEF Read
    <3>2. PICK list \in ListOfCouples(size[r]) :
            Return(r, IF RightPassword(r, list) THEN "yes" ELSE "no")
      BY <3>1
    <3>3. ~RightPassword(r, list) => result'[r] = "no"
      BY <1>0, <3>2 DEF Return, TypeInv, ValueTypes
    <3> QED BY <3>2, <3>3
  <2>6. /\ request[r] \in Inputs /\ size[r] \in Nat /\ length[r] \in Nat
        /\ file \in Seq(Seq(Words)) /\ Len(list) = size[r]
    BY <1>0, <2>4, CouplesTyped
    DEF Read, At, TypeInv, Places, PlacesOf, ValueTypes
  <2> DEFINE k == LastHit(Hits(r, list))
  <2>7. k \in Hits(r, list) /\ request[r].password = <<list[k][2]>>
    <3>1. Hits(r, list) \in SUBSET (1 .. length[r]) /\ Hits(r, list) # {}
      BY <2>5 DEF Hits, RightPassword
    <3> QED BY <2>5, <2>6, <3>1, LastHitInHits DEF RightPassword
  <2> HIDE DEF k
  <2>8. k \in 1 .. size[r] /\ list[k][1] = request[r].name /\ request[r].name \in Names
    BY <2>6, <2>7 DEF Hits, Inputs
  <2>9. list[k] \in Known \cup {<<Junk, Junk>>, <<"", "">>}
    BY <1>0, <2>6, <2>8, KnownWords, CouplesGenuine DEF GenuineFile
  <2>10. list[k] \in Wrote
    <3>1. list[k][1] # Junk /\ list[k][1] # "" BY <2>8, WordAssumption
    <3>2. \A a, l : l = <<a, a>> => l[1] = a BY Fields
    <3>3. list[k] # <<Junk, Junk>> /\ list[k] # <<"", "">> BY <3>1, <3>2
    <3> QED BY <2>9, <3>3 DEF Known
  <2>11. list[k][2] \in PasswordWords /\ list[k] = <<request[r].name, list[k][2]>>
    BY <2>8, <2>10 DEF Wrote
  <2> QED BY <2>4, <2>7, <2>10, <2>11
<1> QED BY <1>2, <1>3

LEMMA StepGenuine == GenuineInv /\ [Next]_vars => GenuineInv'
<1> SUFFICES ASSUME GenuineInv, [Next]_vars PROVE GenuineInv' OBVIOUS
<1>1. TypeInv' /\ Answered' BY StepTypes, AnswersStand DEF GenuineInv
<1>2. Wrote \subseteq Wrote' /\ (OneWord' => OneWord)
  BY WroteKept DEF GenuineInv
<1>3. Known \subseteq Known' BY <1>2 DEF Known
<1>4. CASE Next
  BY <1>1, <1>2, <1>3, <1>4, StepGenuineFile, StepGenuineOld, StepGenuineLogins
  DEF GenuineInv
<1>5. CASE UNCHANGED vars
  <2>1. UNCHANGED <<file, request, result, old, start>> BY <1>5 DEF vars, deleting
  <2>2. UNCHANGED Wrote BY <2>1 DEF Wrote, Created
  <2>3. UNCHANGED <<GenuineFile, GenuineOld, GenuineLogins>>
    BY <2>1, <2>2 DEF GenuineFile, GenuineOld, GenuineLogins, Known
  <2> QED BY <1>1, <1>2, <2>3 DEF GenuineInv
<1> QED BY <1>4, <1>5

\* Nobody logs in with an account that was neither in the file when the server
\* started nor created, whichever threads write the file at once, whatever a list
\* holds that fscanf did not fill, and wherever the server dies.
THEOREM NobodyInvented == Spec => []NoInventedAccount
<1>1. GenuineInv => NoInventedAccount
  <2> SUFFICES ASSUME GenuineInv, OneWord, NEW r \in Requests,
                      result[r] = "yes", request[r].op = "login"
               PROVE  \/ Promise!Account(r) \in AccountsIn(start)
                      \/ \E q \in Requests :
                           /\ request[q] = [request[r] EXCEPT !.op = "create"]
                           /\ result[q] = "yes"
    BY DEF NoInventedAccount, OneWord
  <2>1. PICK w \in PasswordWords :
          request[r].password = <<w>> /\ <<request[r].name, w>> \in Wrote
    BY DEF GenuineInv, GenuineLogins
  <2>2. request[r] \in Inputs
    BY NoneAssumption DEF GenuineInv, Answered, TypeInv, Places, PlacesOf
  <2>3. ASSUME <<request[r].name, w>> \in ToSet(start)
        PROVE  Promise!Account(r) \in AccountsIn(start)
    <3>1. <<request[r].name, w>>[1] = request[r].name /\ Tail(<<request[r].name, w>>) = <<w>>
      OBVIOUS
    <3> QED BY <2>1, <2>3, <3>1 DEF Promise!Account, AccountsIn
  <2>4. ASSUME NEW q \in Requests, Created(q, <<request[r].name, w>>)
        PROVE  request[q] = [request[r] EXCEPT !.op = "create"] /\ result[q] = "yes"
    <3>1. /\ request[q] \in Inputs /\ request[q].op = "create" /\ result[q] = "yes"
          /\ request[q].name = request[r].name /\ request[q].password[1] = w
      BY <2>4 DEF Created
    <3>2. Len(request[q].password) = 1 BY <3>1, NoneAssumption DEF OneWord
    <3>3. request[q].password = <<w>> BY <3>1, <3>2, OneWordPassword DEF Inputs
    <3> QED BY <2>1, <2>2, <3>1, <3>3 DEF Inputs
  <2> QED BY <2>1, <2>3, <2>4 DEF Wrote
<1> QED BY InitGenuine, StepGenuine, <1>1, PTL DEF Spec

-----------------------------------------------------------------------------
(* Until a deletion has found its line the file does not shrink, and every *)
(* list is as long as the count before it.                                 *)

Room ==
  /\ ~wild
  /\ file \in Seq(Seq(Words))
  /\ length \in [Requests -> Nat] /\ size \in [Requests -> Nat]
  /\ ~exists \/ missing # {} => file = <<>>
  /\ \A r \in Requests :
       /\ pc[r] = "size" => length[r] <= Len(file)
       /\ pc[r] = "read" => length[r] <= size[r]
       /\ pc[r] \notin {"truncate", "rewrite"}

RoomInv == sound => Apart /\ (Undeleted => Room)

LEMMA InitRoom == Init => RoomInv
<1> SUFFICES ASSUME Init PROVE RoomInv OBVIOUS
<1>1. Apart BY DEF Init, Apart, Writers, Running
<1>2. file \in Seq(Seq(Words)) BY FilesAreLines DEF Init
<1>3. Room BY <1>2 DEF Init, Room
<1> QED BY <1>1, <1>3 DEF RoomInv

\* A deletion that has found its line has not unlearnt it.
LEMMA UndeletedBefore ==
  ASSUME Places, [Next]_vars, Undeleted' PROVE Undeleted
<1> USE DEF Places, PlacesOf
<1>1. CASE UNCHANGED <<request, var>> BY <1>1 DEF Undeleted
<1>2. ASSUME NEW r \in Requests, Ask(r) PROVE Undeleted
  BY <1>2 DEF Undeleted, Ask, deleting
<1>3. ASSUME NEW r \in Requests, Read(r) PROVE Undeleted
  <2>1. UNCHANGED request /\ var[r] = 0 BY <1>3 DEF Read, At
  <2>2. \A q \in Requests \ {r} : var'[q] = var[q] BY <1>3 DEF Read
  <2> QED BY <2>1, <2>2 DEF Undeleted
<1>4. CASE Crash BY <1>1, <1>4 DEF Crash, deleting
<1>5. ASSUME NEW r \in Requests,
             \/ SeeNoFile(r) \/ MakeFile(r) \/ NumberOfLines(r) \/ ReadOld(r)
             \/ AppendLine(r) \/ Truncate(r) \/ Rewrite(r)
      PROVE  Undeleted
  BY <1>1, <1>5
  DEF SeeNoFile, MakeFile, NumberOfLines, ReadOld, AppendLine, Truncate, Rewrite,
      deleting
<1>6. CASE UNCHANGED vars BY <1>1, <1>6 DEF vars, deleting
<1> QED BY <1>2, <1>3, <1>4, <1>5, <1>6 DEF Next, RequestStep

LEMMA StepRoom ==
  ASSUME Places, Apart, Room, Next, Undeleted' PROVE Room'
<1> USE DEF Places, PlacesOf, Pcs, Room
<1>0. Len(file) \in Nat BY LenProperties
<1>1. CASE Crash BY <1>1 DEF Crash, Running, finding
<1>2. ASSUME NEW r \in Requests, Ask(r) PROVE Room'
  BY <1>2 DEF Ask, Goto, finding
<1>3. ASSUME NEW r \in Requests, SeeNoFile(r) PROVE Room'
  BY <1>3 DEF SeeNoFile, finding
<1>4. ASSUME NEW r \in Requests, MakeFile(r) PROVE Room'
  BY <1>4, EmptySeq DEF MakeFile, finding
<1>5. ASSUME NEW r \in Requests, NumberOfLines(r) PROVE Room'
  <2>1. /\ exists /\ UNCHANGED <<exists, file, missing, wild>>
        /\ pc[r] \in {"length", "size", "oldSize", "lines"}
    BY <1>5 DEF NumberOfLines
  <2>2. CASE pc[r] = "length"
    <3>1. /\ pc' = [pc EXCEPT ![r] = "size"]
          /\ length' = [length EXCEPT ![r] = Len(file)] /\ UNCHANGED size
      BY <1>5, <2>2 DEF NumberOfLines, Goto
    <3> QED BY <1>0, <2>1, <2>2, <3>1
  <2>3. CASE pc[r] = "size"
    <3>1. /\ pc' = [pc EXCEPT ![r] = "read"]
          /\ size' = [size EXCEPT ![r] = Len(file)] /\ UNCHANGED length
      BY <1>5, <2>3 DEF NumberOfLines, Goto
    <3> QED BY <1>0, <2>1, <2>3, <3>1
  <2>4. CASE pc[r] = "oldSize"
    <3>1. /\ pc' = [pc EXCEPT ![r] = "oldRead"]
          /\ size' = [size EXCEPT ![r] = Len(file)] /\ UNCHANGED length
      BY <1>5, <2>4 DEF NumberOfLines, Goto
    <3> QED BY <1>0, <2>1, <2>4, <3>1
  <2>5. CASE pc[r] = "lines"
    <3>1. /\ pc' = [pc EXCEPT ![r] = "length"]
          /\ UNCHANGED <<length, size>>
      BY <1>5, <2>5 DEF NumberOfLines, Goto
    <3> QED BY <1>0, <2>1, <2>5, <3>1
  <2> QED BY <2>1, <2>2, <2>3, <2>4, <2>5
<1>6. ASSUME NEW r \in Requests, ReadOld(r) PROVE Room'
  BY <1>6 DEF ReadOld, At, Goto, finding
<1>7. ASSUME NEW r \in Requests, Read(r) PROVE Room'
  <2>1. /\ pc[r] = "read" /\ ~(length[r] > size[r])
        /\ UNCHANGED <<exists, file, request, length, size, missing>>
    BY <1>7 DEF Read, At
  <2>2. ~wild' BY <1>7, <2>1 DEF Read
  <2>3. CASE pc' \in {[pc EXCEPT ![r] = s] : s \in {"done", "append", "oldSize"}}
    BY <2>1, <2>2, <2>3
  <2>4. ASSUME NEW list, request[r].op = "delete", Hits(r, list) # {},
               var' = [var EXCEPT ![r] = LastHit(Hits(r, list))]
        PROVE  FALSE
    <3>1. Hits(r, list) \in SUBSET (1 .. length[r]) BY DEF Hits
    <3>2. LastHit(Hits(r, list)) \in 1 .. length[r] BY <2>4, <3>1, LastHitInHits
    <3>3. var'[r] # 0 BY <2>4, <3>2
    <3>4. request'[r] \in Inputs BY <2>1
    <3> QED BY <2>1, <2>4, <3>3, <3>4, NoneAssumption DEF Undeleted
  <2> QED BY <1>7, <2>3, <2>4 DEF Read, Return, Goto
<1>8. ASSUME NEW r \in Requests, AppendLine(r) PROVE Room'
  <2>1. pc[r] = "append" /\ r \notin missing /\ request[r] \in Inputs
    BY <1>8 DEF AppendLine, At
  <2>2. r \in Writers BY <2>1 DEF Writers, Running
  <2>3. missing = {} BY <2>1, <2>2 DEF Apart
  <2>4. <<request[r].name>> \o request[r].password \in Seq(Words)
    <3>1. request[r].name \in Words /\ request[r].password \in Seq(Words)
      BY <2>1, WordsOfLines DEF Inputs, Words
    <3> QED BY <3>1, ConcatProperties
  <2>5. file' \in Seq(Seq(Words)) /\ Len(file') = Len(file) + 1
    BY <1>8, <2>4, AppendProperties DEF AppendLine
  <2>6. UNCHANGED <<length, size, missing, wild>> /\ exists'
        /\ pc' = [pc EXCEPT ![r] = "done"]
    BY <1>8 DEF AppendLine, Return, Goto, finding
  <2> QED BY <1>0, <2>3, <2>5, <2>6
<1>9. ASSUME NEW r \in Requests, Truncate(r) \/ Rewrite(r) PROVE Room'
  BY <1>9 DEF Truncate, Rewrite, At
<1> QED
  BY <1>1, <1>2, <1>3, <1>4, <1>5, <1>6, <1>7, <1>8, <1>9 DEF Next, RequestStep

LEMMA StepRoomInv == Places /\ RoomInv /\ [Next]_vars => RoomInv'
<1> SUFFICES ASSUME Places, RoomInv, [Next]_vars, sound'
             PROVE  Apart' /\ (Undeleted' => Room')
  BY DEF RoomInv
<1>1. CASE UNCHANGED vars
  <2>1. UNCHANGED <<exists, file, pc, request, length, size, var, missing, sound, wild>>
    BY <1>1 DEF vars, finding, deleting
  <2> QED BY <2>1 DEF RoomInv, Apart, Writers, Running, Undeleted, Room
<1>2. CASE Next
  <2>1. sound /\ Apart' BY <1>2 DEF Next
  <2> QED BY <1>2, <2>1, UndeletedBefore, StepRoom DEF RoomInv
<1> QED BY <1>1, <1>2

\* As long as creations and deletions take turns, only a thread next to a
\* deletion runs over the end of its list (user_management.c:101-102, 144-145).
THEOREM OverrunByDeletion == Spec => []OverrunNeedsDeletion
<1>1. RoomInv => OverrunNeedsDeletion
  BY DEF RoomInv, OverrunNeedsDeletion, Undeleted, Room
<1> QED BY InitPlaces, StepPlaces, InitRoom, StepRoomInv, <1>1, PTL DEF Spec

=============================================================================
