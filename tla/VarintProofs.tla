---------------------------- MODULE VarintProofs ----------------------------
(***************************************************************************)
(* Proofs about Varint, for any number of words: every word is read as it  *)
(* was written, wherever it stands, and no word that is cut short is read. *)
(***************************************************************************)
EXTENDS Varint, SequenceTheorems, WellFoundedInduction, TLAPS

-----------------------------------------------------------------------------
(* Induction, on a set.                                                    *)

LEMMA StrongInduction ==
  ASSUME NEW S, \A n \in Nat : (\A m \in Nat : m < n => m \in S) => n \in S
  PROVE  \A n \in Nat : n \in S
  <1> DEFINE Bad == Nat \ S
  <1> SUFFICES ASSUME Bad # {} PROVE FALSE
    OBVIOUS
  <1>1. PICK n \in Bad : \A m \in Bad : <<m, n>> \notin OpToRel(<, Nat)
    <2>1. Bad \subseteq Nat
      OBVIOUS
    <2> HIDE DEF Bad
    <2>2. QED
      BY <2>1, NatLessThanWellFounded, WFMin
  <1>2. \A m \in Bad : ~(m < n)
    BY <1>1 DEF OpToRel
  <1>3. QED
    BY <1>2

\* The groups of a number but the lowest.
LEMMA Shift ==
  ASSUME NEW v \in Nat
  PROVE  /\ v \div 128 \in Nat /\ v % 128 \in 0..127
         /\ v = 128 * (v \div 128) + (v % 128)
         /\ v >= 128 => v \div 128 < v
         /\ \A w \in Nat : v <= w => v \div 128 <= w \div 128
  OBVIOUS

-----------------------------------------------------------------------------
(* The recursion of Encoding defines a function.                           *)

Written(g, v) ==
  IF v < 128 THEN <<v>> ELSE <<128 + (v % 128)>> \o g[v \div 128]

WrittenUpTo(g, m) == g = [w \in 0..m |-> Written(g, w)]

LEMMA SameWritten ==
  ASSUME NEW v \in Nat, NEW g, NEW h,
         v >= 128 => g[v \div 128] = h[v \div 128]
  PROVE  Written(g, v) = Written(h, v)
  BY DEF Written

LEMMA WrittenAt ==
  ASSUME NEW m \in Nat, NEW g, WrittenUpTo(g, m), NEW w \in 0..m
  PROVE  g[w] = Written(g, w)
  <1> DEFINE h == [k \in 0..m |-> Written(g, k)]
  <1>1. g = h
    BY DEF WrittenUpTo
  <1>2. h[w] = Written(g, w)
    OBVIOUS
  <1> HIDE DEF h
  <1>3. QED
    BY <1>1, <1>2

LEMMA SolutionExists ==
  ASSUME NEW m \in Nat
  PROVE  \E g : WrittenUpTo(g, m)
  <1> DEFINE S == {n \in Nat : \E g : WrittenUpTo(g, n)}
  <1>1. ASSUME NEW n \in Nat, \A k \in Nat : k < n => k \in S PROVE n \in S
    <2>1. CASE n = 0
      <3> DEFINE g == [w \in 0..0 |-> <<0>>]
      <3>1. WrittenUpTo(g, 0)
        BY DEF WrittenUpTo, Written
      <3>2. QED
        BY <2>1, <3>1
    <2>2. CASE n # 0
      <3>1. n - 1 \in S
        BY <1>1, <2>2
      <3>2. PICK g : WrittenUpTo(g, n - 1)
        BY <3>1
      <3> DEFINE h == [w \in 0..n |-> IF w = n THEN Written(g, n) ELSE g[w]]
      <3>3. \A w \in 0..n : h[w] = Written(g, w)
        BY <2>2, <3>2 DEF WrittenUpTo
      <3>4. \A w \in 0..n : Written(g, w) = Written(h, w)
        <4> SUFFICES ASSUME NEW w \in 0..n, w >= 128
                     PROVE  g[w \div 128] = h[w \div 128]
          BY SameWritten
        <4>1. w \div 128 \in 0..n /\ w \div 128 # n
          BY Shift
        <4>2. QED
          BY <4>1
      <3>5. WrittenUpTo(h, n)
        BY <3>3, <3>4 DEF WrittenUpTo
      <3> HIDE DEF h
      <3>6. QED
        BY <3>5
    <2>3. QED
      BY <2>1, <2>2
  <1> HIDE DEF S
  <1>2. m \in S
    BY <1>1, StrongInduction
  <1>3. QED
    BY <1>2 DEF S

LEMMA SolutionsAgree ==
  ASSUME NEW m \in Nat, NEW n \in Nat, NEW g, NEW h,
         WrittenUpTo(g, m), WrittenUpTo(h, n),
         NEW v \in Nat, v <= m, v <= n
  PROVE  g[v] = h[v]
  <1> DEFINE S == {w \in Nat : w <= m /\ w <= n => g[w] = h[w]}
  <1>1. ASSUME NEW w \in Nat, \A k \in Nat : k < w => k \in S PROVE w \in S
    <2> SUFFICES ASSUME w <= m, w <= n PROVE g[w] = h[w]
      OBVIOUS
    <2>1. g[w] = Written(g, w) /\ h[w] = Written(h, w)
      BY WrittenAt
    <2>2. ASSUME w >= 128 PROVE g[w \div 128] = h[w \div 128]
      BY <1>1, <2>2, Shift
    <2>3. QED
      BY <2>1, <2>2, SameWritten
  <1> HIDE DEF S
  <1>2. v \in S
    BY <1>1, StrongInduction
  <1>3. QED
    BY <1>2 DEF S

\* A varint is the lowest group and the varint of the others.
LEMMA EncodingIsDefined ==
  ASSUME NEW v \in Nat
  PROVE  Encoding[v] = Written(Encoding, v)
  <1> DEFINE upTo(w) == CHOOSE g : WrittenUpTo(g, w)
             all     == [w \in Nat |-> upTo(w)[w]]
  <1>1. ASSUME NEW w \in Nat PROVE WrittenUpTo(upTo(w), w)
    BY SolutionExists
  <1>2. ASSUME NEW w \in Nat PROVE all[w] = Written(all, w)
    <2>1. all[w] = Written(upTo(w), w)
      <3>1. WrittenUpTo(upTo(w), w) /\ all[w] = upTo(w)[w]
        BY <1>1
      <3> HIDE DEF upTo, all
      <3>2. QED
        BY <3>1, WrittenAt
    <2>2. ASSUME w >= 128 PROVE upTo(w)[w \div 128] = all[w \div 128]
      <3> DEFINE k == w \div 128
      <3>1. k \in Nat /\ k <= w
        BY <2>2, Shift
      <3>2. all[k] = upTo(k)[k]
        BY <3>1
      <3>3. WrittenUpTo(upTo(k), k) /\ WrittenUpTo(upTo(w), w)
        BY <1>1, <3>1
      <3> HIDE DEF k, upTo, all
      <3>4. upTo(k)[k] = upTo(w)[k]
        BY <3>1, <3>3, SolutionsAgree
      <3>5. QED
        BY <3>2, <3>4 DEF k
    <2> HIDE DEF all, upTo
    <2>3. QED
      BY <2>1, <2>2, SameWritten
  <1>3. all = [w \in Nat |-> Written(all, w)]
    <2> DEFINE f == [w \in Nat |-> Written(all, w)]
    <2>1. \A w \in Nat : all[w] = f[w]
      BY <1>2
    <2>2. QED
      BY <2>1
  <1> HIDE DEF all
  <1>4. \E g : g = [w \in Nat |-> Written(g, w)]
    BY <1>3
  <1>5. Encoding = CHOOSE g : g = [w \in Nat |-> Written(g, w)]
    BY DEF Encoding, Written
  <1>6. Encoding = [w \in Nat |-> Written(Encoding, w)]
    BY <1>4, <1>5
  <1>7. QED
    BY <1>6

-----------------------------------------------------------------------------
(* What is written.                                                        *)

\* The last byte, and no other, is below 128.
IsVarint(e) ==
  /\ e \in Seq(Byte) /\ Len(e) \in Nat \ {0}
  /\ \A i \in 1..Len(e) : e[i] < 128 <=> i = Len(e)

LEMMA ByteBefore ==
  ASSUME NEW b \in Byte, NEW e \in Seq(Byte)
  PROVE  /\ <<b>> \o e \in Seq(Byte) /\ Len(<<b>> \o e) = Len(e) + 1
         /\ (<<b>> \o e)[1] = b
         /\ \A i \in 1..Len(e) : (<<b>> \o e)[i + 1] = e[i]
         /\ Len(e) \in Nat
  <1> DEFINE one == <<b>>
  <1>1. one \in Seq(Byte) /\ Len(one) = 1 /\ one[1] = b
    OBVIOUS
  <1> HIDE DEF one
  <1>2. /\ one \o e \in Seq(Byte) /\ Len(one \o e) = Len(one) + Len(e)
        /\ \A i \in 1..(Len(one) + Len(e)) :
             (one \o e)[i] = IF i <= Len(one) THEN one[i] ELSE e[i - Len(one)]
    BY <1>1, ConcatProperties
  <1>3. Len(e) \in Nat
    BY LenProperties
  <1>4. /\ one \o e \in Seq(Byte) /\ Len(one \o e) = Len(e) + 1
        /\ (one \o e)[1] = b /\ \A i \in 1..Len(e) : (one \o e)[i + 1] = e[i]
    BY <1>1, <1>2, <1>3
  <1>5. QED
    BY <1>3, <1>4 DEF one

\* A number of one group, and one of more.
LEMMA EncodingOf ==
  ASSUME NEW v \in Nat
  PROVE  /\ v < 128 => Encoding[v] = <<v>>
         /\ v >= 128 => Encoding[v] = <<128 + (v % 128)>> \o Encoding[v \div 128]
  <1> DEFINE short == <<v>>
             long  == <<128 + (v % 128)>> \o Encoding[v \div 128]
  <1>1. Encoding[v] = IF v < 128 THEN short ELSE long
    BY EncodingIsDefined DEF Written
  <1> HIDE DEF short, long
  <1>2. /\ v < 128 => Encoding[v] = short
        /\ v >= 128 => Encoding[v] = long
    BY <1>1
  <1>3. QED
    BY <1>2 DEF short, long

LEMMA EncodingIsVarint ==
  ASSUME NEW v \in Nat
  PROVE  IsVarint(Encoding[v])
  <1> DEFINE S == {w \in Nat : IsVarint(Encoding[w])}
  <1>1. ASSUME NEW w \in Nat, \A k \in Nat : k < w => k \in S PROVE w \in S
    <2>1. CASE w < 128
      <3>1. Encoding[w] = <<w>>
        BY <2>1, EncodingOf
      <3>0. w \in Byte
        BY <2>1 DEF Byte
      <3>2. IsVarint(<<w>>)
        BY <2>1, <3>0 DEF IsVarint
      <3>3. QED
        BY <3>1, <3>2
    <2>2. CASE w >= 128
      <3> DEFINE b == 128 + (w % 128)
                 e == Encoding[w \div 128]
      <3>1. w \div 128 \in S
        BY <1>1, <2>2, Shift
      <3>2. IsVarint(e)
        BY <3>1
      <3>3. b \in Byte /\ b >= 128
        BY Shift DEF Byte
      <3>4. Encoding[w] = <<b>> \o e
        BY <2>2, EncodingOf
      <3> HIDE DEF b, e
      <3>5. /\ <<b>> \o e \in Seq(Byte) /\ Len(<<b>> \o e) = Len(e) + 1
            /\ (<<b>> \o e)[1] = b
            /\ \A i \in 1..Len(e) : (<<b>> \o e)[i + 1] = e[i]
        BY <3>2, <3>3, ByteBefore DEF IsVarint
      <3> DEFINE t == <<b>> \o e
      <3> HIDE DEF t
      <3>6. ASSUME NEW i \in 1..Len(t) PROVE t[i] < 128 <=> i = Len(t)
        <4>1. CASE i = 1
          <5>1. t[1] = b /\ b >= 128 /\ Len(t) = Len(e) + 1 /\ Len(e) \in Nat \ {0}
            BY <3>2, <3>3, <3>5 DEF IsVarint, t
          <5>2. b \in Nat
            BY <3>3 DEF Byte
          <5>3. QED
            BY <4>1, <5>1, <5>2
        <4>2. CASE i # 1
          <5>1. i - 1 \in 1..Len(e) /\ t[(i - 1) + 1] = e[i - 1]
            BY <3>2, <3>5, <4>2 DEF IsVarint, t
          <5>2. t[i] = e[i - 1] /\ (i - 1 = Len(e) <=> i = Len(t))
            BY <3>2, <3>5, <5>1 DEF IsVarint, t
          <5>3. QED
            BY <3>2, <5>1, <5>2 DEF IsVarint
        <4>3. QED
          BY <4>1, <4>2
      <3>7. IsVarint(t)
        BY <3>2, <3>5, <3>6 DEF IsVarint, t
      <3>8. QED
        BY <3>4, <3>7 DEF t
    <2>3. QED
      BY <2>1, <2>2
  <1> HIDE DEF S
  <1>2. v \in S
    BY <1>1, StrongInduction
  <1>3. QED
    BY <1>2 DEF S

LEMMA EncodingLength ==
  ASSUME NEW v \in Nat
  PROVE  Len(Encoding[v]) = IF v < 128 THEN 1 ELSE 1 + Len(Encoding[v \div 128])
  <1>1. CASE v < 128
    <2>1. Encoding[v] = <<v>> /\ Len(<<v>>) = 1
      BY <1>1, EncodingOf
    <2>2. QED
      BY <1>1, <2>1
  <1>2. CASE v >= 128
    <2> DEFINE b == 128 + (v % 128)
               e == Encoding[v \div 128]
    <2>1. b \in Byte /\ e \in Seq(Byte)
      BY <1>2, Shift, EncodingIsVarint DEF Byte, IsVarint
    <2>2. Encoding[v] = <<b>> \o e
      BY <1>2, EncodingOf
    <2> HIDE DEF b, e
    <2>3. Len(Encoding[v]) = Len(e) + 1 /\ Len(e) \in Nat
      BY <2>1, <2>2, ByteBefore
    <2>4. QED
      BY <1>2, <2>3 DEF e
  <1>3. QED
    BY <1>1, <1>2

LEMMA GreaterIsLonger ==
  ASSUME NEW v \in Nat, NEW w \in Nat, v <= w
  PROVE  Len(Encoding[v]) <= Len(Encoding[w])
  <1> DEFINE S == {n \in Nat : \A m \in Nat : m <= n =>
                     Len(Encoding[m]) <= Len(Encoding[n])}
  <1>1. ASSUME NEW n \in Nat, \A k \in Nat : k < n => k \in S PROVE n \in S
    <2> SUFFICES ASSUME NEW m \in Nat, m <= n
                 PROVE  Len(Encoding[m]) <= Len(Encoding[n])
      OBVIOUS
    <2>1. /\ Len(Encoding[n]) \in Nat \ {0}
          /\ Len(Encoding[m]) = IF m < 128 THEN 1 ELSE 1 + Len(Encoding[m \div 128])
          /\ Len(Encoding[n]) = IF n < 128 THEN 1 ELSE 1 + Len(Encoding[n \div 128])
      BY EncodingLength, EncodingIsVarint DEF IsVarint
    <2>2. CASE m < 128
      BY <2>1, <2>2
    <2>3. CASE m >= 128
      <3> DEFINE k == n \div 128
                 l == m \div 128
      <3>1. k \in Nat /\ k < n /\ l \in Nat /\ l <= k
        BY <2>3, Shift
      <3>2. Len(Encoding[l]) <= Len(Encoding[k])
        BY <1>1, <3>1
      <3>3. Len(Encoding[l]) \in Nat /\ Len(Encoding[k]) \in Nat
        BY <3>1, EncodingIsVarint DEF IsVarint
      <3>4. QED
        BY <2>1, <2>3, <3>2, <3>3
    <2>4. QED
      BY <2>2, <2>3
  <1> HIDE DEF S
  <1>2. w \in S
    BY <1>1, StrongInduction
  <1>3. QED
    BY <1>2 DEF S

\* Every word fits.
LEMMA WordFits ==
  ASSUME NEW v \in 0..(Word - 1)
  PROVE  v \in Nat /\ Len(Encoding[v]) <= MaxGroups
  <1>1. Word - 1 \in Nat /\ v \in Nat /\ v <= Word - 1
    BY WordAssumption
  <1>2. Len(Encoding[v]) <= Len(Encoding[Word - 1])
    BY <1>1, GreaterIsLonger
  <1>3. QED
    BY <1>1, <1>2, WordAssumption DEF EncodeVarint

-----------------------------------------------------------------------------
(* What is read.                                                           *)

\* What the groups from j on make, given what those from j + 1 on make.
Grouped(data, last, g, j) ==
  (data[j] % 128) + (IF j = last THEN 0 ELSE 128 * g[j + 1])

\* The recursion of GroupsUpTo defines a function.
LEMMA GroupsAreDefined ==
  ASSUME NEW data, NEW last \in Nat, NEW j \in 1..last
  PROVE  GroupsUpTo(data, last)[j] =
           Grouped(data, last, GroupsUpTo(data, last), j)
  <1> DEFINE From(g, k) == g = [i \in k..last |-> Grouped(data, last, g, i)]
             S == {n \in Nat : n <= last => \E g : From(g, (last - n) + 1)}
  <1>1. ASSUME NEW n \in Nat, \A m \in Nat : m < n => m \in S PROVE n \in S
    <2> SUFFICES ASSUME n <= last PROVE \E g : From(g, (last - n) + 1)
      OBVIOUS
    <2>1. CASE n = 0
      <3> DEFINE g == [i \in (last + 1)..last |-> 0]
      <3>1. (last + 1)..last = {}
        OBVIOUS
      <3>2. From(g, last + 1)
        BY <3>1
      <3>3. (last - n) + 1 = last + 1
        BY <2>1
      <3> HIDE DEF g, From
      <3>4. QED
        BY <3>2, <3>3
    <2>2. CASE n # 0
      <3> DEFINE k == (last - n) + 1
      <3>1. /\ k \in Nat /\ k <= last /\ (last - (n - 1)) + 1 = k + 1
            /\ n - 1 \in Nat /\ n - 1 < n /\ n - 1 <= last
        BY <2>2
      <3>2. PICK g : From(g, k + 1)
        <4>1. \E g : From(g, (last - (n - 1)) + 1)
          <5> HIDE DEF From
          <5>1. QED
            BY <1>1, <3>1
        <4> HIDE DEF From, k
        <4>2. QED
          BY <3>1, <4>1
      <3> HIDE DEF k
      <3> DEFINE h == [i \in k..last |-> IF i = k THEN Grouped(data, last, g, k)
                                         ELSE g[i]]
      <3>3. \A i \in k..last : h[i] = Grouped(data, last, g, i)
        <4> DEFINE f == [i \in (k + 1)..last |-> Grouped(data, last, g, i)]
        <4>1. g = f
          BY <3>2
        <4>2. \A i \in (k + 1)..last : f[i] = Grouped(data, last, g, i)
          OBVIOUS
        <4> HIDE DEF f
        <4>3. QED
          BY <3>1, <4>1, <4>2
      <3>4. \A i \in k..last : Grouped(data, last, g, i) = Grouped(data, last, h, i)
        BY <3>1 DEF Grouped
      <3>5. From(h, k)
        BY <3>3, <3>4
      <3> HIDE DEF h, From
      <3>6. QED
        BY <3>5 DEF k
    <2>3. QED
      BY <2>1, <2>2
  <1>2. last \in S
    <2> HIDE DEF S
    <2>1. QED
      BY <1>1, StrongInduction
  <1>3. \E g : From(g, 1)
    <2>1. (last - last) + 1 = 1
      OBVIOUS
    <2> HIDE DEF From
    <2>2. QED
      BY <1>2, <2>1
  <1>4. GroupsUpTo(data, last) = CHOOSE g : From(g, 1)
    BY DEF GroupsUpTo, Grouped
  <1>5. From(GroupsUpTo(data, last), 1)
    <2> HIDE DEF From
    <2>1. QED
      BY <1>3, <1>4
  <1>6. QED
    BY <1>5

\* e stands in data from position p on.
StandsAt(e, data, p) == \A i \in 1..Len(e) : data[p + i - 1] = e[i]

\* The groups of a varint make the number it was written for.
LEMMA GroupsMakeNumber ==
  ASSUME NEW v \in Nat, NEW data, NEW p \in Nat \ {0}, NEW last \in Nat,
         last = p + Len(Encoding[v]) - 1, StandsAt(Encoding[v], data, p)
  PROVE  GroupsUpTo(data, last)[p] = v
  <1> DEFINE value == GroupsUpTo(data, last)
             Ends(w, q) == q + Len(Encoding[w]) - 1 = last
             S == {w \in Nat : \A q \in Nat \ {0} :
                     Ends(w, q) /\ StandsAt(Encoding[w], data, q) => value[q] = w}
  <1>1. ASSUME NEW w \in Nat, \A k \in Nat : k < w => k \in S PROVE w \in S
    <2> SUFFICES ASSUME NEW q \in Nat \ {0}, Ends(w, q),
                        StandsAt(Encoding[w], data, q)
                 PROVE  value[q] = w
      OBVIOUS
    <2>1. Len(Encoding[w]) \in Nat \ {0} /\ q \in 1..last
      BY EncodingIsVarint DEF IsVarint
    <2>2. value[q] = (data[q] % 128) + (IF q = last THEN 0 ELSE 128 * value[q + 1])
      BY <2>1, GroupsAreDefined DEF Grouped
    <2>3. data[q] = Encoding[w][1]
      <3>1. 1 \in 1..Len(Encoding[w]) /\ q + 1 - 1 = q
        BY <2>1
      <3>2. QED
        BY <3>1 DEF StandsAt
    <2>4. CASE w < 128
      <3>1. Encoding[w] = <<w>>
        BY <2>4, EncodingOf
      <3>2. Len(Encoding[w]) = 1 /\ data[q] = w
        BY <2>3, <3>1
      <3>3. q = last
        BY <3>2
      <3> HIDE DEF value
      <3>4. QED
        BY <2>2, <2>4, <3>2, <3>3
    <2>5. CASE w >= 128
      <3> DEFINE b == 128 + (w % 128)
                 k == w \div 128
                 e == Encoding[k]
      <3>1. k \in Nat /\ k < w /\ w = 128 * k + (w % 128) /\ w % 128 \in 0..127
        BY <2>5, Shift
      <3>2. IsVarint(e) /\ b \in Byte
        BY <3>1, EncodingIsVarint DEF Byte
      <3>3. Encoding[w] = <<b>> \o e
        BY <2>5, EncodingOf
      <3>4. /\ Len(Encoding[w]) = Len(e) + 1 /\ Encoding[w][1] = b
            /\ \A i \in 1..Len(e) : Encoding[w][i + 1] = e[i]
            /\ Len(e) \in Nat \ {0}
        <4> HIDE DEF b, e
        <4>1. QED
          BY <3>2, <3>3, ByteBefore DEF IsVarint
      <3>5. StandsAt(e, data, q + 1)
        <4> SUFFICES ASSUME NEW i \in 1..Len(e)
                     PROVE  data[(q + 1) + i - 1] = e[i]
          BY DEF StandsAt
        <4>1. /\ i + 1 \in 1..Len(Encoding[w])
              /\ q + (i + 1) - 1 = (q + 1) + i - 1
          <5> HIDE DEF e
          <5>1. QED
            BY <3>4
        <4>2. data[q + (i + 1) - 1] = Encoding[w][i + 1]
          BY <4>1 DEF StandsAt
        <4> HIDE DEF e
        <4>3. QED
          BY <3>4, <4>1, <4>2
      <3>6. value[q + 1] = k
        <4>1. (q + 1) + Len(e) - 1 = last /\ q + 1 \in Nat \ {0}
          <5> HIDE DEF e
          <5>1. QED
            BY <3>4
        <4>2. k \in S
          BY <1>1, <3>1
        <4> HIDE DEF value, k
        <4>3. QED
          BY <3>5, <4>1, <4>2
      <3>7. q # last
        BY <3>4
      <3>8. data[q] % 128 = w % 128
        <4> DEFINE r == w % 128
        <4>1. data[q] = 128 + r /\ r \in 0..127
          BY <2>3, <3>1, <3>4
        <4> HIDE DEF r
        <4>2. data[q] % 128 = r
          BY <4>1
        <4>3. QED
          BY <4>2 DEF r
      <3> HIDE DEF value, k
      <3>9. QED
        BY <2>2, <3>1, <3>6, <3>7, <3>8
    <2>6. QED
      BY <2>4, <2>5
  <1>2. v \in S
    <2> HIDE DEF S
    <2>1. QED
      BY <1>1, StrongInduction
  <1>3. QED
    BY <1>2

LEMMA LeastIsMin ==
  ASSUME NEW S, NEW n \in S, S \subseteq Nat, \A m \in S : n <= m
  PROVE  Min(S) = n
  <1> DEFINE Least(x) == x \in S /\ \A y \in S : x <= y
  <1>1. Min(S) = CHOOSE x : Least(x)
    BY DEF Min
  <1>2. Least(n) /\ \A x : Least(x) => x = n
    <2>1. ASSUME NEW x, Least(x) PROVE x = n
      <3>1. x \in Nat /\ n \in Nat /\ x <= n /\ n <= x
        BY <2>1
      <3>2. QED
        BY <3>1
    <2>2. QED
      BY <2>1
  <1> HIDE DEF Least
  <1>3. QED
    BY <1>1, <1>2

\* A varint is read at the position where it stands.
LEMMA ReadWhereItStands ==
  ASSUME NEW v \in 0..(Word - 1), NEW data \in Seq(Byte), NEW i \in Nat \ {0},
         i + Len(Encoding[v]) - 1 <= Len(data), StandsAt(Encoding[v], data, i)
  PROVE  DecodeVarint(data, i) = [n |-> Len(EncodeVarint(v)), word |-> v]
  <1> DEFINE e   == Encoding[v]
             end == i + Len(e) - 1
             last == {j \in i..(i + MaxGroups - 1) : j <= Len(data) /\ data[j] < 128}
  <1>1. v \in Nat /\ Len(e) \in Nat \ {0} /\ Len(e) <= MaxGroups /\ IsVarint(e)
    BY WordFits, EncodingIsVarint DEF IsVarint
  <1>2. MaxGroups \in Nat /\ Len(data) \in Nat /\ Word \in Nat \ {0}
    <2>1. Word - 1 \in Nat /\ Word \in Nat \ {0}
      BY WordAssumption
    <2>2. Len(Encoding[Word - 1]) \in Nat
      BY <2>1, EncodingIsVarint DEF IsVarint
    <2>3. QED
      BY <2>1, <2>2, WordAssumption, LenProperties DEF EncodeVarint
  <1>3. ASSUME NEW j \in i..end PROVE data[j] < 128 <=> j = end
    <2> DEFINE k == j - i + 1
    <2>1. k \in 1..Len(e) /\ i + k - 1 = j /\ (k = Len(e) <=> j = end)
      <3> HIDE DEF e
      <3>1. QED
        BY <1>1
    <2> HIDE DEF k, end
    <2>2. data[i + k - 1] = e[k]
      BY <2>1 DEF StandsAt
    <2>3. QED
      BY <1>1, <2>1, <2>2 DEF IsVarint
  <1>4. end \in Nat /\ end \in last /\ last \subseteq Nat /\ \A j \in last : end <= j
    <2>1. end <= Len(data)
      OBVIOUS
    <2> HIDE DEF e
    <2>2. end \in Nat /\ end \in i..(i + MaxGroups - 1) /\ end \in i..end
      BY <1>1, <1>2
    <2>3. end \in last
      <3>1. data[end] < 128
        <4> HIDE DEF end
        <4>1. QED
          BY <1>3, <2>2
      <3> HIDE DEF end
      <3>2. QED
        BY <2>1, <2>2, <3>1
    <2>4. last \subseteq Nat
      BY <1>2
    <2>5. ASSUME NEW j \in last, j < end PROVE FALSE
      <3>1. j \in i..end /\ data[j] < 128
        BY <1>2, <2>2, <2>5
      <3>2. QED
        BY <1>3, <2>5, <3>1
    <2>6. \A j \in last : end <= j
      BY <2>2, <2>4, <2>5
    <2>7. QED
      BY <2>2, <2>3, <2>4, <2>6
  <1>5. Min(last) = end
    <2> HIDE DEF last, end
    <2>1. QED
      BY <1>4, LeastIsMin
  <1>6. GroupsValue(data, i, end) = v
    <2>1. GroupsUpTo(data, end)[i] = v
      BY <1>1, <1>4, GroupsMakeNumber
    <2>2. v % Word = v
      BY <1>2
    <2>3. QED
      BY <2>1, <2>2 DEF GroupsValue
  <1>7. end - i + 1 = Len(EncodeVarint(v))
    BY <1>1 DEF EncodeVarint
  <1>8. last # {}
    BY <1>4
  <1>9. DecodeVarint(data, i) = IF last = {} THEN [n |-> 0, word |-> 0]
          ELSE [n |-> Min(last) - i + 1, word |-> GroupsValue(data, i, Min(last))]
    BY DEF DecodeVarint
  <1> HIDE DEF last, end
  <1>10. QED
    BY <1>5, <1>6, <1>7, <1>8, <1>9

\* Whatever stands before and after it, decodeVarint reads the word that
\* encodeVarint has written, and as many bytes as it has written.
THEOREM WordIsRead ==
  ASSUME NEW v \in 0..(Word - 1),
         NEW before \in Seq(Byte), NEW after \in Seq(Byte)
  PROVE  DecodeVarint(before \o EncodeVarint(v) \o after, Len(before) + 1) =
           [n |-> Len(EncodeVarint(v)), word |-> v]
  <1> DEFINE e    == Encoding[v]
             head == before \o e
             data == head \o after
  <1>1. v \in Nat /\ e \in Seq(Byte)
    BY WordFits, EncodingIsVarint DEF IsVarint
  <1> HIDE DEF e
  <1>2. /\ head \in Seq(Byte) /\ Len(head) = Len(before) + Len(e)
        /\ \A k \in 1..(Len(before) + Len(e)) :
             head[k] = IF k <= Len(before) THEN before[k] ELSE e[k - Len(before)]
    BY <1>1, ConcatProperties
  <1>3. Len(before) \in Nat /\ Len(e) \in Nat /\ Len(after) \in Nat
    BY <1>1, LenProperties
  <1> HIDE DEF head
  <1>4. /\ data \in Seq(Byte) /\ Len(data) = Len(head) + Len(after)
        /\ \A k \in 1..(Len(head) + Len(after)) :
             data[k] = IF k <= Len(head) THEN head[k] ELSE after[k - Len(head)]
    <2>1. head \in Seq(Byte) /\ after \in Seq(Byte)
      BY <1>2
    <2>2. QED
      BY <2>1, ConcatProperties
  <1> HIDE DEF data
  <1>5. ASSUME NEW k \in 1..Len(e) PROVE data[(Len(before) + 1) + k - 1] = e[k]
    <2> DEFINE j == (Len(before) + 1) + k - 1
    <2>1. /\ j \in 1..(Len(head) + Len(after)) /\ j <= Len(head)
          /\ j \in 1..(Len(before) + Len(e)) /\ ~(j <= Len(before))
          /\ j - Len(before) = k
      BY <1>2, <1>3
    <2> HIDE DEF j
    <2>2. data[j] = head[j] /\ head[j] = e[j - Len(before)]
      BY <1>2, <1>4, <2>1
    <2>3. QED
      BY <2>1, <2>2 DEF j
  <1>6. StandsAt(e, data, Len(before) + 1)
    BY <1>5 DEF StandsAt
  <1>7. /\ Len(before) + 1 \in Nat \ {0}
        /\ (Len(before) + 1) + Len(e) - 1 <= Len(data)
    BY <1>2, <1>3, <1>4
  <1>8. DecodeVarint(data, Len(before) + 1) = [n |-> Len(EncodeVarint(v)), word |-> v]
    BY <1>4, <1>6, <1>7, ReadWhereItStands DEF e
  <1>9. QED
    BY <1>8 DEF data, head, e, EncodeVarint

\* Of a varint that is cut short decodeVarint reads nothing.
THEOREM CutWordIsNotRead ==
  ASSUME NEW v \in 0..(Word - 1), NEW before \in Seq(Byte),
         NEW k \in 0..(Len(EncodeVarint(v)) - 1)
  PROVE  DecodeVarint(before \o SubSeq(EncodeVarint(v), 1, k),
                      Len(before) + 1).n = 0
  <1> DEFINE e    == Encoding[v]
             part == SubSeq(e, 1, k)
             data == before \o part
             i    == Len(before) + 1
             last == {j \in i..(i + MaxGroups - 1) : j <= Len(data) /\ data[j] < 128}
  <1>1. v \in Nat /\ IsVarint(e) /\ k \in 0..(Len(e) - 1)
    BY WordFits, EncodingIsVarint DEF EncodeVarint
  <1> HIDE DEF e
  <1>2. /\ e \in Seq(Byte) /\ Len(e) \in Nat /\ k \in Nat /\ k < Len(e)
        /\ Len(before) \in Nat
    BY <1>1, LenProperties DEF IsVarint
  <1>3. /\ part \in Seq(Byte) /\ Len(part) = k
        /\ \A j \in 1..k : part[j] = e[j]
    <2>1. \A j \in 1..k : e[j] \in Byte
      BY <1>2, ElementOfSeq
    <2>2. /\ part \in Seq(Byte)
          /\ Len(part) = IF 1 <= k THEN k - 1 + 1 ELSE 0
          /\ \A j \in 1..(k - 1 + 1) : part[j] = e[1 + j - 1]
      BY <1>2, <2>1, SubSeqProperties
    <2>3. QED
      BY <1>2, <2>2
  <1> HIDE DEF part
  <1>4. /\ Len(data) = Len(before) + k
        /\ \A j \in 1..(Len(before) + k) :
             data[j] = IF j <= Len(before) THEN before[j] ELSE part[j - Len(before)]
    BY <1>3, ConcatProperties
  <1> HIDE DEF data
  <1>5. ASSUME NEW j \in last PROVE FALSE
    <2> DEFINE n == j - Len(before)
    <2>1. /\ j \in 1..(Len(before) + k) /\ ~(j <= Len(before))
          /\ n \in 1..k /\ n \in 1..Len(e) /\ n # Len(e)
      BY <1>2, <1>4, <1>5
    <2> HIDE DEF n
    <2>2. data[j] = e[n]
      BY <1>3, <1>4, <2>1 DEF n
    <2>3. data[j] < 128
      BY <1>5
    <2>4. QED
      BY <1>1, <2>1, <2>2, <2>3 DEF IsVarint
  <1>6. last = {}
    BY <1>5
  <1>7. DecodeVarint(data, i) = [n |-> 0, word |-> 0]
    <2> HIDE DEF i
    <2>1. QED
      BY <1>6 DEF DecodeVarint
  <1>8. QED
    BY <1>7 DEF data, part, e, EncodeVarint
=============================================================================
