---------------------------- MODULE SessionProofs ---------------------------
(***************************************************************************)
(* Machine-checked proofs about the session, for every set of              *)
(* configurations.  First the list algorithms of SessionWindow, then       *)
(* SessionObject: types, no event forgotten, a window that is fit for a    *)
(* model request.  Then the turns of SessionTurns over the three services: *)
(* what each back end and each turn's copy hold, whatever the turns do.    *)
(* Last, that the services implement SessionLog.                           *)
(*                                                                         *)
(* Induction over the length of a list is by least counterexample: WFMin   *)
(* of WellFoundedInduction speaks of sets, not of an operator parameter.   *)
(***************************************************************************)
EXTENDS SessionObject, SessionServices, SequenceTheorems, FiniteSetTheorems,
        WellFoundedInduction, TLAPS

-----------------------------------------------------------------------------
(* Least elements and induction *)

Below == {ss \in Nat \X Nat : ss[1] < ss[2]}

\* A set of numbers that is not empty has a least element.
LEMMA Least ==
  ASSUME NEW S, S \subseteq Nat, S # {}
  PROVE \E m \in S : \A k \in S : m <= k
<1>1. IsWellFoundedOn(Below, Nat)
  BY NatLessThanWellFounded DEF OpToRel, Below
<1>2. PICK m \in S : \A k \in S : <<k, m>> \notin Below
  BY <1>1, WFMin
<1>3. \A k \in S : m <= k
  <2>1. ASSUME NEW k \in S, k < m PROVE FALSE
    <3>1. <<k, m>> \in Nat \X Nat /\ <<k, m>>[1] < <<k, m>>[2]
      BY <2>1
    <3> QED BY <1>2, <3>1 DEF Below
  <2> QED BY <2>1
<1> QED BY <1>3

\* What holds of 0 and is inherited by the next number holds of all of them.
LEMMA Induction ==
  ASSUME NEW S, 0 \in S, \A n \in Nat : n \in S => n + 1 \in S 
  PROVE \A n \in Nat : n \in S
<1> DEFINE T == Nat \ S
<1> SUFFICES ASSUME T # {} PROVE FALSE
  OBVIOUS
<1>1. PICK m \in T : \A k \in T : m <= k
  <2> HIDE DEF T
  <2> T \subseteq Nat BY DEF T
  <2> QED BY Least
<1>2. m - 1 \in T /\ m # 0
  BY <1>1
<1> QED BY <1>1, <1>2

\* Min and Max, the first and the last of a set of positions, are what they say.
LEMMA MinMax ==
  ASSUME NEW n \in Nat, NEW S, S \subseteq 0 .. n, S # {}
  PROVE /\ Min(S) \in S /\ \A k \in S : Min(S) <= k
        /\ Max(S) \in S /\ \A k \in S : Max(S) >= k
<1>1. PICK m \in S : \A k \in S : m <= k
  <2> S \subseteq Nat OBVIOUS
  <2> QED BY Least
<1> DEFINE T == {k \in 0 .. n : n - k \in S}
<1>2. PICK l \in T : \A k \in T : l <= k
  <2>1. PICK k \in S : TRUE OBVIOUS
  <2>2. n - k \in T
    <3>0. k \in 0 .. n
      OBVIOUS
    <3>1. n - (n - k) = k /\ n - k \in 0 .. n
      BY <3>0
    <3> QED BY <3>1
  <2>3. T \subseteq Nat
    <3>1. T \subseteq 0 .. n /\ 0 .. n \subseteq Nat OBVIOUS
    <3> HIDE DEF T
    <3> QED BY <3>1
  <2>4. T # {}
    <3> HIDE DEF T
    <3> QED BY <2>2
  <2> HIDE DEF T
  <2> QED BY <2>3, <2>4, Least
<1>3. n - l \in S /\ \A k \in S : n - l >= k
  <2>1. ASSUME NEW k \in S PROVE n - k \in T
    <3>0. k \in 0 .. n
      OBVIOUS
    <3>1. n - (n - k) = k /\ n - k \in 0 .. n
      BY <3>0
    <3> QED BY <3>1
  <2> QED BY <1>2, <2>1
<1>4. Min(S) \in S /\ \A k \in S : Min(S) <= k
  BY <1>1 DEF Min
<1>5. Max(S) \in S /\ \A k \in S : Max(S) >= k
  BY <1>3 DEF Max
<1> QED BY <1>4, <1>5

-----------------------------------------------------------------------------
(* Choosing from a list *)

\* g is the first n steps of the recursion of Among.
Scan(s, S, g, n) == g = [i \in 0 .. n |-> 
          IF i = 0 THEN <<>>
          ELSE IF s[i] \in S THEN Append(g[i - 1], s[i]) ELSE g[i - 1]]

LEMMA ScanExists == ASSUME NEW s, NEW S PROVE \A n \in Nat : \E g : Scan(s, S, g, n)
<1> DEFINE Q == {n \in Nat : \E g : Scan(s, S, g, n)}
<1>1. 0 \in Q
  <2>1. Scan(s, S, [i \in 0 .. 0 |-> <<>>], 0)
    BY DEF Scan
  <2> QED BY <2>1
<1>2. ASSUME NEW n \in Nat, n \in Q PROVE n + 1 \in Q
  <2>1. PICK g : Scan(s, S, g, n)
    BY <1>2
  <2> DEFINE h == [i \in 0 .. n + 1 |-> IF i <= n THEN g[i]
                     ELSE IF s[n + 1] \in S THEN Append(g[n], s[n + 1]) ELSE g[n]]
  <2>3. \A i \in 0 .. n : g[i] = IF i = 0 THEN <<>>
          ELSE IF s[i] \in S THEN Append(g[i - 1], s[i]) ELSE g[i - 1]
    BY <2>1 DEF Scan
  <2>4. \A i \in 0 .. n + 1 : h[i] = IF i = 0 THEN <<>>
          ELSE IF s[i] \in S THEN Append(h[i - 1], s[i]) ELSE h[i - 1]
    BY <2>3
  <2>2. Scan(s, S, h, n + 1)
    BY <2>4 DEF Scan
  <2> QED BY <2>2
<1> HIDE DEF Q
<1>3. \A n \in Nat : n \in Q
  BY <1>1, <1>2, Induction
<1> QED BY <1>3 DEF Q

\* So Among is the last step of such a recursion.
LEMMA AmongIsScan ==
  ASSUME NEW E, NEW s \in Seq(E), NEW S
  PROVE \E g : Scan(s, S, g, Len(s)) /\ Among(s, S) = g[Len(s)]
<1> DEFINE g == CHOOSE g : Scan(s, S, g, Len(s))
<1>1. Among(s, S) = g[Len(s)]
  BY DEF Among, Scan
<1>2. Len(s) \in Nat
  OBVIOUS
<1>3. Scan(s, S, g, Len(s))
  BY <1>2, ScanExists
<1> QED BY <1>1, <1>3

\* f says where in s the elements of r come from, in order.
Picks(f, r, s) ==
   /\ f \in [1 .. Len(r) -> 1 .. Len(s)]
   /\ \A i \in 1 .. Len(r) : r[i] = s[f[i]]
   /\ \A i, j \in 1 .. Len(r) : i < j => f[i] < f[j]

\* Among picks exactly the positions whose element is in S.
LEMMA AmongPicks ==
  ASSUME NEW E, NEW s \in Seq(E), NEW S
  PROVE /\ Among(s, S) \in Seq(E)
        /\ \E f : Picks(f, Among(s, S), s) /\ \A j \in 1 .. Len(s) : s[j] \in S <=> \E i \in 1 .. Len(Among(s, S)) : f[i] = j
<1>1. PICK g : Scan(s, S, g, Len(s)) /\ Among(s, S) = g[Len(s)]
  BY AmongIsScan
<1>2. \A i \in 0 .. Len(s) : g[i] = IF i = 0 THEN <<>>
          ELSE IF s[i] \in S THEN Append(g[i - 1], s[i]) ELSE g[i - 1]
  BY <1>1 DEF Scan
<1> DEFINE Fits(f, n) == 
   /\ g[n] \in Seq(E)
   /\ f \in [1 .. Len(g[n]) -> 1 .. n]
   /\ \A i \in 1 .. Len(g[n]) : g[n][i] = s[f[i]]
   /\ \A i, j \in 1 .. Len(g[n]) : i < j => f[i] < f[j]
   /\ \A j \in 1 .. n : s[j] \in S <=> \E i \in 1 .. Len(g[n]) : f[i] = j
<1> DEFINE Q == {n \in Nat : n <= Len(s) => \E f : Fits(f, n)}
<1>3. 0 \in Q
  <2>1. g[0] = <<>>
    BY <1>2
  <2>2. Fits(<<>>, 0)
    BY <2>1
  <2> QED BY <2>2
<1>4. ASSUME NEW n \in Nat, n \in Q, n + 1 <= Len(s) PROVE \E f : Fits(f, n + 1)
  <2>1. PICK f : Fits(f, n)
    BY <1>4
  <2>0. /\ n \in 0 .. Len(s) /\ n + 1 \in 0 .. Len(s) /\ n + 1 \in 1 .. Len(s)
        /\ Len(g[n]) \in Nat /\ s[n + 1] \in E
    BY <1>4, <2>1
  <2>2. CASE s[n + 1] \in S
    <3> DEFINE h == [i \in 1 .. Len(g[n]) + 1 |-> IF i <= Len(g[n]) THEN f[i] ELSE n + 1]
    <3>1. g[n + 1] = Append(g[n], s[n + 1])
      <4>1. g[n + 1] = IF n + 1 = 0 THEN <<>>
          ELSE IF s[n + 1] \in S THEN Append(g[n + 1 - 1], s[n + 1]) ELSE g[n + 1 - 1]
        BY <1>2, <2>0
      <4>2. n + 1 - 1 = n /\ n + 1 # 0
        BY <2>0
      <4> QED BY <4>1, <4>2, <2>2
    <3>3. g[n + 1] \in Seq(E) /\ Len(g[n+1]) = Len(g[n]) + 1
      BY <3>1, <2>0, <2>1
    <3>4. \A i \in 1 .. Len(g[n + 1]) : g[n + 1][i] = IF i <= Len(g[n]) THEN g[n][i] ELSE s[n + 1]
      BY <3>1, <2>0, <2>1
    <3>5. h \in [1 .. Len(g[n + 1]) -> 1 .. n + 1]
      <4>1. \A i \in 1 .. Len(g[n]) : f[i] \in 1 .. n
        BY <2>1
      <4>2. \A i \in 1 .. Len(g[n]) + 1 : h[i] \in 1 .. n + 1
        BY <2>0, <4>1
      <4> QED BY <4>2, <3>3
    <3>6. \A i \in 1 .. Len(g[n+1]) : g[n+1][i] = s[h[i]]
      BY <3>3, <3>4, <2>1, <2>0
    <3>7. \A i, j \in 1 .. Len(g[n+1]) : i < j => h[i] < h[j]
      <4>1. \A i \in 1 .. Len(g[n]) : f[i] \in 1 .. n
        BY <2>1
      <4> QED BY <3>3, <2>1, <2>0, <4>1
    <3>8. ASSUME NEW j \in 1 .. n + 1 PROVE s[j] \in S <=> \E i \in 1 .. Len(g[n+1]) : h[i] = j
      <4>1. CASE j = n + 1
        <5>1. h[Len(g[n]) + 1] = j BY <2>0, <4>1
        <5>2. Len(g[n]) + 1 \in 1 .. Len(g[n+1]) BY <2>0, <3>3
        <5> QED BY <2>2, <4>1, <5>1, <5>2
      <4>2. CASE j # n + 1
        <5>1. j \in 1 .. n
          BY <2>0, <4>2
        <5>2. s[j] \in S <=> \E i \in 1 .. Len(g[n]) : f[i] = j
          BY <5>1, <2>1
        <5>3. \A i \in 1 .. Len(g[n+1]) : h[i] = j => i \in 1 .. Len(g[n]) /\ h[i] = f[i]
          BY <2>0, <3>3, <4>2
        <5>4. \A i \in 1 .. Len(g[n]) : h[i] = f[i] /\ i \in 1 .. Len(g[n+1])
          BY <2>0, <3>3
        <5> HIDE DEF h
        <5> QED BY <5>2, <5>3, <5>4
      <4> QED BY <4>1, <4>2
    <3> HIDE DEF h
    <3> QED BY <3>3, <3>5, <3>6, <3>7, <3>8
  <2>3. CASE s[n + 1] \notin S
    <3>1. g[n + 1] = g[n]
      <4>1. g[n + 1] = IF n + 1 = 0 THEN <<>>
          ELSE IF s[n + 1] \in S THEN Append(g[n + 1 - 1], s[n + 1]) ELSE g[n + 1 - 1]
        BY <1>2, <2>0
      <4>2. n + 1 - 1 = n /\ n + 1 # 0
        BY <2>0
      <4> QED BY <4>1, <4>2, <2>3
    <3>2. \A i \in 1 .. Len(g[n]) : f[i] \in 1 .. n
      BY <2>1
    <3>3. f \in [1 .. Len(g[n]) -> 1 .. n + 1]
      BY <3>2, <2>0, <2>1
    <3>4. ASSUME NEW j \in 1 .. n + 1 PROVE s[j] \in S <=> \E i \in 1 .. Len(g[n]) : f[i] = j
      BY <2>0, <2>1, <2>3, <3>2
    <3>5. Fits(f, n + 1)
      BY <2>1, <3>1, <3>3, <3>4
    <3> QED BY <3>5
  <2> QED BY <2>2, <2>3
<1>5. ASSUME NEW n \in Nat, n \in Q PROVE n + 1 \in Q
  <2>1. n + 1 <= Len(s) => \E f : Fits(f, n + 1)
    BY <1>4, <1>5
  <2>2. n + 1 \in Nat OBVIOUS
  <2> HIDE DEF Fits
  <2> QED BY <2>1, <2>2
<1>6. \A n \in Nat : n \in Q
  <2> HIDE DEF Q
  <2> QED BY <1>3, <1>5, Induction
<1>7. PICK f : Fits(f, Len(s))
  <2>1. Len(s) \in Nat /\ Len(s) <= Len(s)
    OBVIOUS
  <2> HIDE DEF Fits
  <2> QED BY <1>6, <2>1
<1>8. Among(s, S) = g[Len(s)]
  BY <1>1
<1> QED BY <1>8, <1>7 DEF Picks

-----------------------------------------------------------------------------
(* Parts of a list *)

Sublist(r, s) == \E f : Picks(f, r, s)

\* A sublist of a sublist.
LEMMA SublistTrans ==
  ASSUME NEW E, NEW r \in Seq(E), NEW s \in Seq(E), NEW t \in Seq(E),
         Sublist(r, s), Sublist(s, t)
  PROVE Sublist(r, t)
<1>1. PICK f : Picks(f, r, s)
  BY DEF Sublist
<1>2. PICK g : Picks(g, s, t)
  BY DEF Sublist
<1> DEFINE h == [i \in 1 .. Len(r) |-> g[f[i]]]
<1>3. Picks(h, r, t)
  <2>1. \A i \in 1 .. Len(r) : f[i] \in 1 .. Len(s) /\ h[i] = g[f[i]]
    BY <1>1 DEF Picks
  <2>2. h \in [1 .. Len(r) -> 1 .. Len(t)]
    BY <2>1, <1>2 DEF Picks
  <2> QED BY <1>1, <1>2, <2>1, <2>2 DEF Picks
<1> QED BY <1>3 DEF Sublist

\* The elements of a sublist are elements of the list.
LEMMA SublistElements ==
  ASSUME NEW E, NEW r \in Seq(E), NEW s \in Seq(E), Sublist(r, s)
  PROVE ToSet(r) \subseteq ToSet(s)
<1>1. PICK f : Picks(f, r, s)
  BY DEF Sublist
<1>2. \A i \in DOMAIN r : f[i] \in DOMAIN s /\ r[i] = s[f[i]]
  BY <1>1 DEF Picks
<1>3. ASSUME NEW e \in ToSet(r) PROVE e \in ToSet(s)
  <2>1. PICK i \in DOMAIN r : e = r[i]
    BY DEF ToSet
  <2>2. f[i] \in DOMAIN s /\ e = s[f[i]]
    BY <1>2, <2>1
  <2> QED BY <2>2 DEF ToSet
<1> QED BY <1>3

\* Among: a sublist with the elements wanted.
LEMMA AmongFacts ==
  ASSUME NEW E, NEW s \in Seq(E), NEW S
  PROVE /\ Among(s, S) \in Seq(E)
        /\ Sublist(Among(s, S), s)
        /\ ToSet(Among(s, S)) = ToSet(s) \cap S
<1> DEFINE r == Among(s, S)
<1>1. PICK f : Picks(f, r, s) /\ \A j \in 1 .. Len(s) : s[j] \in S <=> \E i \in 1 .. Len(r) : f[i] = j
  BY AmongPicks
<1>2. r \in Seq(E)
  BY AmongPicks
<1>3. Sublist(r, s)
  BY <1>1 DEF Sublist
<1> HIDE DEF r
<1>4. \A i \in 1 .. Len(r) : f[i] \in 1 .. Len(s) /\ r[i] = s[f[i]]
  BY <1>1 DEF Picks
<1>5. DOMAIN r = 1 .. Len(r) /\ DOMAIN s = 1 .. Len(s)
  BY <1>2
<1>6. ToSet(r) \subseteq ToSet(s) \cap S
  BY <1>1, <1>4, <1>5 DEF ToSet
<1>7. ToSet(s) \cap S \subseteq ToSet(r)
  BY <1>1, <1>4, <1>5 DEF ToSet
<1> QED BY <1>2, <1>3, <1>6, <1>7 DEF r

\* Among, when every element is wanted.
LEMMA AmongAll ==
  ASSUME NEW E, NEW s \in Seq(E), NEW S, ToSet(s) \subseteq S
  PROVE Among(s, S) = s
<1>1. PICK g : Scan(s, S, g, Len(s)) /\ Among(s, S) = g[Len(s)]
  BY AmongIsScan
<1>8. \A i \in 0 .. Len(s) : g[i] = IF i = 0 THEN <<>>
          ELSE IF s[i] \in S THEN Append(g[i - 1], s[i]) ELSE g[i - 1]
  BY <1>1 DEF Scan
<1> DEFINE Fits(n) == g[n] \in Seq(E) /\ Len(g[n]) = n /\ \A i \in 1 .. n : g[n][i] = s[i]
<1> DEFINE Q == {n \in Nat : n <= Len(s) => Fits(n)}
<1>2. 0 \in Q
  <2>1. Len(s) \in Nat /\ 0 \in 0 .. Len(s)
    OBVIOUS
  <2>2. g[0] = <<>>
    BY <1>1, <2>1 DEF Scan
  <2>3. Fits(0)
    BY <2>2
  <2> HIDE DEF Fits
  <2> QED BY <2>3
<1>3. ASSUME NEW n \in Nat, n \in Q, n + 1 <= Len(s) PROVE Fits(n + 1)
  <2>1. Fits(n) /\ n + 1 \in 0 .. Len(s) /\ n + 1 \in 1 .. Len(s) /\ s[n + 1] \in E
    BY <1>3
  <2>2. s[n + 1] \in S
    BY <2>1 DEF ToSet
  <2>3. g[n + 1] = Append(g[n], s[n + 1])
    <3>1. g[n + 1] = IF n + 1 = 0 THEN <<>>
        ELSE IF s[n + 1] \in S THEN Append(g[n + 1 - 1], s[n + 1]) ELSE g[n + 1 - 1]
      BY <1>8, <2>1
    <3>2. n + 1 - 1 = n /\ n + 1 # 0
      OBVIOUS
    <3> QED BY <3>1, <3>2, <2>2
  <2> QED BY <2>1, <2>3
<1>4. ASSUME NEW n \in Nat, n \in Q PROVE n + 1 \in Q
  <2>1. n + 1 <= Len(s) => Fits(n + 1)
    BY <1>3, <1>4
  <2>2. n + 1 \in Nat
    OBVIOUS
  <2> HIDE DEF Fits
  <2> QED BY <2>1, <2>2
<1>5. \A n \in Nat : n \in Q
  <2> HIDE DEF Q
  <2> QED BY <1>2, <1>4, Induction
<1>6. Fits(Len(s))
  <2>1. Len(s) \in Nat /\ Len(s) <= Len(s)
    OBVIOUS
  <2> HIDE DEF Fits
  <2> QED BY <1>5, <2>1
<1>7. g[Len(s)] = s
  BY <1>6, SeqEqual
<1> QED BY <1>1, <1>7

\* The end of a list from position k, and its beginning before k.
LEMMA Halves ==
  ASSUME NEW E, NEW s \in Seq(E), NEW k \in 1 .. Len(s) + 1
  PROVE /\ From(s, k) \in Seq(E) /\ Len(From(s, k)) = Len(s) - k + 1
        /\ \A i \in 1 .. Len(s) - k + 1 : From(s, k)[i] = s[k + i - 1]
        /\ Upto(s, k - 1) \in Seq(E) /\ Len(Upto(s, k - 1)) = k - 1
        /\ \A i \in 1 .. k - 1 : Upto(s, k - 1)[i] = s[i]
        /\ Upto(s, k - 1) \o From(s, k) = s
        /\ Sublist(From(s, k), s) /\ Sublist(Upto(s, k - 1), s)
<1>0. Len(s) \in Nat /\ k \in Int /\ k - 1 \in Int /\ \A i \in 1 .. Len(s) : s[i] \in E
  OBVIOUS
<1>1. From(s, k) \in Seq(E) /\ Len(From(s, k)) = Len(s) - k + 1
        /\ \A i \in 1 .. Len(s) - k + 1 : From(s, k)[i] = s[k + i - 1]
  <2>1. \A i \in k .. Len(s) : s[i] \in E
    BY <1>0
  <2> QED BY <1>0, <2>1, SubSeqProperties DEF From
<1>2. Upto(s, k - 1) \in Seq(E) /\ Len(Upto(s, k - 1)) = k - 1
        /\ \A i \in 1 .. k - 1 : Upto(s, k - 1)[i] = s[i]
  <2>1. \A i \in 1 .. k - 1 : s[i] \in E
    BY <1>0
  <2>2. /\ SubSeq(s, 1, k - 1) \in Seq(E)
        /\ Len(SubSeq(s, 1, k - 1)) = IF 1 <= k - 1 THEN k - 1 - 1 + 1 ELSE 0
        /\ \A i \in 1 .. k - 1 - 1 + 1 : SubSeq(s, 1, k - 1)[i] = s[1 + i - 1]
    BY <1>0, <2>1, SubSeqProperties
  <2>3. \A i \in 1 .. k - 1 : i \in 1 .. k - 1 - 1 + 1 /\ 1 + i - 1 = i
    BY <1>0
  <2> QED BY <1>0, <2>2, <2>3 DEF Upto
<1>3. Upto(s, k - 1) \o From(s, k) = s
  <2>1. k - 1 \in 1 - 1 .. Len(s) /\ Len(s) \in k - 1 .. Len(s) /\ k - 1 + 1 = k /\ 1 \in 1 .. Len(s) + 1
    BY <1>0
  <2>2. SubSeq(s, 1, k - 1) \o SubSeq(s, k - 1 + 1, Len(s)) = SubSeq(s, 1, Len(s))
    BY <2>1, ConcatAdjacentSubSeq
  <2> QED BY <2>1, <2>2, SubSeqFull DEF From, Upto
<1>4. Picks([i \in 1 .. Len(From(s, k)) |-> k + i - 1], From(s, k), s)
  BY <1>0, <1>1 DEF Picks
<1>5. Picks([i \in 1 .. Len(Upto(s, k - 1)) |-> i], Upto(s, k - 1), s)
  BY <1>0, <1>2 DEF Picks
<1> QED BY <1>1, <1>2, <1>3, <1>4, <1>5 DEF Sublist

\* A list is a sublist of itself, and so is one of its elements.
LEMMA SublistSelf ==
  ASSUME NEW E, NEW s \in Seq(E)
  PROVE Sublist(s, s) /\ \A k \in 1 .. Len(s) : Sublist(<<s[k]>>, s)
<1>1. Picks([i \in 1 .. Len(s) |-> i], s, s)
  BY DEF Picks
<1>2. ASSUME NEW k \in 1 .. Len(s) PROVE Picks([i \in 1 .. Len(<<s[k]>>) |-> k], <<s[k]>>, s)
  <2>1. Len(<<s[k]>>) = 1 /\ <<s[k]>>[1] = s[k]
    OBVIOUS
  <2>2. 1 .. 1 = {1}
    OBVIOUS
  <2> QED BY <2>1, <2>2 DEF Picks
<1> QED BY <1>1, <1>2 DEF Sublist

\* The end of an end of a list.
LEMMA FromFrom ==
  ASSUME NEW E, NEW s \in Seq(E), NEW m \in 1 .. Len(s), NEW j \in 1 .. Len(s) - m + 1
  PROVE From(From(s, m), j) = From(s, m + j - 1)
<1> DEFINE r == From(s, m)
<1>0. Len(s) \in Nat /\ m \in 1 .. Len(s) + 1
  OBVIOUS
<1>1. r \in Seq(E) /\ Len(r) = Len(s) - m + 1 /\ \A i \in 1 .. Len(s) - m + 1 : r[i] = s[m + i - 1]
  BY <1>0, Halves
<1> HIDE DEF r
<1>2. j \in 1 .. Len(r) + 1 /\ m + j - 1 \in 1 .. Len(s) + 1
  BY <1>0, <1>1
<1>3. /\ From(r, j) \in Seq(E) /\ Len(From(r, j)) = Len(r) - j + 1
      /\ \A i \in 1 .. Len(r) - j + 1 : From(r, j)[i] = r[j + i - 1]
  BY <1>1, <1>2, Halves
<1>4. /\ From(s, m + j - 1) \in Seq(E) /\ Len(From(s, m + j - 1)) = Len(s) - (m + j - 1) + 1
      /\ \A i \in 1 .. Len(s) - (m + j - 1) + 1 : From(s, m + j - 1)[i] = s[m + j - 1 + i - 1]
  BY <1>2, Halves
<1>5. Len(From(r, j)) = Len(From(s, m + j - 1))
  BY <1>0, <1>1, <1>3, <1>4
<1>6. ASSUME NEW i \in 1 .. Len(From(r, j)) PROVE From(r, j)[i] = From(s, m + j - 1)[i]
  <2>1. i \in 1 .. Len(r) - j + 1 /\ i \in 1 .. Len(s) - (m + j - 1) + 1
    BY <1>3, <1>4, <1>5
  <2>2. j + i - 1 \in 1 .. Len(s) - m + 1 /\ m + (j + i - 1) - 1 = m + j - 1 + i - 1
    BY <1>0, <1>1, <2>1
  <2> QED BY <1>1, <1>3, <1>4, <2>1, <2>2
<1>7. From(r, j) = From(s, m + j - 1)
  BY <1>3, <1>4, <1>5, <1>6, SeqEqual
<1> QED BY <1>7 DEF r

\* The most recent events.
LEMMA MostRecentFacts ==
  ASSUME NEW E, NEW s \in Seq(E), NEW n \in Nat
  PROVE \/ MostRecent(s, n) = s /\ (n = 0 \/ Len(s) <= n)
        \/ \E m \in 1 .. Len(s) :
              m = Len(s) - n + 1 /\ n > 0 /\ MostRecent(s, n) = From(s, m)
<1>1. Len(s) \in Nat
  OBVIOUS
<1>2. CASE n > 0 /\ Len(s) > n
  <2>1. Len(s) - n + 1 \in 1 .. Len(s)
    BY <1>1, <1>2
  <2> QED BY <1>2, <2>1 DEF MostRecent
<1>3. CASE ~(n > 0 /\ Len(s) > n)
  BY <1>1, <1>3 DEF MostRecent
<1> QED BY <1>2, <1>3

\* What the window keeps is a sublist, and no longer than the limit.
LEMMA RetainedFacts ==
  ASSUME NEW E, NEW s \in Seq(E), NEW c, NEW n \in Nat
  PROVE /\ Retained(s, c, n) \in Seq(E)
        /\ Sublist(Retained(s, c, n), s)
        /\ n > 0 => Len(Retained(s, c, n)) <= n
<1> DEFINE u == Unexpired(s, c)
           recent == MostRecent(u, n)
<1>1. u \in Seq(E) /\ Sublist(u, s)
  BY AmongFacts DEF Unexpired
<1>2. recent \in Seq(E) /\ Sublist(recent, u) /\ (n > 0 => Len(recent) <= n)
  <2> HIDE DEF u
  <2>1. CASE recent = u /\ (n = 0 \/ Len(u) <= n)
    BY <1>1, <2>1, SublistSelf
  <2>2. ASSUME NEW m \in 1 .. Len(u), m = Len(u) - n + 1, n > 0, recent = From(u, m)
        PROVE recent \in Seq(E) /\ Sublist(recent, u) /\ (n > 0 => Len(recent) <= n)
    <3>1. m \in 1 .. Len(u) + 1 /\ Len(u) \in Nat
      BY <1>1
    <3>2. From(u, m) \in Seq(E) /\ Sublist(From(u, m), u) /\ Len(From(u, m)) = Len(u) - m + 1
      BY <1>1, <3>1, Halves
    <3> QED BY <2>2, <3>1, <3>2
  <2> QED BY <1>1, <2>1, <2>2, MostRecentFacts
<1> HIDE DEF recent, u
<1>3. Sublist(recent, s)
  BY <1>1, <1>2, SublistTrans
<1>4. CASE s = <<>> \/ (c = 0 /\ n = 0)
  <2>1. Retained(s, c, n) = s
    BY <1>4 DEF Retained
  <2> QED BY <1>4, <2>1, SublistSelf
<1>5. CASE ~(s = <<>> \/ (c = 0 /\ n = 0)) /\ Anchors(recent) # {}
  <2>1. Retained(s, c, n) = From(recent, Min(Anchors(recent)))
    BY <1>5 DEF Retained, recent, u
  <2>2. Len(recent) \in Nat /\ Anchors(recent) \subseteq 0 .. Len(recent) /\ Anchors(recent) \subseteq 1 .. Len(recent)
    BY <1>2 DEF Anchors
  <2>3. Min(Anchors(recent)) \in 1 .. Len(recent)
    BY <1>5, <2>2, MinMax
  <2> DEFINE k == Min(Anchors(recent))
  <2>4. k \in 1 .. Len(recent) + 1 /\ k \in 1 .. Len(recent)
    BY <2>2, <2>3
  <2>5. From(recent, k) \in Seq(E) /\ Len(From(recent, k)) = Len(recent) - k + 1 /\ Sublist(From(recent, k), recent)
    BY <1>2, <2>4, Halves
  <2>6. Sublist(From(recent, k), s)
    BY <1>2, <1>3, <2>5, SublistTrans
  <2> HIDE DEF k
  <2>7. n > 0 => Len(From(recent, k)) <= n
    BY <1>2, <2>2, <2>4, <2>5
  <2> QED BY <2>1, <2>5, <2>6, <2>7 DEF k
<1>6. CASE ~(s = <<>> \/ (c = 0 /\ n = 0)) /\ Anchors(recent) = {} /\ Anchors(s) # {}
  <2>1. Retained(s, c, n) = <<s[Max(Anchors(s))]>>
    BY <1>6 DEF Retained, recent, u
  <2>2. Len(s) \in Nat /\ Anchors(s) \subseteq 0 .. Len(s) /\ Anchors(s) \subseteq 1 .. Len(s)
    BY DEF Anchors
  <2>3. Max(Anchors(s)) \in 1 .. Len(s)
    BY <1>6, <2>2, MinMax
  <2> DEFINE k == Max(Anchors(s))
  <2>4. k \in 1 .. Len(s)
    BY <2>3
  <2> HIDE DEF k
  <2>5. Sublist(<<s[k]>>, s)
    BY <2>4, SublistSelf
  <2>6. s[k] \in E /\ Len(<<s[k]>>) = 1
    BY <2>4
  <2>7. <<s[k]>> \in Seq(E)
    BY <2>6
  <2> QED BY <2>1, <2>5, <2>6, <2>7 DEF k
<1>7. CASE ~(s = <<>> \/ (c = 0 /\ n = 0)) /\ Anchors(recent) = {} /\ Anchors(s) = {}
  <2>1. Retained(s, c, n) = <<>>
    BY <1>7 DEF Retained, recent, u
  <2>2. Picks(<<>>, <<>>, s)
    BY DEF Picks
  <2> QED BY <2>1, <2>2 DEF Sublist
<1> QED BY <1>4, <1>5, <1>6, <1>7

\* Without TTL, a window that reaches back to the anchor i keeps the end of
\* the list from that anchor, an earlier one, or all of it.
LEMMA RetainedTail ==
  ASSUME NEW E, NEW s \in Seq(E), \A e \in E : e.at \in Nat, NEW n \in Nat,
         NEW i \in Anchors(s), n = 0 \/ Len(s) - i < n
  PROVE \E k \in 1 .. i : Retained(s, 0, n) = From(s, k) /\ (k = 1 \/ k \in Anchors(s))
<1>0. Len(s) \in Nat /\ i \in 1 .. Len(s) /\ s # <<>>
  BY DEF Anchors
<1>1. CASE n = 0
  <2>1. Retained(s, 0, n) = s
    BY <1>1 DEF Retained
  <2>2. From(s, 1) = s
    BY SubSeqFull DEF From
  <2>3. 1 \in 1 .. i
    BY <1>0
  <2> QED BY <2>1, <2>2, <2>3
<1>2. CASE n > 0
  <2> DEFINE recent == MostRecent(s, n)
  <2>1. Unexpired(s, 0) = s
    <3>1. \A e \in ToSet(s) : e \in E
      BY DEF ToSet
    <3>2. ToSet(s) \subseteq {e \in ToSet(s) : e.at >= 0}
      BY <3>1
    <3> QED BY <3>2, AmongAll DEF Unexpired
  <2>2. Anchors(recent) # {} => Retained(s, 0, n) = From(recent, Min(Anchors(recent)))
    BY <1>0, <1>2, <2>1 DEF Retained
  <2>3. CASE recent = s
    <3>1. Anchors(s) \subseteq 0 .. Len(s) /\ Anchors(s) # {}
      BY <1>0 DEF Anchors
    <3>2. Min(Anchors(s)) \in Anchors(s) /\ Min(Anchors(s)) <= i
      BY <1>0, <3>1, MinMax
    <3>3. Min(Anchors(s)) \in 1 .. i
      BY <1>0, <3>2 DEF Anchors
    <3> QED BY <2>2, <2>3, <3>1, <3>2, <3>3
  <2>4. ASSUME NEW m \in 1 .. Len(s), m = Len(s) - n + 1, recent = From(s, m)
        PROVE \E k \in 1 .. i : Retained(s, 0, n) = From(s, k) /\ (k = 1 \/ k \in Anchors(s))
    <3>1. m \in 1 .. Len(s) + 1
      BY <1>0
    <3>2. /\ From(s, m) \in Seq(E) /\ Len(From(s, m)) = Len(s) - m + 1
          /\ \A j \in 1 .. Len(s) - m + 1 : From(s, m)[j] = s[m + j - 1]
      BY <3>1, Halves
    <3> DEFINE A == Anchors(From(s, m))
    <3>3. \A j \in 1 .. Len(s) - m + 1 : j \in A <=> m + j - 1 \in Anchors(s)
      <4>1. \A j \in 1 .. Len(s) - m + 1 : m + j - 1 \in 1 .. Len(s)
        BY <1>0
      <4>2. DOMAIN From(s, m) = 1 .. Len(s) - m + 1 /\ DOMAIN s = 1 .. Len(s)
        BY <3>2
      <4> QED BY <4>1, <4>2, <3>2 DEF Anchors
    <3>4. i - m + 1 \in 1 .. Len(s) - m + 1 /\ m + (i - m + 1) - 1 = i
      BY <1>0, <1>2, <2>4
    <3>5. i - m + 1 \in A
      BY <3>3, <3>4
    <3>6. Len(s) - m + 1 \in Nat /\ A \subseteq 0 .. Len(s) - m + 1 /\ A \subseteq 1 .. Len(s) - m + 1
      BY <1>0, <3>2 DEF Anchors
    <3> HIDE DEF A
    <3>7. Min(A) \in A /\ Min(A) <= i - m + 1
      BY <3>5, <3>6, MinMax
    <3>8. m + Min(A) - 1 \in Anchors(s) /\ Min(A) \in 1 .. Len(s) - m + 1
      BY <3>3, <3>6, <3>7
    <3>9. m + Min(A) - 1 \in 1 .. i
      BY <1>0, <3>7, <3>8
    <3>10. From(From(s, m), Min(A)) = From(s, m + Min(A) - 1)
      BY <3>8, FromFrom
    <3>11. Retained(s, 0, n) = From(s, m + Min(A) - 1)
      BY <2>2, <2>4, <3>5, <3>10 DEF A
    <3> QED BY <3>8, <3>9, <3>11
  <2> QED BY <2>3, <2>4, MostRecentFacts
<1> QED BY <1>0, <1>1, <1>2

-----------------------------------------------------------------------------
(* The identities of the events of a list *)

Distinct(s) == \A i, j \in DOMAIN s : i < j => s[i].id # s[j].id

\* Distinct, without the order of the positions.
LEMMA DistinctEither ==
  ASSUME NEW E, NEW s \in Seq(E), Distinct(s), NEW i \in DOMAIN s, NEW j \in DOMAIN s,
         s[i].id = s[j].id
  PROVE i = j
<1>1. i \in Int /\ j \in Int
  OBVIOUS
<1> QED BY <1>1 DEF Distinct

\* The identities of the elements of s.
LEMMA IdsOf ==
  ASSUME NEW E, NEW s \in Seq(E)
  PROVE /\ \A i \in DOMAIN s : s[i].id \in Ids(s) /\ s[i] \in ToSet(s)
        /\ \A x \in Ids(s) : \E i \in DOMAIN s : x = s[i].id
        /\ \A e \in ToSet(s) : e.id \in Ids(s)
        /\ \A x \in Ids(s) : \E e \in ToSet(s) : x = e.id
<1>1. \A i \in DOMAIN s : s[i].id \in Ids(s) /\ s[i] \in ToSet(s)
  BY DEF Ids, ToSet
<1>2. \A x \in Ids(s) : \E i \in DOMAIN s : x = s[i].id
  BY DEF Ids
<1>3. \A e \in ToSet(s) : e.id \in Ids(s)
  BY DEF Ids, ToSet
<1>4. \A x \in Ids(s) : \E e \in ToSet(s) : x = e.id
  BY <1>1, <1>2
<1> QED BY <1>1, <1>2, <1>3, <1>4

\* A sublist has some of the identities, each once if the list does.
LEMMA SublistIds ==
  ASSUME NEW E, NEW r \in Seq(E), NEW s \in Seq(E), Sublist(r, s)
  PROVE Ids(r) \subseteq Ids(s) /\ (Distinct(s) => Distinct(r))
<1>1. PICK f : Picks(f, r, s)
  BY DEF Sublist
<1>2. DOMAIN r = 1 .. Len(r) /\ DOMAIN s = 1 .. Len(s)
  OBVIOUS
<1>3. \A i \in DOMAIN r : f[i] \in DOMAIN s /\ r[i] = s[f[i]]
  BY <1>1, <1>2 DEF Picks
<1>4. \A i, j \in DOMAIN r : i < j => f[i] < f[j]
  BY <1>1, <1>2 DEF Picks
<1>5. Ids(r) \subseteq Ids(s)
  <2>1. ASSUME NEW x \in Ids(r) PROVE x \in Ids(s)
    <3>1. PICK i \in DOMAIN r : x = r[i].id
      BY DEF Ids
    <3>2. f[i] \in DOMAIN s /\ x = s[f[i]].id
      BY <1>3, <3>1
    <3> QED BY <3>2 DEF Ids
  <2> QED BY <2>1
<1>6. ASSUME Distinct(s) PROVE Distinct(r)
  BY <1>3, <1>4, <1>6 DEF Distinct
<1> QED BY <1>5, <1>6

\* The identities of a concatenation.
LEMMA ConcatIds ==
  ASSUME NEW E, NEW s \in Seq(E), NEW t \in Seq(E)
  PROVE /\ Ids(s \o t) = Ids(s) \cup Ids(t)
        /\ Distinct(s \o t) <=> /\ Distinct(s) /\ Distinct(t)
                                /\ \A x \in Ids(s) : x \notin Ids(t)
<1> DEFINE u == s \o t
           m == Len(s)
           n == Len(t)
<1>1. /\ u \in Seq(E) /\ Len(u) = m + n /\ m \in Nat /\ n \in Nat
      /\ \A i \in 1 .. m + n : u[i] = IF i <= m THEN s[i] ELSE t[i - m]
  BY ConcatProperties
<1>2. DOMAIN u = 1 .. m + n /\ DOMAIN s = 1 .. m /\ DOMAIN t = 1 .. n
  BY <1>1
<1> HIDE DEF u, m, n
<1>3. \A i \in DOMAIN s : i \in DOMAIN u /\ u[i] = s[i]
  BY <1>1, <1>2
<1>4. \A j \in DOMAIN t : m + j \in DOMAIN u /\ u[m + j] = t[j]
  <2>1. ASSUME NEW j \in DOMAIN t PROVE m + j \in DOMAIN u /\ u[m + j] = t[j]
    <3>1. m + j \in 1 .. m + n /\ ~(m + j <= m) /\ m + j - m = j
      BY <1>1, <1>2
    <3> QED BY <1>1, <1>2, <3>1
  <2> QED BY <2>1
<1>5. \A k \in DOMAIN u : \/ k \in DOMAIN s /\ u[k] = s[k]
                          \/ k - m \in DOMAIN t /\ u[k] = t[k - m]
  BY <1>1, <1>2
<1>6. Ids(u) = Ids(s) \cup Ids(t)
  <2>1. ASSUME NEW x \in Ids(u) PROVE x \in Ids(s) \cup Ids(t)
    <3>1. PICK k \in DOMAIN u : x = u[k].id
      BY DEF Ids
    <3> QED BY <1>5, <3>1 DEF Ids
  <2>2. ASSUME NEW x \in Ids(s) PROVE x \in Ids(u)
    <3>1. PICK k \in DOMAIN s : x = s[k].id
      BY DEF Ids
    <3> QED BY <1>3, <3>1 DEF Ids
  <2>3. ASSUME NEW x \in Ids(t) PROVE x \in Ids(u)
    <3>1. PICK k \in DOMAIN t : x = t[k].id
      BY DEF Ids
    <3> QED BY <1>4, <3>1 DEF Ids
  <2> QED BY <2>1, <2>2, <2>3
<1>7. ASSUME Distinct(u)
      PROVE Distinct(s) /\ Distinct(t) /\ \A x \in Ids(s) : x \notin Ids(t)
  <2>1. Distinct(s)
    BY <1>3, <1>7 DEF Distinct
  <2>2. Distinct(t)
    <3>1. ASSUME NEW i \in DOMAIN t, NEW j \in DOMAIN t, i < j PROVE t[i].id # t[j].id
      <4>1. m + i < m + j
        BY <1>1, <1>2, <3>1
      <4> QED BY <1>4, <1>7, <4>1 DEF Distinct
    <3> QED BY <3>1 DEF Distinct
  <2>3. ASSUME NEW x \in Ids(s), x \in Ids(t) PROVE FALSE
    <3>1. PICK i \in DOMAIN s : x = s[i].id
      BY DEF Ids
    <3>2. PICK j \in DOMAIN t : x = t[j].id
      BY <2>3 DEF Ids
    <3>3. i < m + j
      BY <1>1, <1>2
    <3>4. u[i].id # u[m + j].id
      BY <1>3, <1>4, <1>7, <3>3 DEF Distinct
    <3> QED BY <1>3, <1>4, <3>1, <3>2, <3>4
  <2> QED BY <2>1, <2>2, <2>3
<1>8. ASSUME Distinct(s), Distinct(t), \A x \in Ids(s) : x \notin Ids(t)
      PROVE Distinct(u)
  <2>1. ASSUME NEW i \in DOMAIN u, NEW j \in DOMAIN u, i < j PROVE u[i].id # u[j].id
    <3>1. i \in 1 .. m + n /\ j \in 1 .. m + n
      BY <1>2
    <3>2. CASE j <= m
      <4>1. i \in DOMAIN s /\ j \in DOMAIN s
        BY <1>1, <1>2, <2>1, <3>1, <3>2
      <4> QED BY <1>3, <1>8, <2>1, <4>1 DEF Distinct
    <3>3. CASE i > m
      <4>0. i - m \in 1 .. n /\ j - m \in 1 .. n /\ i - m < j - m /\ ~(i <= m) /\ ~(j <= m)
        BY <1>1, <2>1, <3>1, <3>3
      <4>1. u[i] = t[i - m] /\ u[j] = t[j - m]
        BY <1>1, <3>1, <4>0
      <4> QED BY <1>2, <1>8, <4>0, <4>1 DEF Distinct
    <3>4. CASE i <= m /\ j > m
      <4>1. i \in DOMAIN s /\ u[i] = s[i] /\ j - m \in DOMAIN t /\ u[j] = t[j - m]
        BY <1>1, <1>2, <3>1, <3>4
      <4>2. s[i].id \in Ids(s) /\ t[j - m].id \in Ids(t)
        BY <4>1 DEF Ids
      <4> QED BY <1>8, <4>1, <4>2
    <3> QED BY <1>1, <3>1, <3>2, <3>3, <3>4
  <2> QED BY <2>1 DEF Distinct
<1> QED BY <1>6, <1>7, <1>8 DEF u

\* The identity of an event alone.
LEMMA OneId ==
  ASSUME NEW E, NEW e \in E
  PROVE <<e>> \in Seq(E) /\ Ids(<<e>>) = {e.id} /\ Distinct(<<e>>)
<1>1. <<e>> \in Seq(E) /\ DOMAIN <<e>> = {1} /\ <<e>>[1] = e
  OBVIOUS
<1> QED BY <1>1 DEF Ids, Distinct

\* What a sublist keeps and what Dropped returns are the list, each event once.
LEMMA KeptAndDropped ==
  ASSUME NEW E, NEW s \in Seq(E), NEW r \in Seq(E), Sublist(r, s), Distinct(s)
  PROVE /\ Dropped(s, r) \in Seq(E)
        /\ Ids(Dropped(s, r) \o r) = Ids(s)
        /\ Distinct(Dropped(s, r) \o r)
<1> DEFINE d == Dropped(s, r)
<1>1. d \in Seq(E) /\ Sublist(d, s) /\ ToSet(d) = ToSet(s) \cap (ToSet(s) \ ToSet(r))
  BY AmongFacts DEF Dropped
<1> HIDE DEF d
<1>2. Distinct(d) /\ Distinct(r) /\ Ids(d) \subseteq Ids(s) /\ Ids(r) \subseteq Ids(s)
  BY <1>1, SublistIds
<1>3. ToSet(r) \subseteq ToSet(s)
  BY SublistElements
<1>4. ASSUME NEW x \in Ids(d), x \in Ids(r) PROVE FALSE
  <2>1. PICK e \in ToSet(d) : x = e.id
    BY <1>1, IdsOf
  <2>2. PICK f \in ToSet(r) : x = f.id
    BY <1>4, IdsOf
  <2>3. e \in ToSet(s) /\ f \in ToSet(s) /\ e # f
    BY <1>1, <1>3, <2>1, <2>2
  <2>4. PICK i \in DOMAIN s : e = s[i]
    BY <2>3 DEF ToSet
  <2>5. PICK j \in DOMAIN s : f = s[j]
    BY <2>3 DEF ToSet
  <2>6. i = j
    BY <2>1, <2>2, <2>4, <2>5, DistinctEither
  <2> QED BY <2>3, <2>4, <2>5, <2>6
<1>5. Ids(s) \subseteq Ids(d) \cup Ids(r)
  <2>1. ASSUME NEW x \in Ids(s) PROVE x \in Ids(d) \cup Ids(r)
    <3>1. PICK e \in ToSet(s) : x = e.id
      BY IdsOf
    <3>2. e \in ToSet(d) \/ e \in ToSet(r)
      BY <1>1, <3>1
    <3> QED BY <1>1, <3>1, <3>2, IdsOf
  <2> QED BY <2>1
<1> QED BY <1>1, <1>2, <1>4, <1>5, ConcatIds DEF d

-----------------------------------------------------------------------------
(* Where a summary and a compaction cut *)

\* The greater of 1 and a number.
LEMMA MaxOfTwo ==
  ASSUME NEW a \in Int
  PROVE Max({1, a}) = IF a >= 1 THEN a ELSE 1
<1> DEFINE m == IF a >= 1 THEN a ELSE 1
<1>1. m \in {1, a} /\ \A y \in {1, a} : m >= y
  OBVIOUS
<1>2. \A x \in {1, a} : (\A y \in {1, a} : x >= y) => x = m
  OBVIOUS
<1> HIDE DEF m
<1>3. Max({1, a}) = m
  BY <1>1, <1>2 DEF Max
<1> QED BY <1>3 DEF m

\* A summary replaces at least the first event.
LEMMA KeptFromFacts ==
  ASSUME NEW E, NEW s \in Seq(E), NEW keep \in Nat, NEW byUserTurn \in BOOLEAN
  PROVE /\ KeptFrom(s, keep, byUserTurn) \in 1 .. Len(s) + 1
        /\ Summarised(s, keep, byUserTurn) # <<>> => KeptFrom(s, keep, byUserTurn) >= 2
        /\ KeptFrom(s, keep, byUserTurn) = KeptFromRaw(s, keep)
              \/ KeptFrom(s, keep, byUserTurn) \in Anchors(s)
<1> DEFINE k == KeptFromRaw(s, keep)
           later == {i \in Anchors(s) : i >= k}
           first == IF byUserTurn /\ Anchors(s) # {} THEN Min(Anchors(s)) ELSE 1
<1>1. Len(s) \in Nat /\ k \in 1 .. Len(s) + 1
  BY DEF KeptFromRaw
<1>2. Anchors(s) \subseteq 0 .. Len(s) /\ Anchors(s) \subseteq 1 .. Len(s)
  BY DEF Anchors
<1>3. later \subseteq 0 .. Len(s)
  BY <1>2
<1> HIDE DEF k
<1>4. later # {} => Min(later) \in later
  <2> HIDE DEF later
  <2> QED BY <1>1, <1>3, MinMax
<1>5. KeptFrom(s, keep, byUserTurn) = IF byUserTurn /\ later # {} THEN Min(later) ELSE k
  BY DEF KeptFrom, k
<1>6. KeptFrom(s, keep, byUserTurn) = k \/ KeptFrom(s, keep, byUserTurn) \in Anchors(s)
  BY <1>4, <1>5
<1>7. KeptFrom(s, keep, byUserTurn) \in 1 .. Len(s) + 1
  BY <1>1, <1>2, <1>6
<1>8. first \in Int /\ first >= 1
  <2>1. Anchors(s) # {} => Min(Anchors(s)) \in Anchors(s)
    BY <1>1, <1>2, MinMax
  <2> QED BY <1>2, <2>1
<1>9. ASSUME KeptFrom(s, keep, byUserTurn) < 2 PROVE Summarised(s, keep, byUserTurn) = <<>>
  <2>1. KeptFrom(s, keep, byUserTurn) - 1 \in Int /\ KeptFrom(s, keep, byUserTurn) - 1 < first
    BY <1>7, <1>8, <1>9
  <2>2. Summarised(s, keep, byUserTurn) = SubSeq(s, first, KeptFrom(s, keep, byUserTurn) - 1)
    BY DEF Summarised
  <2> HIDE DEF first
  <2> QED BY <1>8, <2>1, <2>2, SubSeqEmpty
<1> QED BY <1>6, <1>7, <1>9 DEF k

\* The default summariser cuts at an anchor or at the end if the events it
\* keeps reach back to an anchor.
LEMMA KeptFromTurn ==
  ASSUME NEW E, NEW s \in Seq(E), NEW keep \in Nat, NEW byUserTurn \in BOOLEAN,
         NEW i \in Anchors(s), keep = 0 \/ (byUserTurn /\ Len(s) - i < keep)
  PROVE KeptFrom(s, keep, byUserTurn) \in Anchors(s) \cup {Len(s) + 1}
<1> DEFINE k == KeptFromRaw(s, keep)
           later == {j \in Anchors(s) : j >= k}
<1>1. Len(s) \in Nat /\ i \in 1 .. Len(s)
  BY DEF Anchors
<1>2. CASE k = Len(s) + 1
  BY <1>2, KeptFromFacts
<1>3. CASE k # Len(s) + 1
  <2>1. keep > 0 /\ k = Len(s) - keep + 1
    BY <1>1, <1>3 DEF KeptFromRaw
  <2>2. byUserTurn /\ i \in later
    BY <1>1, <2>1
  <2>3. later \subseteq 0 .. Len(s) /\ later # {}
    BY <2>2 DEF Anchors
  <2>4. KeptFrom(s, keep, byUserTurn) = Min(later)
    BY <2>2, <2>3 DEF KeptFrom
  <2>5. Min(later) \in later
    <3> HIDE DEF later
    <3> QED BY <1>1, <2>3, MinMax
  <2> QED BY <2>4, <2>5
<1> QED BY <1>2, <1>3

\* Every result comes right after its call.
Answered(s) ==
    \A j \in DOMAIN s : s[j].kind = "result" =>
        j > 1 /\ s[j - 1].kind = "call" /\ s[j - 1].pair = s[j].pair

\* A compaction replaces between one and all of the events, and what it keeps
\* does not start with the result of a call it replaces.
LEMMA BoundaryFacts ==
  ASSUME NEW E, NEW s \in Seq(E), NEW keep \in Nat, Boundary(s, keep) # 0
  PROVE /\ Boundary(s, keep) \in 1 .. Len(s)
        /\ /\ IsAnchor(s[1]) /\ Answered(s)
           /\ Boundary(s, keep) + 1 <= Len(s)
           => s[Boundary(s, keep) + 1].kind # "result"
<1> DEFINE from == Max({1, Len(s) - keep + 1})
           split == {i \in 1 .. from - 1 : s[i].kind = "call" /\
                       \E j \in from .. Len(s) :
                           s[j].kind = "result" /\ s[j].pair = s[i].pair}
           start == PairedStart(s, from)
           b == Boundary(s, keep)
<1>1. Len(s) \in Nat /\ from \in 1 .. Len(s) + 1
  <2>1. Len(s) \in Nat /\ Len(s) - keep + 1 \in Int
    OBVIOUS
  <2> QED BY <2>1, MaxOfTwo
<1>2. start = IF from \notin 2 .. Len(s) \/ split = {} THEN from ELSE Min(split)
  BY DEF PairedStart
<1> HIDE DEF from, start
<1>3. split \subseteq 0 .. Len(s) /\ split \subseteq 1 .. Len(s)
  BY <1>1
<1>4. split # {} => Min(split) \in split
  <2> HIDE DEF split
  <2> QED BY <1>1, <1>3, MinMax
<1>5. start \in 1 .. Len(s) + 1
  <2> HIDE DEF split
  <2> QED BY <1>1, <1>2, <1>3, <1>4
<1>6. Len(s) > 1 /\ b = IF start - 1 >= 1 THEN start - 1 ELSE 1
  <2>1. start - 1 \in Int
    BY <1>5
  <2>2. b = IF Len(s) <= 1 THEN 0 ELSE Max({1, start - 1})
    BY DEF Boundary, start, from
  <2>3. Max({1, start - 1}) = IF start - 1 >= 1 THEN start - 1 ELSE 1
    BY <2>1, MaxOfTwo
  <2> QED BY <1>1, <2>2, <2>3
<1>7. b \in 1 .. Len(s)
  BY <1>1, <1>5, <1>6
<1>8. ASSUME IsAnchor(s[1]), Answered(s), b + 1 <= Len(s), s[b + 1].kind = "result"
      PROVE FALSE
  <2>1. b + 1 \in DOMAIN s /\ b + 1 - 1 = b
    BY <1>1, <1>7, <1>8
  <2>2. s[b].kind = "call" /\ s[b].pair = s[b + 1].pair
    <3> DEFINE c == b + 1
    <3>0. b \in Int
      BY <1>1, <1>7
    <3> HIDE DEF b
    <3>1. c \in DOMAIN s /\ s[c].kind = "result" /\ c - 1 = b
      BY <1>8, <2>1, <3>0
    <3> HIDE DEF b, c, split
    <3>2. s[c - 1].kind = "call" /\ s[c - 1].pair = s[c].pair
      BY <1>8, <3>1 DEF Answered
    <3> QED BY <3>1, <3>2 DEF c
  <2>3. b # 1
    BY <1>8, <2>2 DEF IsAnchor
  <2>4. start = b + 1 /\ start >= 2
    BY <1>5, <1>6, <2>3
  <2>5. CASE from \notin 2 .. Len(s)
    BY <1>1, <1>2, <1>8, <2>4, <2>5
  <2>6. CASE from \in 2 .. Len(s) /\ split = {}
    <3>1. from = b + 1
      BY <1>2, <2>4, <2>6
    <3>2. b \in 1 .. from - 1 /\ b + 1 \in from .. Len(s)
      BY <1>1, <1>7, <1>8, <3>1
    <3>3. b \in split
      BY <1>8, <2>2, <3>2
    <3> QED BY <2>6, <3>3
  <2>7. CASE from \in 2 .. Len(s) /\ split # {}
    <3>1. start \in split
      BY <1>2, <1>4, <2>7
    <3> QED BY <1>8, <2>4, <3>1
  <2> QED BY <2>5, <2>6, <2>7
<1> QED BY <1>7, <1>8

-----------------------------------------------------------------------------
(* Types *)

\* What a configuration is made of.
LEMMA ConfTypes ==
  ASSUME config \in ObjectConfigs
  PROVE /\ MaxAdds \in Nat /\ MaxSteps \in Nat /\ MaxSummaries \in Nat
        /\ EventLimit \in Nat /\ KeepCount \in Nat
        /\ Ttl \in BOOLEAN /\ KeepHistory \in BOOLEAN /\ ByUserTurn \in BOOLEAN
        /\ Compaction \in {"none", "default", "advanced"}
BY ObjectAssumption DEF MaxAdds, MaxSteps, MaxSummaries, EventLimit, KeepCount,
   Ttl, KeepHistory, ByUserTurn, Compaction

\* A step of the conversation adds an event of one of four kinds, and the pair
\* of a result is that of the call before it.
Adds(kind) ==
    \E pair \in 0 .. clock : Recorded(Event(kind, pair))

LEMMA AddSteps ==
  ASSUME ObjectTypeOK
  PROVE /\ UserMessage => Adds("user") /\ LastAdded = "text" /\ steps' = 0
        /\ FunctionCall => /\ Adds("call") /\ LastAdded \in {"user", "result"}
                           /\ steps < MaxSteps /\ steps' = steps + 1
        /\ FunctionResult => /\ Recorded(Event("result", Last(added).pair))
                             /\ Last(added).pair \in 0 .. clock /\ added # <<>>
                             /\ LastAdded = "call" /\ steps' = steps
        /\ FinalText => /\ Adds("text") /\ LastAdded \in {"user", "result"}
                        /\ steps' = steps
<1>1. 0 \in 0 .. clock /\ clock \in 0 .. clock
  BY DEF ObjectTypeOK
<1>2. UserMessage => Adds("user") /\ LastAdded = "text" /\ steps' = 0
  BY <1>1 DEF UserMessage, Adds
<1>3. FunctionCall => /\ Adds("call") /\ LastAdded \in {"user", "result"}
                      /\ steps < MaxSteps /\ steps' = steps + 1
  BY <1>1 DEF FunctionCall, Adds
<1>4. ASSUME FunctionResult
      PROVE /\ Recorded(Event("result", Last(added).pair))
            /\ Last(added).pair \in 0 .. clock /\ added # <<>>
            /\ LastAdded = "call" /\ steps' = steps
  <2>1. added # <<>>
    BY <1>4 DEF FunctionResult, LastAdded
  <2>2. added \in Seq(ObjectEventSet) /\ Len(added) \in 1 .. Len(added)
    BY <2>1 DEF ObjectTypeOK
  <2>3. Last(added) \in ObjectEventSet
    BY <2>2 DEF Last
  <2>4. Last(added).pair \in 0 .. clock
    BY <2>3 DEF ObjectEventSet
  <2> QED BY <1>4, <2>1, <2>4 DEF FunctionResult
<1>5. FinalText => Adds("text") /\ LastAdded \in {"user", "result"} /\ steps' = steps
  BY <1>1 DEF FinalText, Adds
<1> QED BY <1>2, <1>3, <1>4, <1>5

\* A new event is of the type that events have once the clock has moved.
LEMMA EventSetGrows ==
  ASSUME ObjectTypeOK, clock' = clock + 1
  PROVE /\ ObjectEventSet \subseteq ObjectEventSet'
        /\ \A kind \in Kinds, pair \in 0 .. clock : Event(kind, pair) \in ObjectEventSet'
        /\ \A s \in Seq(ObjectEventSet) : s \in Seq(ObjectEventSet')
<1>1. clock \in Nat \ {0}
  BY DEF ObjectTypeOK
<1>2. ObjectEventSet \subseteq ObjectEventSet'
  BY <1>1 DEF ObjectEventSet
<1>3. \A kind \in Kinds, pair \in 0 .. clock : Event(kind, pair) \in ObjectEventSet'
  BY <1>1 DEF ObjectEventSet, Event
<1>4. \A s \in Seq(ObjectEventSet) : s \in Seq(ObjectEventSet')
  BY <1>2, SeqMonotonic
<1> QED BY <1>2, <1>3, <1>4

\* The list a new event is appended to, what is kept of it and what is not.
LEMMA RecordedFacts ==
  ASSUME ObjectTypeOK, NEW kind \in Kinds, NEW pair \in 0 .. clock, Recorded(Event(kind, pair))
  PROVE /\ Event(kind, pair) \in ObjectEventSet'
        /\ events \in Seq(ObjectEventSet') /\ historical \in Seq(ObjectEventSet') /\ added \in Seq(ObjectEventSet')
        /\ Append(events, Event(kind, pair)) \in Seq(ObjectEventSet')
        /\ events' = Retained(Append(events, Event(kind, pair)), cutoff, EventLimit)
        /\ events' \in Seq(ObjectEventSet') /\ Sublist(events', Append(events, Event(kind, pair)))
        /\ EventLimit > 0 => Len(events') <= EventLimit
        /\ historical' = IF KeepHistory
                         THEN historical \o Dropped(Append(events, Event(kind, pair)), events')
                         ELSE historical
        /\ historical' \in Seq(ObjectEventSet')
        /\ added' = Append(added, Event(kind, pair)) /\ added' \in Seq(ObjectEventSet')
        /\ clock' = clock + 1 /\ config' = config /\ cutoff' = cutoff /\ summaries' = summaries
<1> DEFINE e == Event(kind, pair)
           all == Append(events, e)
<1>1. clock' = clock + 1 /\ config' = config /\ cutoff' = cutoff /\ summaries' = summaries /\ added' = Append(added, e)
  BY DEF Recorded
<1>2. events' = Retained(all, cutoff, EventLimit)
      /\ historical' = IF KeepHistory THEN historical \o Dropped(all, events') ELSE historical
  BY DEF Recorded, AddEvent
<1>3. e \in ObjectEventSet' /\ events \in Seq(ObjectEventSet') /\ historical \in Seq(ObjectEventSet') /\ added \in Seq(ObjectEventSet')
  BY <1>1, EventSetGrows DEF ObjectTypeOK
<1> HIDE DEF e
<1>4. all \in Seq(ObjectEventSet') /\ added' \in Seq(ObjectEventSet')
  BY <1>1, <1>3, AppendProperties
<1> HIDE DEF all
<1>5. EventLimit \in Nat
  BY ConfTypes DEF ObjectTypeOK
<1>6. events' \in Seq(ObjectEventSet') /\ Sublist(events', all) /\ (EventLimit > 0 => Len(events') <= EventLimit)
  BY <1>2, <1>4, <1>5, RetainedFacts
<1>7. Dropped(all, events') \in Seq(ObjectEventSet')
  BY <1>4, AmongFacts DEF Dropped
<1>8. historical' \in Seq(ObjectEventSet')
  BY <1>2, <1>3, <1>7, ConcatProperties
<1> QED BY <1>1, <1>2, <1>3, <1>4, <1>6, <1>8 DEF e, all

\* A summary that replaces what is before position k.
Replaces(k, summary) ==
    /\ k \in 2 .. Len(events) + 1
    /\ summary \in ObjectEventSet' /\ summary.id = clock /\ summary.kind = "summary"
    /\ events' = <<summary>> \o From(events, k)
    /\ clock' = clock + 1 /\ summaries' = summaries + 1 /\ summaries < MaxSummaries
    /\ UNCHANGED <<config, added, cutoff, steps>>

LEMMA SummariseFacts ==
  ASSUME ObjectTypeOK, Summarise
  PROVE LET k == KeptFrom(events, KeepCount, ByUserTurn)
        IN /\ Replaces(k, Event("summary", 0))
           /\ Compaction = "default" /\ LastAdded = "text"
           /\ historical' = IF KeepHistory THEN historical \o Upto(events, k - 1)
                                               ELSE historical
<1> DEFINE k == KeptFrom(events, KeepCount, ByUserTurn)
<1>1. KeepCount \in Nat /\ ByUserTurn \in BOOLEAN /\ events \in Seq(ObjectEventSet)
  BY ConfTypes DEF ObjectTypeOK
<1>2. k \in 1 .. Len(events) + 1 /\ (Summarised(events, KeepCount, ByUserTurn) # <<>> => k >= 2)
  BY <1>1, KeptFromFacts
<1>3. Summarised(events, KeepCount, ByUserTurn) # <<>>
  BY DEF Summarise
<1>4. k \in 2 .. Len(events) + 1
  BY <1>1, <1>2, <1>3
<1>5. /\ events' = <<Event("summary", 0)>> \o From(events, k)
      /\ clock' = clock + 1 /\ summaries' = summaries + 1 /\ summaries < MaxSummaries
      /\ UNCHANGED <<config, added, cutoff, steps>>
      /\ Compaction = "default" /\ LastAdded = "text"
      /\ historical' = IF KeepHistory THEN historical \o Upto(events, k - 1) ELSE historical
  BY DEF Summarise
<1>6. 0 \in 0 .. clock /\ "summary" \in Kinds
  BY DEF ObjectTypeOK, Kinds
<1>7. Event("summary", 0) \in ObjectEventSet'
  BY <1>5, <1>6, EventSetGrows
<1>8. Event("summary", 0).id = clock /\ Event("summary", 0).kind = "summary"
  BY DEF Event
<1> HIDE DEF k
<1>9. Replaces(k, Event("summary", 0))
  BY <1>4, <1>5, <1>7, <1>8 DEF Replaces
<1> QED BY <1>5, <1>9 DEF k

LEMMA CompactFacts ==
  ASSUME ObjectTypeOK, Compact
  PROVE LET b == Boundary(events, KeepCount)
            first == [Event("summary", 0) EXCEPT !.at = events[1].at]
        IN /\ Replaces(b + 1, first) /\ first.at = events[1].at
           /\ Compaction = "advanced" /\ LastAdded \in {"user", "result"} /\ b # 0
           /\ historical' = historical \o Dropped(Upto(events, b), historical)
<1> DEFINE b == Boundary(events, KeepCount)
           first == [Event("summary", 0) EXCEPT !.at = events[1].at]
<1>1. /\ Compaction = "advanced" /\ LastAdded \in {"user", "result"} /\ b # 0
      /\ events' = <<first>> \o From(events, b + 1)
      /\ historical' = historical \o Dropped(Upto(events, b), historical)
      /\ clock' = clock + 1 /\ summaries' = summaries + 1 /\ summaries < MaxSummaries
      /\ UNCHANGED <<config, added, cutoff, steps>>
  BY DEF Compact
<1>2. KeepCount \in Nat /\ events \in Seq(ObjectEventSet)
  BY ConfTypes DEF ObjectTypeOK
<1>3. b \in 1 .. Len(events) /\ Len(events) \in Nat
  BY <1>1, <1>2, BoundaryFacts
<1> HIDE DEF b
<1>4. b + 1 \in 2 .. Len(events) + 1 /\ 1 \in 1 .. Len(events)
  BY <1>3
<1>5. events[1] \in ObjectEventSet
  BY <1>2, <1>4
<1>6. first = [id |-> clock, at |-> events[1].at, kind |-> "summary", pair |-> 0]
  BY DEF Event
<1>7. first \in ObjectEventSet'
  <2>1. events[1].at \in 1 .. clock /\ clock \in Nat \ {0}
    BY <1>5 DEF ObjectEventSet, ObjectTypeOK
  <2> QED BY <1>1, <1>6, <2>1 DEF ObjectEventSet, Kinds
<1>8. first.id = clock /\ first.kind = "summary" /\ first.at = events[1].at
  BY <1>6
<1> HIDE DEF first
<1>9. Replaces(b + 1, first)
  BY <1>1, <1>4, <1>7, <1>8 DEF Replaces
<1> QED BY <1>1, <1>8, <1>9 DEF b, first

\* The window after such a summary.
LEMMA ReplacesFacts ==
  ASSUME ObjectTypeOK, NEW k, NEW summary, Replaces(k, summary)
  PROVE /\ events \in Seq(ObjectEventSet') /\ historical \in Seq(ObjectEventSet') /\ added \in Seq(ObjectEventSet')
        /\ events' \in Seq(ObjectEventSet')
        /\ Len(events') = 1 + (Len(events) - k + 1) /\ Len(events') <= Len(events)
        /\ events'[1] = summary
        /\ \A i \in 2 .. Len(events') : events'[i] = events[k + i - 2]
        /\ Upto(events, k - 1) \in Seq(ObjectEventSet')
<1>1. clock' = clock + 1 /\ summary \in ObjectEventSet' /\ events' = <<summary>> \o From(events, k)
      /\ k \in 2 .. Len(events) + 1
  BY DEF Replaces
<1>2. events \in Seq(ObjectEventSet') /\ historical \in Seq(ObjectEventSet') /\ added \in Seq(ObjectEventSet')
  BY <1>1, EventSetGrows DEF ObjectTypeOK
<1>3. k \in 1 .. Len(events) + 1 /\ Len(events) \in Nat
  BY <1>1, <1>2
<1>4. /\ From(events, k) \in Seq(ObjectEventSet') /\ Len(From(events, k)) = Len(events) - k + 1
      /\ \A i \in 1 .. Len(events) - k + 1 : From(events, k)[i] = events[k + i - 1]
      /\ Upto(events, k - 1) \in Seq(ObjectEventSet')
  BY <1>2, <1>3, Halves
<1> DEFINE t == From(events, k)
<1>0. t \in Seq(ObjectEventSet') /\ events' = <<summary>> \o t
  BY <1>1, <1>4
<1> HIDE DEF t
<1>5. <<summary>> \in Seq(ObjectEventSet') /\ Len(<<summary>>) = 1 /\ <<summary>>[1] = summary
  BY <1>1
<1>6. /\ events' \in Seq(ObjectEventSet') /\ Len(events') = 1 + Len(t)
      /\ \A i \in 1 .. 1 + Len(t) : events'[i] = IF i <= 1 THEN <<summary>>[i] ELSE t[i - 1]
  BY <1>0, <1>5, ConcatProperties
<1>7. Len(events') = 1 + (Len(events) - k + 1) /\ Len(events') <= Len(events)
  BY <1>1, <1>3, <1>4, <1>6 DEF t
<1>8. events'[1] = summary
  <2>1. 1 \in 1 .. 1 + Len(t)
    BY <1>3, <1>4 DEF t
  <2> QED BY <1>5, <1>6, <2>1
<1>9. ASSUME NEW i \in 2 .. Len(events') PROVE events'[i] = events[k + i - 2]
  <2>1. i \in 1 .. 1 + Len(t) /\ ~(i <= 1) /\ i - 1 \in 1 .. Len(events) - k + 1 /\ k + (i - 1) - 1 = k + i - 2
    BY <1>3, <1>4, <1>6, <1>7 DEF t
  <2> QED BY <1>4, <1>6, <2>1 DEF t
<1> QED BY <1>2, <1>4, <1>6, <1>7, <1>8, <1>9

\* The steps of the system, by what they do to the window.
LEMMA TypeInit == ObjectInit => ObjectTypeOK
<1> SUFFICES ASSUME ObjectInit PROVE ObjectTypeOK
  OBVIOUS
<1>1. MaxSteps \in Nat /\ MaxSummaries \in Nat /\ EventLimit \in Nat
  BY ConfTypes DEF ObjectInit
<1>2. Len(<<>>) = 0 /\ <<>> \in Seq(ObjectEventSet)
  BY EmptySeq
<1> QED BY <1>1, <1>2 DEF ObjectInit, ObjectTypeOK

LEMMA TypeStep ==
  ASSUME ObjectTypeOK, [ObjectNext]_objectVars
  PROVE ObjectTypeOK'
<1>0. /\ MaxAdds \in Nat /\ MaxSteps \in Nat /\ MaxSummaries \in Nat /\ EventLimit \in Nat
      /\ clock \in Nat \ {0} /\ config \in ObjectConfigs /\ cutoff \in 0 .. clock
      /\ steps \in 0 .. MaxSteps /\ summaries \in 0 .. MaxSummaries
  BY ConfTypes DEF ObjectTypeOK
<1>1. ASSUME NEW kind \in Kinds, NEW pair \in 0 .. clock, Recorded(Event(kind, pair)),
             steps' \in 0 .. MaxSteps
      PROVE ObjectTypeOK'
  <2>1. /\ events' \in Seq(ObjectEventSet') /\ historical' \in Seq(ObjectEventSet') /\ added' \in Seq(ObjectEventSet')
        /\ clock' = clock + 1 /\ config' = config /\ cutoff' = cutoff /\ summaries' = summaries
        /\ EventLimit > 0 => Len(events') <= EventLimit
    BY <1>1, RecordedFacts
  <2>2. MaxSteps' = MaxSteps /\ MaxSummaries' = MaxSummaries /\ EventLimit' = EventLimit
    BY <2>1 DEF MaxSteps, MaxSummaries, EventLimit
  <2>3. clock' \in Nat \ {0} /\ cutoff' \in 0 .. clock'
    BY <1>0, <2>1
  <2> QED BY <1>0, <1>1, <2>1, <2>2, <2>3 DEF ObjectTypeOK
<1>2. {"user", "call", "result", "text"} \subseteq Kinds
  BY DEF Kinds
<1>3. CASE UserMessage
  <2>1. PICK pair \in 0 .. clock : Recorded(Event("user", pair))
    BY <1>3, AddSteps DEF Adds
  <2>2. steps' \in 0 .. MaxSteps
    BY <1>0, <1>3, AddSteps
  <2> QED BY <1>1, <1>2, <2>1, <2>2
<1>4. CASE FunctionCall
  <2>1. PICK pair \in 0 .. clock : Recorded(Event("call", pair))
    BY <1>4, AddSteps DEF Adds
  <2>2. steps' \in 0 .. MaxSteps
    BY <1>0, <1>4, AddSteps
  <2> QED BY <1>1, <1>2, <2>1, <2>2
<1>5. CASE FunctionResult
  <2>1. Recorded(Event("result", Last(added).pair)) /\ Last(added).pair \in 0 .. clock
    BY <1>5, AddSteps
  <2>2. steps' \in 0 .. MaxSteps
    BY <1>0, <1>5, AddSteps
  <2> QED BY <1>1, <1>2, <2>1, <2>2
<1>6. CASE FinalText
  <2>1. PICK pair \in 0 .. clock : Recorded(Event("text", pair))
    BY <1>6, AddSteps DEF Adds
  <2>2. steps' \in 0 .. MaxSteps
    BY <1>0, <1>6, AddSteps
  <2> QED BY <1>1, <1>2, <2>1, <2>2
<1>7. CASE TimePasses
  <2>1. /\ UNCHANGED <<config, events, historical, added, clock, steps, summaries>>
        /\ cutoff' \in cutoff + 1 .. clock
    BY <1>7 DEF TimePasses
  <2>2. cutoff' \in 0 .. clock
    BY <1>0, <2>1
  <2>3. ObjectEventSet' = ObjectEventSet
    BY <2>1 DEF ObjectEventSet
  <2> QED BY <2>1, <2>2, <2>3 DEF ObjectTypeOK, MaxSteps, MaxSummaries, EventLimit
<1>8. ASSUME NEW k, NEW summary, Replaces(k, summary), historical' \in Seq(ObjectEventSet')
      PROVE ObjectTypeOK'
  <2>1. /\ events' \in Seq(ObjectEventSet') /\ added \in Seq(ObjectEventSet') /\ Len(events') <= Len(events)
        /\ Len(events') \in Nat /\ Len(events) \in Nat
    BY <1>8, ReplacesFacts
  <2>2. /\ clock' = clock + 1 /\ summaries' = summaries + 1 /\ summaries < MaxSummaries
        /\ UNCHANGED <<config, added, cutoff, steps>>
    BY <1>8 DEF Replaces
  <2>3. MaxSteps' = MaxSteps /\ MaxSummaries' = MaxSummaries /\ EventLimit' = EventLimit
    BY <2>2 DEF MaxSteps, MaxSummaries, EventLimit
  <2>4. clock' \in Nat \ {0} /\ cutoff' \in 0 .. clock' /\ summaries' \in 0 .. MaxSummaries
    BY <1>0, <2>2
  <2>5. EventLimit > 0 => Len(events') <= EventLimit
    BY <1>0, <2>1 DEF ObjectTypeOK
  <2> QED BY <1>0, <1>8, <2>1, <2>2, <2>3, <2>4, <2>5 DEF ObjectTypeOK
<1>9. CASE Summarise
  <2> DEFINE k == KeptFrom(events, KeepCount, ByUserTurn)
  <2>1. /\ Replaces(k, Event("summary", 0))
        /\ historical' = IF KeepHistory THEN historical \o Upto(events, k - 1) ELSE historical
    BY <1>9, SummariseFacts
  <2> HIDE DEF k
  <2>2. historical \in Seq(ObjectEventSet') /\ Upto(events, k - 1) \in Seq(ObjectEventSet')
    BY <2>1, ReplacesFacts
  <2>3. historical' \in Seq(ObjectEventSet')
    BY <2>1, <2>2, ConcatProperties
  <2> QED BY <1>8, <2>1, <2>3
<1>10. CASE Compact
  <2> DEFINE b == Boundary(events, KeepCount)
             k == b + 1
             first == [Event("summary", 0) EXCEPT !.at = events[1].at]
  <2>1. Replaces(k, first) /\ historical' = historical \o Dropped(Upto(events, b), historical)
    BY <1>10, CompactFacts
  <2>2. b \in Int
    <3>1. KeepCount \in Nat /\ events \in Seq(ObjectEventSet) /\ b # 0
      BY <1>10, ConfTypes, CompactFacts DEF ObjectTypeOK
    <3>2. b \in 1 .. Len(events) /\ Len(events) \in Nat
      BY <3>1, BoundaryFacts
    <3> QED BY <3>2
  <2> HIDE DEF b, first
  <2>3. k - 1 = b
    BY <2>2
  <2> HIDE DEF k
  <2>4. historical \in Seq(ObjectEventSet') /\ Upto(events, k - 1) \in Seq(ObjectEventSet')
    BY <2>1, ReplacesFacts
  <2>5. Dropped(Upto(events, b), historical) \in Seq(ObjectEventSet')
    BY <2>3, <2>4, AmongFacts DEF Dropped
  <2>6. historical' \in Seq(ObjectEventSet')
    BY <2>1, <2>4, <2>5, ConcatProperties
  <2> QED BY <1>8, <2>1, <2>6
<1>11. CASE UNCHANGED objectVars
  BY <1>11 DEF objectVars, ObjectTypeOK, ObjectEventSet, MaxSteps, MaxSummaries, EventLimit
<1> QED BY <1>3, <1>4, <1>5, <1>6, <1>7, <1>9, <1>10, <1>11 DEF ObjectNext

\* The window, the history and the conversation hold events, and the window
\* never holds more than max_events of them (_apply_event_filtering).
THEOREM TypeCorrect == ObjectSpec => []ObjectTypeOK
<1>1. ObjectInit => ObjectTypeOK
  BY TypeInit
<1>2. ObjectTypeOK /\ [ObjectNext]_objectVars => ObjectTypeOK'
  BY TypeStep
<1> QED BY <1>1, <1>2, PTL DEF ObjectSpec

-----------------------------------------------------------------------------
(* Nothing is forgotten *)

\* History and window together hold no event twice, all their events are older
\* than the next, and with store_historical_events every event added is there.
Ledger ==
    /\ Distinct(historical \o events)
    /\ Ids(historical \o events) \subseteq 1 .. clock - 1
    /\ Ids(added) \subseteq 1 .. clock - 1
    /\ KeepHistory => Ids(added) \subseteq Ids(historical \o events)

\* A trim moves what it drops into the history, or forgets it.
LEMMA TrimLedger ==
  ASSUME NEW E, NEW h \in Seq(E), NEW s \in Seq(E), NEW e \in E, NEW r \in Seq(E),
         Distinct(h \o s), e.id \notin Ids(h \o s), Sublist(r, Append(s, e))
  PROVE /\ Distinct((h \o Dropped(Append(s, e), r)) \o r)
        /\ Ids((h \o Dropped(Append(s, e), r)) \o r) = Ids(h \o s) \cup {e.id}
        /\ Distinct(h \o r) /\ Ids(h \o r) \subseteq Ids(h \o s) \cup {e.id}
<1> DEFINE all == Append(s, e)
           d == Dropped(all, r)
<1>1. Distinct(h) /\ Distinct(s) /\ (\A x \in Ids(h) : x \notin Ids(s))
      /\ e.id \notin Ids(h) /\ e.id \notin Ids(s) /\ Ids(h \o s) = Ids(h) \cup Ids(s)
  BY ConcatIds
<1>2. all \in Seq(E) /\ Ids(all) = Ids(s) \cup {e.id} /\ Distinct(all)
  <2>1. all = s \o <<e>> /\ all \in Seq(E)
    BY AppendIsConcat, AppendProperties
  <2>2. <<e>> \in Seq(E) /\ Ids(<<e>>) = {e.id} /\ Distinct(<<e>>)
    BY OneId
  <2>3. /\ Ids(s \o <<e>>) = Ids(s) \cup Ids(<<e>>)
        /\ Distinct(s \o <<e>>) <=> /\ Distinct(s) /\ Distinct(<<e>>)
                                    /\ \A x \in Ids(s) : x \notin Ids(<<e>>)
    BY <2>2, ConcatIds
  <2> QED BY <1>1, <2>1, <2>2, <2>3
<1> HIDE DEF all
<1>3. d \in Seq(E) /\ Ids(d \o r) = Ids(all) /\ Distinct(d \o r)
  BY <1>2, KeptAndDropped DEF all
<1> HIDE DEF d
<1>4. /\ Ids(d) \cup Ids(r) = Ids(all) /\ Distinct(d) /\ Distinct(r)
      /\ \A x \in Ids(d) : x \notin Ids(r)
  BY <1>3, ConcatIds
<1>5. /\ h \o d \in Seq(E) /\ Ids(h \o d) = Ids(h) \cup Ids(d)
      /\ Distinct(h \o d) <=> Distinct(h) /\ Distinct(d) /\ \A x \in Ids(h) : x \notin Ids(d)
  BY <1>3, ConcatIds, ConcatProperties
<1>6. Distinct(h \o d)
  BY <1>1, <1>2, <1>4, <1>5
<1> DEFINE hd == h \o d
<1> HIDE DEF hd
<1>7. /\ Ids(hd \o r) = Ids(hd) \cup Ids(r)
      /\ Distinct(hd \o r) <=> Distinct(hd) /\ Distinct(r) /\ \A x \in Ids(hd) : x \notin Ids(r)
  BY <1>5, ConcatIds DEF hd
<1>8. Distinct(hd \o r) /\ Ids(hd \o r) = Ids(h \o s) \cup {e.id}
  BY <1>1, <1>2, <1>4, <1>5, <1>6, <1>7 DEF hd
<1>9. /\ Ids(h \o r) = Ids(h) \cup Ids(r)
      /\ Distinct(h \o r) <=> Distinct(h) /\ Distinct(r) /\ \A x \in Ids(h) : x \notin Ids(r)
  BY ConcatIds
<1>10. Distinct(h \o r) /\ Ids(h \o r) \subseteq Ids(h \o s) \cup {e.id}
  BY <1>1, <1>2, <1>4, <1>9
<1> QED BY <1>8, <1>10 DEF all, d, hd

\* A summary takes the place of the first events, which move into the history
\* or are forgotten.
LEMMA ReplaceLedger ==
  ASSUME NEW E, NEW h \in Seq(E), NEW s \in Seq(E), NEW k \in 1 .. Len(s) + 1, NEW e \in E,
         Distinct(h \o s), e.id \notin Ids(h \o s)
  PROVE LET r == <<e>> \o From(s, k)
        IN /\ Distinct((h \o Upto(s, k - 1)) \o r)
           /\ Ids((h \o Upto(s, k - 1)) \o r) = Ids(h \o s) \cup {e.id}
           /\ Distinct(h \o r) /\ Ids(h \o r) \subseteq Ids(h \o s) \cup {e.id}
<1> DEFINE f == From(s, k)
           u == Upto(s, k - 1)
           r == <<e>> \o f
           hu == h \o u
<1>1. Distinct(h) /\ Distinct(s) /\ (\A x \in Ids(h) : x \notin Ids(s))
      /\ e.id \notin Ids(h) /\ e.id \notin Ids(s) /\ Ids(h \o s) = Ids(h) \cup Ids(s)
  BY ConcatIds
<1>2. f \in Seq(E) /\ u \in Seq(E) /\ u \o f = s
  BY Halves
<1> HIDE DEF f, u
<1>3. /\ Ids(s) = Ids(u) \cup Ids(f) /\ Distinct(u) /\ Distinct(f)
      /\ \A x \in Ids(u) : x \notin Ids(f)
  <2>1. /\ Ids(u \o f) = Ids(u) \cup Ids(f)
        /\ Distinct(u \o f) <=> /\ Distinct(u) /\ Distinct(f)
                                /\ \A x \in Ids(u) : x \notin Ids(f)
    BY <1>2, ConcatIds
  <2> QED BY <1>1, <1>2, <2>1
<1>4. <<e>> \in Seq(E) /\ Ids(<<e>>) = {e.id} /\ Distinct(<<e>>)
  BY OneId
<1>5. r \in Seq(E) /\ Ids(r) = {e.id} \cup Ids(f) /\ Distinct(r)
  <2>1. /\ Ids(r) = Ids(<<e>>) \cup Ids(f)
        /\ Distinct(r) <=> /\ Distinct(<<e>>) /\ Distinct(f)
                          /\ \A x \in Ids(<<e>>) : x \notin Ids(f)
    BY <1>2, <1>4, ConcatIds
  <2>2. r \in Seq(E)
    BY <1>2, <1>4, ConcatProperties
  <2> QED BY <1>1, <1>3, <1>4, <2>1, <2>2
<1>6. hu \in Seq(E) /\ Ids(hu) = Ids(h) \cup Ids(u) /\ Distinct(hu)
  BY <1>1, <1>2, <1>3, ConcatIds, ConcatProperties
<1> HIDE DEF r, hu
<1>7. Distinct(hu \o r) /\ Ids(hu \o r) = Ids(h \o s) \cup {e.id}
  BY <1>1, <1>3, <1>5, <1>6, ConcatIds
<1>8. Distinct(h \o r) /\ Ids(h \o r) \subseteq Ids(h \o s) \cup {e.id}
  BY <1>1, <1>3, <1>5, ConcatIds
<1> QED BY <1>7, <1>8 DEF f, u, r, hu

LEMMA LedgerStep ==
  ASSUME ObjectTypeOK, Ledger, [ObjectNext]_objectVars
  PROVE Ledger'
<1>0. /\ clock \in Nat \ {0} /\ events \in Seq(ObjectEventSet) /\ historical \in Seq(ObjectEventSet)
      /\ added \in Seq(ObjectEventSet)
  BY DEF ObjectTypeOK
<1>1. /\ Distinct(historical \o events) /\ Ids(historical \o events) \subseteq 1 .. clock - 1
      /\ Ids(added) \subseteq 1 .. clock - 1
      /\ KeepHistory => Ids(added) \subseteq Ids(historical \o events)
  BY DEF Ledger
<1>2. clock \notin Ids(historical \o events) /\ 1 .. clock - 1 \subseteq 1 .. clock + 1 - 1 /\ clock \in 1 .. clock + 1 - 1
  BY <1>0, <1>1
<1>3. ASSUME NEW kind \in Kinds, NEW pair \in 0 .. clock, Recorded(Event(kind, pair))
      PROVE Ledger'
  <2> DEFINE e == Event(kind, pair)
             all == Append(events, e)
             E == ObjectEventSet'
  <2>1. /\ e \in E /\ events \in Seq(E) /\ historical \in Seq(E) /\ added \in Seq(E)
        /\ events' \in Seq(E) /\ Sublist(events', all)
        /\ historical' = IF KeepHistory THEN historical \o Dropped(all, events') ELSE historical
        /\ added' = Append(added, e)
        /\ clock' = clock + 1 /\ config' = config
    BY <1>3, RecordedFacts
  <2>2. e.id = clock
    BY DEF Event
  <2> HIDE DEF e, E
  <2>3. /\ Distinct((historical \o Dropped(all, events')) \o events')
        /\ Ids((historical \o Dropped(all, events')) \o events') = Ids(historical \o events) \cup {clock}
        /\ Distinct(historical \o events') /\ Ids(historical \o events') \subseteq Ids(historical \o events) \cup {clock}
    BY <1>1, <1>2, <2>1, <2>2, TrimLedger
  <2>4. Distinct(historical' \o events') /\ Ids(historical' \o events') \subseteq Ids(historical \o events) \cup {clock}
        /\ (KeepHistory => Ids(historical' \o events') = Ids(historical \o events) \cup {clock})
    BY <2>1, <2>3
  <2>5. Ids(added') = Ids(added) \cup {clock}
    <3>1. added' = added \o <<e>>
      BY <2>1, AppendIsConcat
    <3>2. <<e>> \in Seq(E) /\ Ids(<<e>>) = {clock}
      BY <2>1, <2>2, OneId
    <3> QED BY <2>1, <3>1, <3>2, ConcatIds
  <2>6. KeepHistory' = KeepHistory
    BY <2>1 DEF KeepHistory
  <2>7. Ids(historical' \o events') = Ids(historical \o events)'
    BY DEF Ids
  <2>8. 1 .. clock - 1 \subseteq 1 .. clock' - 1 /\ clock \in 1 .. clock' - 1
    BY <1>2, <2>1
  <2>9. Distinct(historical' \o events')
        /\ Ids(historical' \o events') \subseteq 1 .. clock' - 1
        /\ Ids(added') \subseteq 1 .. clock' - 1
        /\ (KeepHistory' => Ids(added') \subseteq Ids(historical' \o events'))
    BY <1>1, <2>4, <2>5, <2>6, <2>8
  <2> QED BY <2>9 DEF Ledger, Distinct, Ids
<1>4. {"user", "call", "result", "text"} \subseteq Kinds
  BY DEF Kinds
<1>5. ASSUME NEW k, NEW summary, Replaces(k, summary),
             \/ historical' = historical \o Upto(events, k - 1)
             \/ historical' = historical /\ ~KeepHistory
      PROVE Ledger'
  <2> DEFINE E == ObjectEventSet'
  <2>1. /\ events' = <<summary>> \o From(events, k) /\ k \in 1 .. Len(events) + 1
        /\ summary \in E /\ summary.id = clock /\ clock' = clock + 1 /\ added' = added /\ config' = config
    BY <1>0, <1>5 DEF Replaces
  <2>2. events \in Seq(E) /\ historical \in Seq(E)
    BY <1>5, ReplacesFacts
  <2> HIDE DEF E
  <2>3. /\ Distinct((historical \o Upto(events, k - 1)) \o events')
        /\ Ids((historical \o Upto(events, k - 1)) \o events') = Ids(historical \o events) \cup {clock}
        /\ Distinct(historical \o events')
        /\ Ids(historical \o events') \subseteq Ids(historical \o events) \cup {clock}
    BY <1>1, <1>2, <2>1, <2>2, ReplaceLedger
  <2>4. Distinct(historical' \o events') /\ Ids(historical' \o events') \subseteq Ids(historical \o events) \cup {clock}
        /\ (KeepHistory => Ids(historical' \o events') = Ids(historical \o events) \cup {clock})
    BY <1>5, <2>3
  <2>5. KeepHistory' = KeepHistory
    BY <2>1 DEF KeepHistory
  <2>6. 1 .. clock - 1 \subseteq 1 .. clock' - 1 /\ clock \in 1 .. clock' - 1
    BY <1>2, <2>1
  <2>7. Distinct(historical' \o events')
        /\ Ids(historical' \o events') \subseteq 1 .. clock' - 1
        /\ Ids(added') \subseteq 1 .. clock' - 1
        /\ (KeepHistory' => Ids(added') \subseteq Ids(historical' \o events'))
    BY <1>1, <2>1, <2>4, <2>5, <2>6
  <2> QED BY <2>7 DEF Ledger, Distinct, Ids
<1>6. CASE UserMessage \/ FunctionCall \/ FunctionResult \/ FinalText
  <2>1. \E kind \in Kinds, pair \in 0 .. clock : Recorded(Event(kind, pair))
    BY <1>4, <1>6, AddSteps DEF Adds
  <2> QED BY <1>3, <2>1
<1>7. CASE TimePasses
  <2>1. /\ events' = events /\ historical' = historical /\ added' = added
        /\ clock' = clock /\ KeepHistory' = KeepHistory
    BY <1>7 DEF TimePasses, KeepHistory
  <2>2. /\ Distinct(historical' \o events')
        /\ Ids(historical' \o events') \subseteq 1 .. clock' - 1
        /\ Ids(added') \subseteq 1 .. clock' - 1
        /\ (KeepHistory' => Ids(added') \subseteq Ids(historical' \o events'))
    BY <1>1, <2>1
  <2> QED BY <2>2 DEF Ledger, Distinct, Ids
<1>8. CASE Summarise
  <2> DEFINE k == KeptFrom(events, KeepCount, ByUserTurn)
  <2>1. /\ Replaces(k, Event("summary", 0))
        /\ historical' = IF KeepHistory THEN historical \o Upto(events, k - 1) ELSE historical
    BY <1>8, SummariseFacts
  <2> HIDE DEF k
  <2> QED BY <1>5, <2>1
<1>9. CASE Compact
  <2> DEFINE b == Boundary(events, KeepCount)
             k == b + 1
             first == [Event("summary", 0) EXCEPT !.at = events[1].at]
             u == Upto(events, b)
  <2>1. Replaces(k, first) /\ historical' = historical \o Dropped(u, historical)
    BY <1>9, CompactFacts
  <2>2. b \in 1 .. Len(events) /\ Len(events) \in Nat
    BY <1>0, <1>9, ConfTypes, CompactFacts, BoundaryFacts DEF ObjectTypeOK
  <2> HIDE DEF b, first
  <2>3. k - 1 = b /\ k \in 1 .. Len(events) + 1
    BY <2>2
  <2> HIDE DEF k
  <2>4. u \in Seq(ObjectEventSet) /\ Sublist(u, events)
    <3>1. Upto(events, k - 1) \in Seq(ObjectEventSet) /\ Sublist(Upto(events, k - 1), events)
      BY <1>0, <2>3, Halves
    <3> QED BY <2>3, <3>1
  <2> HIDE DEF u
  <2>5. Ids(u) \subseteq Ids(events)
    BY <1>0, <2>4, SublistIds
  <2>6. \A x \in Ids(historical) : x \notin Ids(events)
    BY <1>0, <1>1, ConcatIds
  <2>7. ToSet(u) \subseteq ToSet(u) \ ToSet(historical)
    BY <1>0, <2>4, <2>5, <2>6, IdsOf
  <2>8. Dropped(u, historical) = u
    BY <2>4, <2>7, AmongAll DEF Dropped
  <2>9. historical' = historical \o Upto(events, k - 1)
    BY <2>1, <2>3, <2>8 DEF u
  <2> QED BY <1>5, <2>1, <2>9
<1>10. CASE UNCHANGED objectVars
  <2>1. events' = events /\ historical' = historical /\ added' = added /\ clock' = clock
        /\ KeepHistory' = KeepHistory
    BY <1>10 DEF objectVars, KeepHistory
  <2>2. Distinct(historical' \o events')
        /\ Ids(historical' \o events') \subseteq 1 .. clock' - 1
        /\ Ids(added') \subseteq 1 .. clock' - 1
        /\ (KeepHistory' => Ids(added') \subseteq Ids(historical' \o events'))
    BY <1>1, <2>1
  <2> QED BY <2>2 DEF Ledger, Distinct, Ids
<1> QED BY <1>6, <1>7, <1>8, <1>9, <1>10 DEF ObjectNext

LEMMA LedgerInit == ObjectInit => Ledger
<1> SUFFICES ASSUME ObjectInit PROVE Ledger
  OBVIOUS
<1>1. historical \o events = <<>> /\ added = <<>> /\ DOMAIN <<>> = {}
  BY DEF ObjectInit
<1> QED BY <1>1 DEF Ledger, Distinct, Ids

\* An event whose identity is in a list without repetitions is there once.
LEMMA OnceInList ==
  ASSUME NEW E, NEW s \in Seq(E), Distinct(s), NEW x \in Ids(s)
  PROVE Cardinality({j \in DOMAIN s : s[j].id = x}) = 1
<1>1. PICK i \in DOMAIN s : x = s[i].id
  BY DEF Ids
<1>2. \A j \in DOMAIN s : s[j].id = x => j = i
  BY <1>1, DistinctEither
<1>3. {j \in DOMAIN s : s[j].id = x} = {i}
  BY <1>1, <1>2
<1> QED BY <1>3, FS_Singleton

LEMMA LedgerImplies == ObjectTypeOK /\ Ledger => NothingForgotten
<1> SUFFICES ASSUME ObjectTypeOK, Ledger, KeepHistory, NEW i \in DOMAIN added
             PROVE LET all == historical \o events
                   IN Cardinality({j \in DOMAIN all : all[j].id = added[i].id}) = 1
  BY DEF NothingForgotten
<1>1. historical \o events \in Seq(ObjectEventSet)
  BY ConcatProperties DEF ObjectTypeOK
<1>2. added[i].id \in Ids(historical \o events) /\ Distinct(historical \o events)
  BY DEF Ledger, Ids
<1> QED BY <1>1, <1>2, OnceInList

\* With store_historical_events, every event ever added to a session is in its
\* window or its history, exactly once, whatever the window, the TTL, the
\* summaries and the compactions of add_event, _compress and compact did.
THEOREM NothingIsForgotten == ObjectSpec => []NothingForgotten
<1>1. ObjectInit => ObjectTypeOK /\ Ledger
  BY TypeInit, LedgerInit
<1>2. ObjectTypeOK /\ Ledger /\ [ObjectNext]_objectVars => (ObjectTypeOK /\ Ledger)'
  BY TypeStep, LedgerStep
<1>3. ObjectTypeOK /\ Ledger => NothingForgotten
  BY LedgerImplies
<1> QED BY <1>1, <1>2, <1>3, PTL DEF ObjectSpec

-----------------------------------------------------------------------------
(* The window a model request is built from *)

OnlyLeads(s) == \A i \in DOMAIN s : s[i].kind = "summary" => i = 1

TimeOrdered(s) == \A i, j \in DOMAIN s : i < j => s[i].at < s[j].at

\* Both hold of the window, all of it is past, and without TTL no event expires.
Timeline ==
    /\ OnlyLeads(events)
    /\ Compaction # "default" => TimeOrdered(events)
    /\ \A i \in DOMAIN events : events[i].at < clock
    /\ ~Ttl => cutoff = 0

\* A sublist keeps them.
LEMMA SublistOrder ==
  ASSUME NEW E, NEW r \in Seq(E), NEW s \in Seq(E), Sublist(r, s)
  PROVE /\ OnlyLeads(s) => OnlyLeads(r)
        /\ TimeOrdered(s) => TimeOrdered(r)
        /\ \A i \in DOMAIN r : \E j \in DOMAIN s : r[i] = s[j]
<1>1. PICK f : Picks(f, r, s)
  BY DEF Sublist
<1>2. DOMAIN r = 1 .. Len(r) /\ DOMAIN s = 1 .. Len(s)
  OBVIOUS
<1>3. \A i \in DOMAIN r : f[i] \in DOMAIN s /\ r[i] = s[f[i]]
  BY <1>1, <1>2 DEF Picks
<1>4. \A i, j \in DOMAIN r : i < j => f[i] < f[j]
  BY <1>1, <1>2 DEF Picks
<1>5. ASSUME OnlyLeads(s), NEW i \in DOMAIN r, r[i].kind = "summary", i # 1 PROVE FALSE
  <2>1. f[i] = 1
    BY <1>3, <1>5 DEF OnlyLeads
  <2>2. 1 \in DOMAIN r /\ 1 < i
    BY <1>2, <1>5
  <2>3. f[1] \in DOMAIN s /\ f[1] < f[i]
    BY <1>3, <1>4, <2>2
  <2> QED BY <1>2, <2>1, <2>3
<1>6. ASSUME TimeOrdered(s) PROVE TimeOrdered(r)
  BY <1>3, <1>4, <1>6 DEF TimeOrdered
<1> QED BY <1>3, <1>5, <1>6 DEF OnlyLeads

\* An event that is later than all of the list extends it.
LEMMA AppendOrder ==
  ASSUME NEW E, NEW s \in Seq(E), NEW e \in E, e.kind # "summary"
  PROVE /\ OnlyLeads(s) => OnlyLeads(Append(s, e))
        /\ TimeOrdered(s) /\ (\A i \in DOMAIN s : s[i].at < e.at) => TimeOrdered(Append(s, e))
        /\ \A i \in DOMAIN Append(s, e) : \/ i \in DOMAIN s /\ Append(s, e)[i] = s[i]
                                          \/ Append(s, e)[i] = e
<1> DEFINE r == Append(s, e)
<1>1. /\ Len(s) \in Nat /\ DOMAIN s = 1 .. Len(s) /\ DOMAIN r = 1 .. Len(s) + 1
      /\ \A i \in 1 .. Len(s) : r[i] = s[i]
      /\ r[Len(s) + 1] = e
  BY AppendProperties
<1> HIDE DEF r
<1>2. \A i \in DOMAIN r : (i \in DOMAIN s /\ r[i] = s[i]) \/ (i = Len(s) + 1 /\ r[i] = e)
  BY <1>1
<1>3. OnlyLeads(s) => OnlyLeads(r)
  BY <1>2 DEF OnlyLeads
<1>4. ASSUME TimeOrdered(s), \A i \in DOMAIN s : s[i].at < e.at PROVE TimeOrdered(r)
  <2>1. ASSUME NEW i \in DOMAIN r, NEW j \in DOMAIN r, i < j PROVE r[i].at < r[j].at
    <3>1. i \in DOMAIN s /\ r[i] = s[i]
      BY <1>1, <1>2, <2>1
    <3>2. CASE j \in DOMAIN s /\ r[j] = s[j]
      BY <1>4, <2>1, <3>1, <3>2 DEF TimeOrdered
    <3>3. CASE r[j] = e
      BY <1>4, <3>1, <3>3
    <3> QED BY <1>2, <3>2, <3>3
  <2> QED BY <2>1 DEF TimeOrdered
<1> QED BY <1>2, <1>3, <1>4 DEF r

\* The events of the window are as old as the clock says.
LEMMA EventAt ==
  ASSUME ObjectTypeOK
  PROVE \A i \in DOMAIN events : events[i] \in ObjectEventSet /\ events[i].at \in 1 .. clock
<1>1. events \in Seq(ObjectEventSet)
  BY DEF ObjectTypeOK
<1>2. \A i \in DOMAIN events : events[i] \in ObjectEventSet
  BY <1>1
<1>3. \A e \in ObjectEventSet : e.at \in 1 .. clock
  BY DEF ObjectEventSet
<1> QED BY <1>2, <1>3

LEMMA TimelineStep ==
  ASSUME ObjectTypeOK, Timeline, [ObjectNext]_objectVars
  PROVE Timeline'
<1>0. clock \in Nat \ {0} /\ events \in Seq(ObjectEventSet)
  BY DEF ObjectTypeOK
<1>1. /\ OnlyLeads(events) /\ (Compaction # "default" => TimeOrdered(events))
      /\ (\A i \in DOMAIN events : events[i].at < clock) /\ (~Ttl => cutoff = 0)
  BY DEF Timeline
<1>2. ASSUME OnlyLeads(events'), Compaction # "default" => TimeOrdered(events'),
             \A i \in DOMAIN events' : events'[i].at < clock',
             config' = config, cutoff' = cutoff
      PROVE Timeline'
  <2>1. Compaction' = Compaction /\ Ttl' = Ttl
    BY <1>2 DEF Compaction, Ttl
  <2> QED BY <1>1, <1>2, <2>1 DEF Timeline, OnlyLeads, TimeOrdered
<1>3. ASSUME NEW kind \in Kinds \ {"summary"}, NEW pair \in 0 .. clock, Recorded(Event(kind, pair))
      PROVE Timeline'
  <2> DEFINE e == Event(kind, pair)
             E == ObjectEventSet'
             all == Append(events, e)
  <2>1. /\ e \in E /\ events \in Seq(E) /\ all \in Seq(E) /\ events' \in Seq(E) /\ Sublist(events', all)
        /\ clock' = clock + 1 /\ config' = config /\ cutoff' = cutoff
    BY <1>3, RecordedFacts
  <2>2. e.kind # "summary" /\ e.at = clock
    BY DEF Event
  <2> HIDE DEF e, E
  <2>3. /\ OnlyLeads(all) /\ (Compaction # "default" => TimeOrdered(all))
        /\ \A i \in DOMAIN all : (i \in DOMAIN events /\ all[i] = events[i]) \/ all[i] = e
    BY <1>1, <2>1, <2>2, AppendOrder
  <2>4. \A i \in DOMAIN events : events[i].at \in Int
    BY EventAt
  <2>5. \A i \in DOMAIN all : all[i].at < clock'
    BY <1>0, <1>1, <2>1, <2>2, <2>3, <2>4
  <2> HIDE DEF all
  <2>6. /\ OnlyLeads(events') /\ (Compaction # "default" => TimeOrdered(events'))
        /\ \A i \in DOMAIN events' : \E j \in DOMAIN all : events'[i] = all[j]
    BY <2>1, <2>3, SublistOrder
  <2>7. \A i \in DOMAIN events' : events'[i].at < clock'
    BY <2>5, <2>6
  <2> QED BY <1>2, <2>1, <2>6, <2>7
<1>4. {"user", "call", "result", "text"} \subseteq Kinds \ {"summary"}
  BY DEF Kinds
<1>5. ASSUME NEW k, NEW summary, Replaces(k, summary), summary.at \in 1 .. clock,
             Compaction # "default" => summary.at = events[1].at
      PROVE Timeline'
  <2>1. /\ k \in 2 .. Len(events) + 1 /\ summary \in ObjectEventSet' /\ summary.kind = "summary"
        /\ clock' = clock + 1 /\ config' = config /\ cutoff' = cutoff
    BY <1>5 DEF Replaces
  <2>2. /\ events' \in Seq(ObjectEventSet')
        /\ Len(events') = 1 + (Len(events) - k + 1)
        /\ events'[1] = summary
        /\ \A i \in 2 .. Len(events') : events'[i] = events[k + i - 2]
    BY <1>5, ReplacesFacts
  <2>3. Len(events) \in Nat /\ DOMAIN events = 1 .. Len(events) /\ DOMAIN events' = 1 .. Len(events')
        /\ Len(events') \in Nat
    BY <1>0, <2>2
  <2>4. \A i \in 2 .. Len(events') : k + i - 2 \in DOMAIN events /\ k + i - 2 > 1
    BY <2>1, <2>2, <2>3
  <2>5. \A i \in DOMAIN events' : i = 1 \/ i \in 2 .. Len(events')
    BY <2>3
  <2>6. OnlyLeads(events')
    <3>1. ASSUME NEW i \in 2 .. Len(events'), events'[i].kind = "summary" PROVE FALSE
      <4>1. events[k + i - 2].kind = "summary" /\ k + i - 2 \in DOMAIN events /\ k + i - 2 > 1
        BY <2>2, <2>4, <3>1
      <4> QED BY <1>1, <4>1 DEF OnlyLeads
    <3> QED BY <2>5, <3>1 DEF OnlyLeads
  <2>7. \A i \in DOMAIN events' : events'[i].at < clock'
    <3>1. summary.at < clock'
      BY <1>0, <1>5, <2>1
    <3>2. ASSUME NEW i \in 2 .. Len(events') PROVE events'[i].at < clock'
      <4>1. events'[i] = events[k + i - 2] /\ k + i - 2 \in DOMAIN events
        BY <2>2, <2>4
      <4>2. events[k + i - 2].at < clock /\ events[k + i - 2].at \in Int
        BY <1>0, <1>1, <4>1, EventAt
      <4> QED BY <1>0, <2>1, <4>1, <4>2
    <3> QED BY <2>2, <2>5, <3>1, <3>2
  <2>9. 1 \in DOMAIN events
    BY <2>1, <2>3
  <2>10. ASSUME Compaction # "default" PROVE TimeOrdered(events')
    <3>1. ASSUME NEW i \in DOMAIN events', NEW j \in DOMAIN events', i < j
          PROVE events'[i].at < events'[j].at
      <4>1. j \in 2 .. Len(events') /\ events'[j] = events[k + j - 2]
            /\ k + j - 2 \in DOMAIN events /\ k + j - 2 > 1
        BY <2>2, <2>3, <2>4, <3>1
      <4>2. CASE i = 1
        <5>1. events[1].at < events[k + j - 2].at
          BY <1>1, <2>9, <2>10, <4>1 DEF TimeOrdered
        <5> QED BY <1>5, <2>2, <2>10, <4>1, <4>2, <5>1
      <4>3. CASE i \in 2 .. Len(events')
        <5>1. events'[i] = events[k + i - 2] /\ k + i - 2 \in DOMAIN events
          BY <2>2, <2>4, <4>3
        <5>2. k + i - 2 < k + j - 2
          BY <2>1, <3>1, <4>1, <4>3
        <5> QED BY <1>1, <2>10, <4>1, <5>1, <5>2 DEF TimeOrdered
      <4> QED BY <2>5, <4>2, <4>3
    <3> QED BY <3>1 DEF TimeOrdered
  <2> QED BY <1>2, <2>1, <2>6, <2>7, <2>10
<1>6. CASE UserMessage \/ FunctionCall \/ FunctionResult \/ FinalText
  <2>1. \E kind \in Kinds \ {"summary"}, pair \in 0 .. clock : Recorded(Event(kind, pair))
    BY <1>4, <1>6, AddSteps DEF Adds
  <2> QED BY <1>3, <2>1
<1>7. CASE TimePasses
  BY <1>1, <1>7 DEF TimePasses, Timeline, OnlyLeads, TimeOrdered, Compaction, Ttl
<1>8. CASE Summarise
  <2> DEFINE k == KeptFrom(events, KeepCount, ByUserTurn)
  <2>1. Replaces(k, Event("summary", 0)) /\ Compaction = "default"
    BY <1>8, SummariseFacts
  <2>2. Event("summary", 0).at \in 1 .. clock
    BY <1>0 DEF Event
  <2> HIDE DEF k
  <2> QED BY <1>5, <2>1, <2>2
<1>9. CASE Compact
  <2> DEFINE b == Boundary(events, KeepCount)
             first == [Event("summary", 0) EXCEPT !.at = events[1].at]
  <2>1. Replaces(b + 1, first) /\ first.at = events[1].at /\ b # 0
    BY <1>9, CompactFacts
  <2>2. KeepCount \in Nat
    BY ConfTypes DEF ObjectTypeOK
  <2>3. b \in 1 .. Len(events)
    BY <1>0, <2>1, <2>2, BoundaryFacts
  <2> HIDE DEF b, first
  <2>4. 1 \in 1 .. Len(events)
    BY <1>0, <2>3
  <2>5. events[1].at \in 1 .. clock
    BY <1>0, <2>4, EventAt
  <2> QED BY <1>5, <2>1, <2>5
<1>10. CASE UNCHANGED objectVars
  BY <1>1, <1>10 DEF objectVars, Timeline, OnlyLeads, TimeOrdered, Compaction, Ttl
<1> QED BY <1>6, <1>7, <1>8, <1>9, <1>10 DEF ObjectNext

LEMMA TimelineInit == ObjectInit => Timeline
<1>1. DOMAIN <<>> = {}
  OBVIOUS
<1> QED BY <1>1 DEF ObjectInit, Timeline, OnlyLeads, TimeOrdered

-----------------------------------------------------------------------------
(* Whole turns *)

\* How far the current turn reaches back from its last event.
Behind ==
    CASE LastAdded = "text" -> 2 * steps + 1
      [] LastAdded = "call" -> 2 * steps - 1
      [] OTHER -> 2 * steps

\* Where whole turns fit: the window starts at an anchor, every result comes
\* right after its call, a call that waits for its result is the last event,
\* and an anchor is no further back than the current turn.
Whole ==
    /\ events # <<>> => IsAnchor(events[1])
    /\ Answered(events)
    /\ LastAdded = "call" => steps > 0 /\ events # <<>> /\ Last(events) = Last(added)
    /\ added # <<>> => \E i \in Anchors(events) : Len(events) - i <= Behind
    /\ added = <<>> => events = <<>>

\* An event that does not break the turns of s, appended under a window that
\* reaches back to the anchor i.
LEMMA ExtendTurn ==
  ASSUME NEW E, \A x \in E : x.at \in Nat, NEW s \in Seq(E), NEW e \in E, NEW n \in Nat,
         s # <<>> => IsAnchor(s[1]), s = <<>> => IsAnchor(e), Answered(s),
         e.kind = "result" => s # <<>> /\ Last(s).kind = "call" /\ Last(s).pair = e.pair,
         NEW i \in Anchors(Append(s, e)), n = 0 \/ Len(s) + 1 - i < n
  PROVE LET r == Retained(Append(s, e), 0, n)
        IN /\ r # <<>> /\ IsAnchor(r[1]) /\ Answered(r) /\ Last(r) = e
           /\ \E j \in Anchors(r) : Len(r) - j = Len(s) + 1 - i
<1> DEFINE all == Append(s, e)
           r == Retained(all, 0, n)
<1>1. /\ Len(s) \in Nat /\ all \in Seq(E) /\ Len(all) = Len(s) + 1
      /\ \A m \in 1 .. Len(s) : all[m] = s[m]
      /\ all[Len(s) + 1] = e
  BY AppendProperties
<1>2. i \in 1 .. Len(all) /\ IsAnchor(all[i]) /\ i \in Anchors(all)
  BY <1>1 DEF Anchors
<1>3. s = <<>> <=> Len(s) = 0
  BY EmptySeq
<1>4. IsAnchor(all[1])
  <2>1. CASE Len(s) = 0
    BY <1>1, <1>3, <2>1
  <2>2. CASE Len(s) > 0
    <3>1. 1 \in 1 .. Len(s)
      BY <1>1, <2>2
    <3> QED BY <1>1, <1>3, <2>2, <3>1
  <2> QED BY <1>1, <2>1, <2>2
<1>5. Answered(all)
  <2>1. ASSUME NEW j \in DOMAIN all, all[j].kind = "result"
        PROVE j > 1 /\ all[j - 1].kind = "call" /\ all[j - 1].pair = all[j].pair
    <3>1. CASE j \in 1 .. Len(s)
      <4>1. j \in DOMAIN s /\ s[j].kind = "result"
        BY <1>1, <2>1, <3>1
      <4>2. j > 1 /\ s[j - 1].kind = "call" /\ s[j - 1].pair = s[j].pair
        BY <4>1 DEF Answered
      <4>3. j - 1 \in 1 .. Len(s)
        BY <1>1, <3>1, <4>2
      <4> QED BY <1>1, <3>1, <4>2, <4>3
    <3>2. CASE j = Len(s) + 1
      <4>1. all[j] = e
        BY <1>1, <3>2
      <4>2. Len(s) > 0 /\ s[Len(s)].kind = "call" /\ s[Len(s)].pair = e.pair
        BY <1>1, <1>3, <2>1, <4>1 DEF Last
      <4>3. j - 1 = Len(s) /\ Len(s) \in 1 .. Len(s) /\ j > 1
        BY <1>1, <3>2, <4>2
      <4> QED BY <1>1, <4>1, <4>2, <4>3
    <3>3. j \in 1 .. Len(s) \/ j = Len(s) + 1
      BY <1>1
    <3> QED BY <3>1, <3>2, <3>3
  <2> QED BY <2>1 DEF Answered
<1> HIDE DEF all
<1>6. n = 0 \/ Len(all) - i < n
  BY <1>1, <1>2
<1>7. PICK k \in 1 .. i : r = From(all, k) /\ (k = 1 \/ k \in Anchors(all))
  BY <1>1, <1>2, <1>6, RetainedTail
<1>8. IsAnchor(all[k])
  BY <1>4, <1>7 DEF Anchors
<1>9. k \in 1 .. Len(all) + 1 /\ k \in 1 .. Len(all)
  BY <1>1, <1>2, <1>7
<1> HIDE DEF r
<1>10. /\ r \in Seq(E) /\ Len(r) = Len(all) - k + 1
       /\ \A m \in 1 .. Len(all) - k + 1 : r[m] = all[k + m - 1]
  BY <1>1, <1>7, <1>9, Halves
<1>11. Len(r) \in Nat /\ Len(r) >= 1 /\ DOMAIN r = 1 .. Len(r) /\ r # <<>>
  BY <1>1, <1>9, <1>10, EmptySeq
<1>12. IsAnchor(r[1])
  <2>1. 1 \in 1 .. Len(all) - k + 1 /\ k + 1 - 1 = k
    BY <1>1, <1>9
  <2> QED BY <1>8, <1>10, <2>1
<1>13. Last(r) = e
  <2>1. Len(r) \in 1 .. Len(all) - k + 1 /\ k + Len(r) - 1 = Len(s) + 1
    BY <1>1, <1>9, <1>10, <1>11
  <2> QED BY <1>1, <1>10, <2>1 DEF Last
<1>14. Answered(r)
  <2>1. ASSUME NEW j \in DOMAIN r, r[j].kind = "result"
        PROVE j > 1 /\ r[j - 1].kind = "call" /\ r[j - 1].pair = r[j].pair
    <3> DEFINE m == k + j - 1
    <3>0. DOMAIN all = 1 .. Len(all) /\ Len(all) \in Nat /\ k \in Int /\ j \in Int
      BY <1>1, <1>9, <1>11
    <3>1. j \in 1 .. Len(all) - k + 1 /\ m \in DOMAIN all /\ r[j] = all[m]
      <4>1. j \in 1 .. Len(all) - k + 1
        BY <1>10, <1>11
      <4>2. m \in 1 .. Len(all)
        BY <1>9, <3>0, <4>1
      <4> QED BY <1>10, <3>0, <4>1, <4>2
    <3>2. all[m].kind = "result"
      BY <2>1, <3>1
    <3>3. j # 1
      BY <1>12, <2>1 DEF IsAnchor
    <3>4. j - 1 \in 1 .. Len(all) - k + 1 /\ j > 1 /\ k + (j - 1) - 1 = m - 1
      BY <1>1, <1>9, <3>1, <3>3
    <3>5. r[j - 1] = all[m - 1]
      BY <1>10, <3>4
    <3> HIDE DEF m
    <3>6. all[m - 1].kind = "call" /\ all[m - 1].pair = all[m].pair
      BY <1>5, <3>1, <3>2 DEF Answered
    <3> QED BY <3>1, <3>4, <3>5, <3>6
  <2> QED BY <2>1 DEF Answered
<1>15. \E j \in Anchors(r) : Len(r) - j = Len(s) + 1 - i
  <2> DEFINE j == i - k + 1
  <2>1. j \in 1 .. Len(all) - k + 1 /\ k + j - 1 = i /\ Len(r) - j = Len(s) + 1 - i
    BY <1>1, <1>2, <1>7, <1>9, <1>10
  <2> HIDE DEF j
  <2>2. r[j] = all[i] /\ j \in DOMAIN r
    BY <1>10, <1>11, <2>1
  <2>3. j \in Anchors(r)
    BY <1>2, <2>2 DEF Anchors
  <2> QED BY <2>1, <2>3
<1> QED BY <1>11, <1>12, <1>13, <1>14, <1>15 DEF r, all

\* A summary in place of the events before k, where k is no result.
LEMMA ReplaceTurn ==
  ASSUME NEW k \in 2 .. Len(events) + 1, ObjectTypeOK, NEW r, Len(r) = 1 + (Len(events) - k + 1),
         DOMAIN r = 1 .. Len(r), IsAnchor(r[1]), 
         \A m \in 2 .. Len(r) : r[m] = events[k + m - 2],
         Answered(events), k <= Len(events) => events[k].kind # "result",
         NEW i \in Anchors(events)
  PROVE Answered(r) /\ \E j \in Anchors(r) : Len(r) - j <= Len(events) - i
<1>1. /\ Len(events) \in Nat /\ DOMAIN events = 1 .. Len(events)
      /\ i \in 1 .. Len(events) /\ IsAnchor(events[i])
  BY DEF ObjectTypeOK, Anchors
<1>2. Len(r) \in Nat /\ Len(r) >= 1 /\ k \in Int /\ \A j \in DOMAIN r : j \in Int
  BY <1>1
<1>3. Answered(r)
  <2>1. ASSUME NEW j \in DOMAIN r, r[j].kind = "result"
        PROVE j > 1 /\ r[j - 1].kind = "call" /\ r[j - 1].pair = r[j].pair
    <3> DEFINE m == k + j - 2
    <3>1. j # 1
      BY <2>1 DEF IsAnchor
    <3>0. j \in 2 .. Len(r)
      BY <1>2, <3>1
    <3>2. j \in 2 .. Len(r) /\ r[j] = events[m] /\ m \in DOMAIN events
      <4>1. m \in 1 .. Len(events)
        BY <1>1, <1>2, <3>0
      <4> QED BY <1>1, <3>0, <4>1
    <3>3. j # 2
      <4>1. ASSUME j = 2 PROVE FALSE
        <5>1. m = k /\ k <= Len(events)
          BY <1>1, <3>2, <4>1
        <5> QED BY <2>1, <3>2, <5>1
      <4> QED BY <4>1
    <3>4. j - 1 \in 2 .. Len(r) /\ k + (j - 1) - 2 = m - 1
      BY <1>2, <3>0, <3>3
    <3>5. r[j - 1] = events[m - 1]
      BY <3>4
    <3> HIDE DEF m
    <3>6. events[m - 1].kind = "call" /\ events[m - 1].pair = events[m].pair
      BY <2>1, <3>2 DEF Answered
    <3> QED BY <3>2, <3>5, <3>6
  <2> QED BY <2>1 DEF Answered
<1>4. CASE i >= k
  <2> DEFINE j == i - k + 2
  <2>1. j \in 2 .. Len(r) /\ k + j - 2 = i /\ Len(r) - j = Len(events) - i
    BY <1>1, <1>2, <1>4
  <2> HIDE DEF j
  <2>2. r[j] = events[i] /\ j \in DOMAIN r
    BY <1>2, <2>1
  <2>3. j \in Anchors(r) /\ Len(r) - j <= Len(events) - i
    BY <1>1, <1>2, <2>1, <2>2 DEF Anchors
  <2> QED BY <1>3, <2>3
<1>5. CASE i < k
  <2>1. 1 \in Anchors(r) /\ Len(r) - 1 <= Len(events) - i
    BY <1>1, <1>2, <1>5 DEF Anchors
  <2> QED BY <1>3, <2>1
<1>6. i >= k \/ i < k
  BY <1>1, <1>2
<1> QED BY <1>4, <1>5, <1>6

\* The kind of the event added last.
LEMMA LastAddedNext ==
  ASSUME ObjectTypeOK, NEW e, added' = Append(added, e)
  PROVE LastAdded' = e.kind /\ added' # <<>> /\ Last(added') = e
<1>1. added \in Seq(ObjectEventSet)
  BY DEF ObjectTypeOK
<1>2. added' # <<>> /\ Len(added') = Len(added) + 1 /\ added'[Len(added) + 1] = e
  BY <1>1
<1>3. Last(added') = e
  BY <1>2 DEF Last
<1> QED BY <1>2, <1>3 DEF LastAdded

\* The step of the conversation that adds e: the turn now reaches back d events.
LEMMA ExtendWhole ==
  ASSUME ObjectTypeOK, Timeline, Whole, TurnsFit,
         NEW kind \in {"user", "call", "result", "text"}, NEW pair \in 0 .. clock,
         Recorded(Event(kind, pair)),
         kind = "result" => LastAdded = "call" /\ pair = Last(added).pair,
         kind # "user" => added # <<>>,
         kind = "call" => steps' > 0,
         steps' \in 0 .. MaxSteps,
         Behind' \in Int, Behind' <= 2 * MaxSteps + 1,
         IF kind = "user" THEN Behind' = 0 ELSE Behind + 1 <= Behind' /\ Behind \in Int
  PROVE Whole'
<1> DEFINE e == Event(kind, pair)
           E == ObjectEventSet'
           all == Append(events, e)
<1>1. kind \in Kinds
  BY DEF Kinds
<1>2. /\ e \in E /\ events \in Seq(E) /\ all \in Seq(E) /\ added \in Seq(E)
      /\ events' = Retained(all, cutoff, EventLimit)
      /\ added' = Append(added, e) /\ clock' = clock + 1
  BY <1>1, RecordedFacts
<1>3. e.kind = kind /\ e.pair = pair
  BY DEF Event
<1>4. \A x \in E : x.at \in Nat
  BY <1>2 DEF ObjectEventSet, ObjectTypeOK
<1> HIDE DEF e, E
<1>5. LastAdded' = kind /\ added' # <<>> /\ Last(added') = e
  BY <1>2, <1>3, LastAddedNext
<1>6. Len(events) \in Nat /\ DOMAIN events = 1 .. Len(events) /\ (events = <<>> <=> Len(events) = 0)
  BY <1>2, EmptySeq
<1>7. Len(all) = Len(events) + 1 /\ DOMAIN all = 1 .. Len(events) + 1
      /\ (\A m \in 1 .. Len(events) : all[m] = events[m]) /\ all[Len(events) + 1] = e
  BY <1>2, AppendProperties
<1> HIDE DEF all
<1>8. PICK i \in Anchors(all) : Len(events) + 1 - i <= Behind'
  <2>1. CASE kind = "user"
    <3>1. Len(events) + 1 \in Anchors(all)
      BY <1>3, <1>6, <1>7, <2>1 DEF Anchors, IsAnchor
    <3>2. Len(events) + 1 - (Len(events) + 1) <= Behind'
      BY <1>6, <2>1
    <3> QED BY <3>1, <3>2
  <2>2. CASE kind # "user"
    <3>1. PICK j \in Anchors(events) : Len(events) - j <= Behind
      BY <2>2 DEF Whole
    <3>2. j \in 1 .. Len(events) /\ IsAnchor(events[j])
      BY <1>6, <3>1 DEF Anchors
    <3>3. j \in Anchors(all)
      BY <1>6, <1>7, <3>2 DEF Anchors
    <3>4. Len(events) + 1 - j <= Behind'
      BY <1>6, <2>2, <3>1, <3>2
    <3> QED BY <3>3, <3>4
  <2> QED BY <2>1, <2>2
<1>9. i \in 1 .. Len(events) + 1
  BY <1>7 DEF Anchors
<1>10. cutoff = 0
  BY DEF Timeline, TurnsFit
<1>11. EventLimit \in Nat /\ MaxSteps \in Nat /\ (EventLimit = 0 \/ EventLimit >= 2 + 2 * MaxSteps)
  BY ConfTypes DEF ObjectTypeOK, TurnsFit
<1>12. EventLimit = 0 \/ Len(events) + 1 - i < EventLimit
  BY <1>6, <1>8, <1>9, <1>11
<1>13. events = <<>> => IsAnchor(e)
  <2>1. CASE kind = "user"
    BY <1>3, <2>1 DEF IsAnchor
  <2>2. CASE kind # "user"
    <3>1. Anchors(events) # {}
      BY <2>2 DEF Whole
    <3> QED BY <1>6, <3>1 DEF Anchors
  <2> QED BY <2>1, <2>2
<1>14. e.kind = "result" => events # <<>> /\ Last(events).kind = "call" /\ Last(events).pair = e.pair
  <2>1. ASSUME kind = "result" PROVE events # <<>> /\ Last(events).kind = "call" /\ Last(events).pair = e.pair
    <3>1. LastAdded = "call" /\ pair = Last(added).pair
      BY <2>1
    <3>2. events # <<>> /\ Last(events) = Last(added)
      BY <3>1 DEF Whole
    <3>3. Last(added).kind = "call"
      BY <3>1 DEF LastAdded
    <3> QED BY <1>3, <3>1, <3>2, <3>3
  <2> QED BY <1>3, <2>1
<1>15. (events # <<>> => IsAnchor(events[1])) /\ Answered(events)
  BY DEF Whole
<1>16. /\ events' # <<>> /\ IsAnchor(events'[1]) /\ Answered(events') /\ Last(events') = e
       /\ \E j \in Anchors(events') : Len(events') - j = Len(events) + 1 - i
  <2> DEFINE r == Retained(Append(events, e), 0, EventLimit)
  <2>1. events' = r
    BY <1>2, <1>10 DEF all
  <2>2. i \in Anchors(Append(events, e)) /\ EventLimit \in Nat
    BY <1>8, <1>11 DEF all
  <2>3. /\ r # <<>> /\ IsAnchor(r[1]) /\ Answered(r) /\ Last(r) = e
        /\ \E j \in Anchors(r) : Len(r) - j = Len(events) + 1 - i
    BY <1>2, <1>4, <1>12, <1>13, <1>14, <1>15, <2>2, ExtendTurn
  <2> HIDE DEF r
  <2> QED BY <2>1, <2>3
<1>17. kind = "call" => steps' > 0 /\ events' # <<>> /\ Last(events') = Last(added')
  BY <1>5, <1>16
<1>18. \E j \in Anchors(events') : Len(events') - j <= Behind'
  BY <1>8, <1>16
<1> QED BY <1>5, <1>16, <1>17, <1>18 DEF Whole, Answered, Anchors, LastAdded, Last

\* A summary or a compaction that cuts at an event that is no result.
LEMMA ReplaceWhole ==
  ASSUME ObjectTypeOK, Whole, NEW k, NEW summary, Replaces(k, summary),
         LastAdded # "call", k <= Len(events) => events[k].kind # "result"
  PROVE Whole'
<1>1. /\ k \in 2 .. Len(events) + 1 /\ summary.kind = "summary"
      /\ added' = added /\ steps' = steps
  BY DEF Replaces
<1>2. /\ events' \in Seq(ObjectEventSet')
      /\ Len(events') = 1 + (Len(events) - k + 1)
      /\ events'[1] = summary
      /\ \A i \in 2 .. Len(events') : events'[i] = events[k + i - 2]
  BY ReplacesFacts
<1>3. Len(events) \in Nat /\ DOMAIN events' = 1 .. Len(events') /\ events # <<>>
  <2>1. Len(events) \in Nat /\ (events = <<>> => Len(events) = 0)
    BY EmptySeq DEF ObjectTypeOK
  <2> QED BY <1>1, <1>2, <2>1
<1>4. PICK i \in Anchors(events) : Len(events) - i <= Behind
  BY <1>3 DEF Whole
<1>5. IsAnchor(events'[1])
  BY <1>1, <1>2 DEF IsAnchor
<1>6. Answered(events)
  BY DEF Whole
<1> DEFINE r == events'
<1>7. Answered(r) /\ \E j \in Anchors(r) : Len(r) - j <= Len(events) - i
  <2> HIDE DEF r
  <2>1. /\ Len(r) = 1 + (Len(events) - k + 1) /\ DOMAIN r = 1 .. Len(r) /\ IsAnchor(r[1])
        /\ \A m \in 2 .. Len(r) : r[m] = events[k + m - 2]
    BY <1>2, <1>3, <1>5 DEF r
  <2> QED BY <1>1, <1>6, <2>1, ReplaceTurn
<1>8. LastAdded' = LastAdded /\ Behind' = Behind
  BY <1>1 DEF LastAdded, Behind
<1>9. \E j \in Anchors(events') : Len(events') - j <= Behind'
  <2>1. PICK j \in Anchors(events') : Len(events') - j <= Len(events) - i
    BY <1>7
  <2>2. j \in Int /\ i \in Int /\ Len(events') \in Int
    <3>1. j \in DOMAIN events' /\ i \in DOMAIN events
      BY <2>1 DEF Anchors
    <3>2. DOMAIN events = 1 .. Len(events)
      BY DEF ObjectTypeOK
    <3> QED BY <1>2, <1>3, <3>1, <3>2
  <2>3. Behind \in Int
    <3>1. steps \in Int
      BY ConfTypes DEF ObjectTypeOK
    <3> QED BY <3>1 DEF Behind
  <2>4. Len(events') - j <= Behind'
    BY <1>3, <1>4, <1>8, <2>1, <2>2, <2>3
  <2> QED BY <2>4
<1>10. added' # <<>>
  BY <1>1, <1>3 DEF Whole
<1> QED BY <1>5, <1>7, <1>8, <1>9, <1>10 DEF Whole, Answered, Anchors, LastAdded

LEMMA WholeStep ==
  ASSUME ObjectTypeOK, Timeline, TurnsFit, Whole, [ObjectNext]_objectVars
  PROVE Whole'
<1>0. /\ steps \in 0 .. MaxSteps /\ MaxSteps \in Nat /\ KeepCount \in Nat /\ ByUserTurn \in BOOLEAN
      /\ events \in Seq(ObjectEventSet) /\ Len(events) \in Nat
  BY ConfTypes DEF ObjectTypeOK
<1>1. ASSUME NEW kind, NEW pair \in 0 .. clock, Recorded(Event(kind, pair))
      PROVE LastAdded' = kind
  <2>1. added' = Append(added, Event(kind, pair))
    BY <1>1 DEF Recorded
  <2>2. Event(kind, pair).kind = kind
    BY DEF Event
  <2> QED BY <2>1, <2>2, LastAddedNext
<1>2. CASE UserMessage
  <2>1. PICK pair \in 0 .. clock : Recorded(Event("user", pair))
    BY <1>2, AddSteps DEF Adds
  <2>2. LastAdded' = "user" /\ steps' = 0
    BY <1>1, <1>2, <2>1, AddSteps
  <2>3. Behind' = 0
    BY <2>2 DEF Behind
  <2> QED BY <1>0, <2>1, <2>2, <2>3, ExtendWhole
<1>3. CASE FunctionCall
  <2>1. PICK pair \in 0 .. clock : Recorded(Event("call", pair))
    BY <1>3, AddSteps DEF Adds
  <2>2. LastAdded' = "call" /\ steps' = steps + 1 /\ steps < MaxSteps /\ LastAdded \in {"user", "result"}
    BY <1>1, <1>3, <2>1, AddSteps
  <2>3. Behind' = 2 * (steps + 1) - 1 /\ Behind = 2 * steps
    BY <2>2 DEF Behind
  <2>4. added # <<>>
    BY <2>2 DEF LastAdded
  <2>5. /\ Behind \in Int /\ Behind' \in Int /\ Behind + 1 <= Behind' /\ Behind' <= 2 * MaxSteps + 1
        /\ steps' > 0 /\ steps' \in 0 .. MaxSteps
    BY <1>0, <2>2, <2>3
  <2> QED BY <2>1, <2>4, <2>5, ExtendWhole
<1>4. CASE FunctionResult
  <2> DEFINE pair == Last(added).pair
  <2>1. Recorded(Event("result", pair)) /\ pair \in 0 .. clock /\ added # <<>>
        /\ LastAdded = "call" /\ steps' = steps
    BY <1>4, AddSteps
  <2>2. LastAdded' = "result"
    BY <1>1, <2>1
  <2>3. Behind' = 2 * steps /\ Behind = 2 * steps - 1
    BY <2>1, <2>2 DEF Behind
  <2>5. /\ Behind \in Int /\ Behind' \in Int /\ Behind + 1 <= Behind' /\ Behind' <= 2 * MaxSteps + 1
        /\ steps' \in 0 .. MaxSteps
    BY <1>0, <2>1, <2>3
  <2> QED BY <2>1, <2>5, ExtendWhole
<1>5. CASE FinalText
  <2>1. PICK pair \in 0 .. clock : Recorded(Event("text", pair))
    BY <1>5, AddSteps DEF Adds
  <2>2. LastAdded' = "text" /\ steps' = steps /\ LastAdded \in {"user", "result"}
    BY <1>1, <1>5, <2>1, AddSteps
  <2>3. Behind' = 2 * steps + 1 /\ Behind = 2 * steps
    BY <2>2 DEF Behind
  <2>4. added # <<>>
    BY <2>2 DEF LastAdded
  <2>5. /\ Behind \in Int /\ Behind' \in Int /\ Behind + 1 <= Behind' /\ Behind' <= 2 * MaxSteps + 1
        /\ steps' \in 0 .. MaxSteps
    BY <1>0, <2>2, <2>3
  <2> QED BY <2>1, <2>4, <2>5, ExtendWhole
<1>6. CASE TimePasses
  BY <1>6 DEF TimePasses, TurnsFit
<1>7. CASE Summarise
  <2> DEFINE k == KeptFrom(events, KeepCount, ByUserTurn)
  <2>1. Replaces(k, Event("summary", 0)) /\ Compaction = "default" /\ LastAdded = "text"
    BY <1>7, SummariseFacts
  <2>2. k \in 2 .. Len(events) + 1
    BY <2>1 DEF Replaces
  <2>3. events # <<>>
    BY <1>0, <2>2, EmptySeq
  <2>4. PICK i \in Anchors(events) : Len(events) - i <= Behind
    BY <2>3 DEF Whole
  <2>5. Behind = 2 * steps + 1
    BY <2>1 DEF Behind
  <2>6. i \in 1 .. Len(events)
    BY <1>0, <2>4 DEF Anchors
  <2>7. KeepCount = 0 \/ (ByUserTurn /\ Len(events) - i < KeepCount)
    BY <1>0, <2>1, <2>4, <2>5, <2>6 DEF TurnsFit
  <2>8. k \in Anchors(events) \cup {Len(events) + 1}
    BY <1>0, <2>4, <2>7, KeptFromTurn
  <2> HIDE DEF k
  <2>9. k <= Len(events) => events[k].kind # "result"
    BY <1>0, <2>8 DEF Anchors, IsAnchor
  <2> QED BY <2>1, <2>9, ReplaceWhole
<1>8. CASE Compact
  <2> DEFINE b == Boundary(events, KeepCount)
             k == b + 1
             first == [Event("summary", 0) EXCEPT !.at = events[1].at]
  <2>1. Replaces(k, first) /\ LastAdded \in {"user", "result"} /\ b # 0
    BY <1>8, CompactFacts
  <2>2. events # <<>>
    <3>1. b \in 1 .. Len(events)
      BY <1>0, <2>1, BoundaryFacts
    <3> QED BY <1>0, <3>1, EmptySeq
  <2>3. IsAnchor(events[1]) /\ Answered(events)
    BY <2>2 DEF Whole
  <2>4. k <= Len(events) => events[k].kind # "result"
    BY <1>0, <2>1, <2>3, BoundaryFacts
  <2> HIDE DEF k, first
  <2> QED BY <2>1, <2>4, ReplaceWhole
<1>9. CASE UNCHANGED objectVars
  <2>1. events' = events /\ added' = added /\ steps' = steps
    BY <1>9 DEF objectVars
  <2> QED BY <2>1 DEF Whole, Behind, LastAdded
<1> QED BY <1>2, <1>3, <1>4, <1>5, <1>6, <1>7, <1>8, <1>9 DEF ObjectNext

LEMMA WholeInit == ObjectInit => Whole
<1>1. DOMAIN <<>> = {}
  OBVIOUS
<1> QED BY <1>1 DEF ObjectInit, Whole, Answered, LastAdded

\* The inductive invariant of the window.
WindowInv ==
    /\ ObjectTypeOK
    /\ Timeline
    /\ TurnsFit => Whole

LEMMA WindowInvStep == WindowInv /\ [ObjectNext]_objectVars => WindowInv'
<1> SUFFICES ASSUME WindowInv, [ObjectNext]_objectVars PROVE WindowInv'
  OBVIOUS
<1>1. ObjectTypeOK /\ Timeline /\ ObjectTypeOK' /\ Timeline'
  BY TypeStep, TimelineStep DEF WindowInv
<1>2. config' = config
  BY DEF ObjectNext, objectVars, UserMessage, FunctionCall, FunctionResult, FinalText, Recorded,
         TimePasses, Summarise, Compact
<1>3. TurnsFit' = TurnsFit
  BY <1>2 DEF TurnsFit, Ttl, EventLimit, MaxSteps, Compaction, KeepCount, ByUserTurn
<1>4. TurnsFit => Whole'
  BY <1>1, WholeStep DEF WindowInv
<1> QED BY <1>1, <1>3, <1>4 DEF WindowInv

LEMMA WindowInvImplies == WindowInv => WindowCoherent
<1> SUFFICES ASSUME WindowInv PROVE WindowCoherent
  OBVIOUS
<1>1. SummaryLeads /\ TimestampOrder
  BY DEF WindowInv, Timeline, SummaryLeads, OnlyLeads, TimestampOrder, TimeOrdered
<1>2. ASSUME TurnsFit PROVE Coherent(events)
  <2>1. (events # <<>> => IsAnchor(events[1])) /\ Answered(events)
    BY <1>2 DEF WindowInv, Whole
  <2>2. ASSUME NEW j \in DOMAIN events, events[j].kind = "result"
        PROVE \E i \in 1 .. j - 1 : events[i].kind = "call" /\ events[i].pair = events[j].pair
    <3>1. j > 1 /\ events[j - 1].kind = "call" /\ events[j - 1].pair = events[j].pair
      BY <2>1, <2>2 DEF Answered
    <3>2. DOMAIN events = 1 .. Len(events)
      BY DEF WindowInv, ObjectTypeOK
    <3>3. j - 1 \in 1 .. j - 1
      BY <3>1, <3>2
    <3> QED BY <3>1, <3>3
  <2> QED BY <2>1, <2>2 DEF Coherent
<1> QED BY <1>1, <1>2 DEF WindowCoherent

\* A model request is built from a coherent window: where whole turns fit, it
\* starts at an anchor and no result is without its call; a summary is always
\* first; and without the default summariser the order is that of the
\* timestamps, which a store gives the events back in.
THEOREM WindowIsCoherent == ObjectSpec => []WindowCoherent
<1>1. ObjectInit => WindowInv
  BY TypeInit, TimelineInit, WholeInit DEF WindowInv
<1>2. WindowInv /\ [ObjectNext]_objectVars => WindowInv'
  BY WindowInvStep
<1>3. WindowInv => WindowCoherent
  BY WindowInvImplies
<1> QED BY <1>1, <1>2, <1>3, PTL DEF ObjectSpec

-----------------------------------------------------------------------------
(* The services: what the steps do to a session value *)

USE NoTurnAssumption

LEMMA ServiceConfTypes ==
  ASSUME conf \in Configs
  PROVE /\ conf.service \in {"memory", "redis", "sql"} /\ conf.turns \subseteq Turns
        /\ MaxAppends \in Nat /\ MaxClock \in Nat /\ MaxEvents \in Nat
        /\ NumRecent \in Nat /\ KeepRecent \in Nat
        /\ StoreHistorical \in BOOLEAN /\ TempDeltas \in BOOLEAN
        /\ Overlap \in BOOLEAN /\ Deferred \in BOOLEAN /\ conf.peeks \in BOOLEAN
        /\ Saves \subseteq {"summary", "compact", "cancel"}
BY ConfigsAssumption
   DEF MaxAppends, MaxClock, MaxEvents, NumRecent, KeepRecent, StoreHistorical,
       TempDeltas, Overlap, Deferred, Saves

LEMMA SessionFields ==
  ASSUME NEW s \in Sessions
  PROVE /\ s.events \in Seq(EventSet) /\ s.hist \in Seq(EventSet) /\ s.state \subseteq 0 .. now
        /\ s = [events |-> s.events, hist |-> s.hist, state |-> s.state]
BY DEF Sessions

\* Time only adds to the values a session may have.
LEMMA SessionsGrow ==
  ASSUME now \in Nat \ {0}, now' \in {now, now + 1}
  PROVE /\ EventSet \subseteq EventSet' /\ Sessions \subseteq Sessions'
        /\ \A s \in Seq(EventSet) : s \in Seq(EventSet')
        /\ 0 .. now \subseteq 0 .. now' /\ 1 .. now \subseteq 1 .. now'
        /\ now' \in Nat \ {0} /\ Empty \in Sessions
<1>1. 0 .. now \subseteq 0 .. now' /\ 1 .. now \subseteq 1 .. now' /\ now' \in Nat \ {0}
  OBVIOUS
<1>2. EventSet \subseteq EventSet'
  BY <1>1 DEF EventSet
<1>3. \A s \in Seq(EventSet) : s \in Seq(EventSet')
  BY <1>2
<1>4. Sessions \subseteq Sessions'
  BY <1>1, <1>3 DEF Sessions
<1>5. Empty \in Sessions
  BY DEF Empty, Sessions
<1> QED BY <1>1, <1>2, <1>3, <1>4, <1>5

LEMMA NewEvents ==
  ASSUME now \in Nat \ {0}, now' = now + 1, NEW t \in Turns
  PROVE /\ NewEvent(t) \in EventSet' /\ SummaryEvent \in EventSet'
        /\ NewEvent(t).id = now /\ NewEvent(t).at = now
        /\ NewEvent(t).kind \in {"user", "text"}
        /\ SummaryEvent.id = now /\ SummaryEvent.at = now /\ SummaryEvent.kind = "summary"
        /\ \A e \in EventSet : /\ [SummaryEvent EXCEPT !.at = e.at] \in EventSet'
                               /\ [SummaryEvent EXCEPT !.at = e.at].at = e.at
                               /\ [SummaryEvent EXCEPT !.at = e.at].id = now
                               /\ [SummaryEvent EXCEPT !.at = e.at].kind = "summary"
<1>1. now \in 1 .. now' /\ 0 \in {0} /\ 1 .. now \subseteq 1 .. now'
  OBVIOUS
<1>2. \A e \in EventSet : e.at \in 1 .. now'
  BY <1>1 DEF EventSet
<1>3. {"user", "text", "summary"} \subseteq Kinds
  BY DEF Kinds
<1>4. NewEvent(t) \in EventSet' /\ SummaryEvent \in EventSet'
  BY <1>1, <1>3 DEF NewEvent, SummaryEvent, EventSet
<1>5. \A e \in EventSet : /\ [SummaryEvent EXCEPT !.at = e.at] \in EventSet'
                          /\ [SummaryEvent EXCEPT !.at = e.at].at = e.at
                          /\ [SummaryEvent EXCEPT !.at = e.at].id = now
                          /\ [SummaryEvent EXCEPT !.at = e.at].kind = "summary"
  <2> SUFFICES ASSUME NEW e \in EventSet
               PROVE /\ [SummaryEvent EXCEPT !.at = e.at] \in EventSet'
                     /\ [SummaryEvent EXCEPT !.at = e.at].at = e.at
                     /\ [SummaryEvent EXCEPT !.at = e.at].id = now
                     /\ [SummaryEvent EXCEPT !.at = e.at].kind = "summary"
    OBVIOUS
  <2>1. [SummaryEvent EXCEPT !.at = e.at] = [id |-> now, at |-> e.at, pair |-> 0, kind |-> "summary"]
    BY DEF SummaryEvent
  <2> QED BY <1>1, <1>2, <1>3, <2>1 DEF EventSet
<1> QED BY <1>4, <1>5 DEF NewEvent, SummaryEvent

\* What the window drops and what it keeps are what there was.
LEMMA DroppedFacts ==
  ASSUME NEW E, NEW s \in Seq(E), NEW r \in Seq(E)
  PROVE /\ Dropped(s, r) \in Seq(E)
        /\ ToSet(Dropped(s, r)) = ToSet(s) \ ToSet(r)
        /\ Sublist(r, s) => ToSet(r) \subseteq ToSet(s)
<1>1. ToSet(s) \cap (ToSet(s) \ ToSet(r)) = ToSet(s) \ ToSet(r)
  OBVIOUS
<1> QED BY <1>1, AmongFacts, SublistElements DEF Dropped

LEMMA ToSetFacts ==
  ASSUME NEW E, NEW s \in Seq(E)
  PROVE /\ ToSet(s) \subseteq E /\ Ids(s) = {e.id : e \in ToSet(s)}
        /\ \A i \in 1 .. Len(s) : s[i] \in ToSet(s)
        /\ \A x \in ToSet(s) : \E i \in 1 .. Len(s) : x = s[i]
        /\ DOMAIN s = 1 .. Len(s) /\ Len(s) \in Nat
<1>1. DOMAIN s = 1 .. Len(s) /\ Len(s) \in Nat /\ \A i \in 1 .. Len(s) : s[i] \in E
  OBVIOUS
<1> QED BY <1>1 DEF ToSet, Ids

LEMMA AppendSet ==
  ASSUME NEW E, NEW s \in Seq(E), NEW e \in E
  PROVE Append(s, e) \in Seq(E) /\ ToSet(Append(s, e)) = ToSet(s) \cup {e}
<1>1. /\ Append(s, e) \in Seq(E) /\ DOMAIN Append(s, e) = 1 .. Len(s) + 1
      /\ Append(s, e)[Len(s) + 1] = e /\ Len(s) \in Nat /\ DOMAIN s = 1 .. Len(s)
      /\ \A i \in 1 .. Len(s) : Append(s, e)[i] = s[i]
  OBVIOUS
<1>2. 1 .. Len(s) + 1 = (1 .. Len(s)) \cup {Len(s) + 1}
  BY <1>1
<1> QED BY <1>1, <1>2 DEF ToSet

LEMMA ConcatSet ==
  ASSUME NEW E, NEW s \in Seq(E), NEW r \in Seq(E)
  PROVE s \o r \in Seq(E) /\ ToSet(s \o r) = ToSet(s) \cup ToSet(r)
<1>1. /\ s \o r \in Seq(E) /\ Len(s) \in Nat /\ Len(r) \in Nat
      /\ DOMAIN (s \o r) = 1 .. Len(s) + Len(r)
      /\ DOMAIN r = 1 .. Len(r) /\ DOMAIN s = 1 .. Len(s)
      /\ \A i \in 1 .. Len(s) : (s \o r)[i] = s[i]
  OBVIOUS
<1>2. \A i \in 1 .. Len(r) : (s \o r)[Len(s) + i] = r[i] /\ Len(s) + i \in 1 .. Len(s) + Len(r)
  BY <1>1
<1>3. ToSet(s) \cup ToSet(r) \subseteq ToSet(s \o r)
  <2>1. 1 .. Len(s) \subseteq 1 .. Len(s) + Len(r)
    BY <1>1
  <2> QED BY <1>1, <1>2, <2>1 DEF ToSet
<1>4. ASSUME NEW x \in ToSet(s \o r) PROVE x \in ToSet(s) \cup ToSet(r)
  <2>1. PICK i \in 1 .. Len(s) + Len(r) : x = (s \o r)[i]
    BY <1>1 DEF ToSet
  <2>2. CASE i <= Len(s)
    BY <1>1, <2>1, <2>2 DEF ToSet
  <2>3. CASE i > Len(s)
    <3>1. i - Len(s) \in 1 .. Len(r) /\ Len(s) + (i - Len(s)) = i
      BY <1>1, <2>3
    <3>2. x = r[i - Len(s)]
      BY <1>2, <2>1, <3>1
    <3> QED BY <1>1, <3>1, <3>2 DEF ToSet
  <2> QED BY <1>1, <2>2, <2>3
<1> QED BY <1>1, <1>3, <1>4

\* append_event on a copy: the event is added, what the window drops goes to
\* the history if one is kept.
LEMMA WithEventFacts ==
  ASSUME conf \in Configs, now \in Nat \ {0}, now' = now + 1,
         NEW s \in Sessions, NEW e \in EventSet', e.id \in 1 .. now'
  PROVE LET all == Append(s.events, e)
            w == WithEvent(s, e)
            out == Dropped(all, Retained(all, 0, MaxEvents))
        IN /\ w \in Sessions' /\ all \in Seq(EventSet') /\ out \in Seq(EventSet')
           /\ w.events = Retained(all, 0, MaxEvents) /\ Sublist(w.events, all)
           /\ MaxEvents = 0 => w.events = all
           /\ ToSet(all) = ToSet(s.events) \cup {e} /\ ToSet(w.events) \subseteq ToSet(all)
           /\ ToSet(out) = ToSet(all) \ ToSet(w.events)
           /\ Ids(s.hist) \subseteq Ids(w.hist)
           /\ IF StoreHistorical THEN Ids(out) \subseteq Ids(w.hist) ELSE w.hist = s.hist
           /\ w.state \ {Temp} = (s.state \ {Temp}) \cup {e.id}
<1> DEFINE all == Append(s.events, e)
           w == WithEvent(s, e)
           kept == Retained(all, 0, MaxEvents)
           out == Dropped(all, kept)
<1>1. s \in Sessions' /\ now' \in Nat \ {0}
  BY SessionsGrow
<1>2. s.events \in Seq(EventSet') /\ s.hist \in Seq(EventSet') /\ s.state \subseteq 0 .. now'
  BY <1>1 DEF Sessions
<1>3. MaxEvents \in Nat /\ StoreHistorical \in BOOLEAN
  BY ServiceConfTypes
<1>4. all \in Seq(EventSet') /\ ToSet(all) = ToSet(s.events) \cup {e}
  BY <1>2, AppendSet
<1> HIDE DEF all
<1>5. kept \in Seq(EventSet') /\ Sublist(kept, all)
  BY <1>3, <1>4, RetainedFacts
<1>6. MaxEvents = 0 => kept = all
  BY DEF Retained
<1> HIDE DEF kept
<1>7. out \in Seq(EventSet') /\ ToSet(out) = ToSet(all) \ ToSet(kept) /\ ToSet(kept) \subseteq ToSet(all)
  BY <1>4, <1>5, DroppedFacts
<1> HIDE DEF out
<1>8. /\ w.events = kept
      /\ w.hist = IF StoreHistorical THEN s.hist \o out ELSE s.hist
      /\ w.state = s.state \cup {e.id} \cup IF TempDeltas THEN {Temp} ELSE {}
      /\ w = [events |-> w.events, hist |-> w.hist, state |-> w.state]
  BY DEF WithEvent, all, kept, out
<1> HIDE DEF w
<1>9. s.hist \o out \in Seq(EventSet') /\ Ids(s.hist \o out) = Ids(s.hist) \cup Ids(out)
  BY <1>2, <1>7, ConcatIds, ConcatSet
<1>10. w.hist \in Seq(EventSet')
  BY <1>2, <1>3, <1>8, <1>9
<1>11. w.state \subseteq 0 .. now'
  <2>1. Temp \in 0 .. now' /\ e.id \in 0 .. now'
    BY <1>1 DEF Temp
  <2> QED BY <1>2, <1>8, <2>1
<1>12. w \in Sessions'
  BY <1>5, <1>8, <1>10, <1>11 DEF Sessions
<1>13. w.state \ {Temp} = (s.state \ {Temp}) \cup {e.id}
  <2>1. e.id # Temp
    BY DEF Temp
  <2> QED BY <1>8, <2>1
<1>14. Ids(s.hist) \subseteq Ids(w.hist) /\ IF StoreHistorical THEN Ids(out) \subseteq Ids(w.hist) ELSE w.hist = s.hist
  BY <1>8, <1>9
<1> QED BY <1>4, <1>5, <1>6, <1>7, <1>8, <1>12, <1>13, <1>14 DEF all, kept, out, w

\* A summary in the place of the first events, which go to the history.
LEMMA SummaryFacts ==
  ASSUME now \in Nat \ {0}, now' = now + 1, NEW s \in Sessions,
         NEW k \in 1 .. Len(s.events) + 1, NEW summary \in EventSet', NEW keep \in BOOLEAN
  PROVE /\ Summary(s, k, summary, keep) \in Sessions'
        /\ Summary(s, k, summary, keep).events = <<summary>> \o From(s.events, k)
        /\ Summary(s, k, summary, keep).state = s.state
        /\ \A e : e \in ToSet(Summary(s, k, summary, keep).events)
                  <=> e = summary \/ e \in ToSet(From(s.events, k))
        /\ ToSet(s.events) = ToSet(Upto(s.events, k - 1)) \cup ToSet(From(s.events, k))
        /\ Upto(s.events, k - 1) \in Seq(EventSet) /\ From(s.events, k) \in Seq(EventSet)
        /\ Sublist(From(s.events, k), s.events)
        /\ Ids(s.hist) \subseteq Ids(Summary(s, k, summary, keep).hist)
        /\ keep => Ids(Upto(s.events, k - 1)) \subseteq Ids(Summary(s, k, summary, keep).hist)
        /\ ~keep => Summary(s, k, summary, keep).hist = s.hist
<1> DEFINE r == Summary(s, k, summary, keep)
           gone == Upto(s.events, k - 1)
           left == From(s.events, k)
           rest == Dropped(gone, s.hist)
<1>1. s.events \in Seq(EventSet) /\ s.hist \in Seq(EventSet) /\ s.state \subseteq 0 .. now
      /\ s = [events |-> s.events, hist |-> s.hist, state |-> s.state]
  BY SessionFields
<1>2. /\ gone \in Seq(EventSet) /\ left \in Seq(EventSet) /\ gone \o left = s.events
      /\ Sublist(left, s.events)
  BY <1>1, Halves
<1> HIDE DEF gone, left, rest, r
<1>0. \A E : \A x, y \in Seq(E) : x \o y \in Seq(E) /\ ToSet(x \o y) = ToSet(x) \cup ToSet(y)
  BY ConcatSet
<1>3. ToSet(s.events) = ToSet(gone) \cup ToSet(left)
  <2>1. gone \in Seq(EventSet) /\ left \in Seq(EventSet)
    BY <1>2
  <2>2. ToSet(gone \o left) = ToSet(gone) \cup ToSet(left)
    BY <1>0, <2>1
  <2> QED BY <1>2, <2>2
<1>4. /\ \A x \in Seq(EventSet) : x \in Seq(EventSet')
      /\ 0 .. now \subseteq 0 .. now'
  BY SessionsGrow
<1>5. <<summary>> \in Seq(EventSet') /\ ToSet(<<summary>>) = {summary}
  <2>1. <<summary>> \in Seq(EventSet') /\ DOMAIN <<summary>> = {1} /\ <<summary>>[1] = summary
    OBVIOUS
  <2> QED BY <2>1 DEF ToSet
<1>6. <<summary>> \o left \in Seq(EventSet') /\ ToSet(<<summary>> \o left) = {summary} \cup ToSet(left)
  <2>1. left \in Seq(EventSet')
    BY <1>2, <1>4
  <2>2. <<summary>> \in Seq(EventSet')
    BY <1>5
  <2>3. /\ <<summary>> \o left \in Seq(EventSet')
        /\ ToSet(<<summary>> \o left) = ToSet(<<summary>>) \cup ToSet(left)
    BY <1>0, <2>1, <2>2
  <2> QED BY <1>5, <2>3
<1>7. /\ r.events = <<summary>> \o left /\ r.state = s.state
      /\ r.hist = IF keep THEN s.hist \o rest ELSE s.hist
      /\ r = [events |-> r.events, hist |-> r.hist, state |-> r.state]
  <2> DEFINE ev == <<summary>> \o left
             hi == IF keep THEN s.hist \o rest ELSE s.hist
  <2>1. r = [s EXCEPT !.events = ev, !.hist = hi]
    BY DEF Summary, gone, left, rest, r
  <2> HIDE DEF ev, hi
  <2>2. r = [events |-> ev, hist |-> hi, state |-> s.state]
    BY <1>1, <2>1
  <2> QED BY <2>2 DEF ev, hi
<1>8. rest \in Seq(EventSet) /\ ToSet(rest) = ToSet(gone) \ ToSet(s.hist)
  BY <1>1, <1>2, DroppedFacts DEF rest
<1>9. s.hist \o rest \in Seq(EventSet) /\ Ids(s.hist \o rest) = Ids(s.hist) \cup Ids(rest)
  BY <1>1, <1>8, ConcatIds, ConcatSet
<1>10. Ids(gone) \subseteq Ids(s.hist) \cup Ids(rest)
  <2>1. Ids(gone) = {e.id : e \in ToSet(gone)} /\ Ids(s.hist) = {e.id : e \in ToSet(s.hist)}
        /\ Ids(rest) = {e.id : e \in ToSet(rest)}
    BY <1>1, <1>2, <1>8, ToSetFacts
  <2> QED BY <1>8, <2>1
<1>11. r.hist \in Seq(EventSet') /\ r.state \subseteq 0 .. now'
  BY <1>1, <1>4, <1>7, <1>9
<1>12. r \in Sessions'
  BY <1>6, <1>7, <1>11 DEF Sessions
<1> QED BY <1>2, <1>3, <1>6, <1>7, <1>9, <1>10, <1>12 DEF r, gone, left

-----------------------------------------------------------------------------
(* Rows in the order of their timestamps *)

OneAtATime(R) == \A d, e \in R : d.at = e.at => d = e

LEMMA FiniteToSet ==
  ASSUME NEW E, NEW s \in Seq(E)
  PROVE IsFiniteSet(ToSet(s))
<1>1. s \in Surjection(1 .. Len(s), ToSet(s))
  <2>1. s \in [1 .. Len(s) -> ToSet(s)]
    BY DEF ToSet
  <2> QED BY <2>1, ToSetFacts DEF Surjection
<1>2. IsFiniteSet(1 .. Len(s))
  BY FS_Interval
<1> QED BY <1>1, <1>2, FS_Surjection

\* A query by timestamp returns every row once, in order.
LEMMA InTimeOrderFacts ==
  ASSUME NEW R, NEW E, R \subseteq E, \A e \in E : e.at \in Nat, IsFiniteSet(R), OneAtATime(R)
  PROVE /\ InTimeOrder(R) \in Seq(E) /\ ToSet(InTimeOrder(R)) = R
        /\ \A i, j \in DOMAIN InTimeOrder(R) :
              i < j => InTimeOrder(R)[i].at < InTimeOrder(R)[j].at
<1> DEFINE n == Cardinality(R)
           Before(e) == {d \in R : d.at < e.at}
           rank == [e \in R |-> Cardinality(Before(e))]
           q == InTimeOrder(R)
<1>1. n \in Nat
  BY FS_CardinalityType
<1>2. \A e \in R : IsFiniteSet(Before(e)) /\ Cardinality(Before(e)) \in 0 .. n - 1
  <2> SUFFICES ASSUME NEW e \in R
               PROVE IsFiniteSet(Before(e)) /\ Cardinality(Before(e)) \in 0 .. n - 1
    OBVIOUS
  <2>1. Before(e) \in SUBSET R /\ e \notin Before(e)
    OBVIOUS
  <2> HIDE DEF Before
  <2>2. /\ IsFiniteSet(Before(e)) /\ Cardinality(Before(e)) <= n
        /\ n = Cardinality(Before(e)) => R = Before(e)
    BY <2>1, FS_Subset
  <2>3. Cardinality(Before(e)) \in Nat
    BY <2>2, FS_CardinalityType
  <2> HIDE DEF n
  <2> QED BY <1>1, <2>1, <2>2, <2>3
<1> HIDE DEF n, Before
<1>3. \A d, e \in R : d.at < e.at => Cardinality(Before(d)) < Cardinality(Before(e))
  <2> SUFFICES ASSUME NEW d \in R, NEW e \in R, d.at < e.at
               PROVE Cardinality(Before(d)) < Cardinality(Before(e))
    OBVIOUS
  <2>0. \A x \in R : x.at \in Nat
    <3>1. \A x \in R : x \in E
      OBVIOUS
    <3> QED BY <3>1
  <2>1. Before(d) \in SUBSET Before(e) /\ d \in Before(e) /\ d \notin Before(d)
    <3>1. d.at \in Nat /\ e.at \in Nat /\ d.at < e.at
      BY <2>0
    <3>2. ASSUME NEW x \in Before(d) PROVE x \in Before(e)
      <4>1. x \in R /\ x.at \in Nat /\ x.at < d.at
        BY <2>0, <3>2 DEF Before
      <4>2. x.at < e.at
        BY <3>1, <4>1
      <4> QED BY <4>1, <4>2 DEF Before
    <3>3. d \in Before(e) /\ d \notin Before(d)
      BY <3>1 DEF Before
    <3> QED BY <3>2, <3>3
  <2>2. /\ IsFiniteSet(Before(e)) /\ Cardinality(Before(e)) \in Nat
        /\ Cardinality(Before(d)) \in Nat
    BY <1>1, <1>2
  <2>3. /\ Cardinality(Before(d)) <= Cardinality(Before(e))
        /\ Cardinality(Before(e)) = Cardinality(Before(d)) => Before(e) = Before(d)
    BY <2>1, <2>2, FS_Subset
  <2> QED BY <2>1, <2>2, <2>3
<1>15. \A e \in R : rank[e] = Cardinality(Before(e))
  OBVIOUS
<1>4. \A d, e \in R : rank[d] = rank[e] => d = e
  <2> SUFFICES ASSUME NEW d \in R, NEW e \in R, rank[d] = rank[e] PROVE d = e
    OBVIOUS
  <2>1. rank[d] = Cardinality(Before(d)) /\ rank[e] = Cardinality(Before(e))
    BY <1>15
  <2>2. Cardinality(Before(d)) \in Nat /\ Cardinality(Before(e)) \in Nat
    BY <1>1, <1>2
  <2>3. d.at \in Nat /\ e.at \in Nat
    <3>1. d \in E /\ e \in E
      OBVIOUS
    <3> QED BY <3>1
  <2>4. ~(d.at < e.at) /\ ~(e.at < d.at)
    <3>1. Cardinality(Before(d)) = Cardinality(Before(e))
      BY <2>1
    <3> QED BY <1>3, <2>2, <3>1
  <2>5. d.at = e.at
    BY <2>3, <2>4
  <2> QED BY <2>5 DEF OneAtATime
<1>5. rank \in [R -> 0 .. n - 1]
  BY <1>2
<1>6. Cardinality(0 .. n - 1) = n /\ IsFiniteSet(0 .. n - 1)
  BY <1>1, FS_Interval
<1>7. rank \in Surjection(R, 0 .. n - 1)
  <2>1. rank \in Injection(R, 0 .. n - 1)
    BY <1>4, <1>5 DEF Injection, IsInjective
  <2>2. Cardinality(R) = n
    BY DEF n
  <2> HIDE DEF rank
  <2> QED BY <1>6, <2>1, <2>2, FS_Injection
<1>8. \A i \in 0 .. n - 1 : \E e \in R : Cardinality(Before(e)) = i
  <2>1. \A i \in 0 .. n - 1 : \E e \in R : rank[e] = i
    BY <1>7 DEF Surjection
  <2> QED BY <1>15, <2>1
<1>9. q = [i \in 1 .. n |-> CHOOSE e \in R : Cardinality(Before(e)) = i - 1]
  BY DEF InTimeOrder, Before, n
<1> HIDE DEF q
<1>10. \A i \in 1 .. n : q[i] \in R /\ Cardinality(Before(q[i])) = i - 1
  <2> SUFFICES ASSUME NEW i \in 1 .. n
               PROVE q[i] \in R /\ Cardinality(Before(q[i])) = i - 1
    OBVIOUS
  <2>1. q[i] = CHOOSE e \in R : Cardinality(Before(e)) = i - 1
    BY <1>9
  <2>2. \E e \in R : Cardinality(Before(e)) = i - 1
    <3>1. i - 1 \in 0 .. n - 1
      BY <1>1
    <3> QED BY <1>8, <3>1
  <2> QED BY <2>1, <2>2
<1>11. DOMAIN q = 1 .. n
  BY <1>9
<1>12. q \in Seq(E)
  <2>1. q \in [1 .. n -> E]
    BY <1>9, <1>10
  <2> QED BY <1>1, <2>1
<1>13. ToSet(q) = R
  <2>1. ToSet(q) \subseteq R
    BY <1>10, <1>11 DEF ToSet
  <2>2. ASSUME NEW e \in R PROVE e \in ToSet(q)
    <3>1. Cardinality(Before(e)) + 1 \in 1 .. n
      <4>1. Cardinality(Before(e)) \in 0 .. n - 1
        BY <1>2
      <4> QED BY <1>1, <4>1
    <3>2. PICK i \in 1 .. n : i = Cardinality(Before(e)) + 1
      BY <3>1
    <3>3. q[i] \in R /\ Cardinality(Before(q[i])) = i - 1
      BY <1>10
    <3>4. Cardinality(Before(e)) \in Nat
      BY <1>1, <1>2
    <3>5. rank[q[i]] = Cardinality(Before(q[i])) /\ rank[e] = Cardinality(Before(e))
      BY <1>15, <3>3
    <3> HIDE DEF rank
    <3>6. rank[q[i]] = rank[e]
      BY <3>2, <3>3, <3>4, <3>5
    <3>7. q[i] = e
      BY <1>4, <3>3, <3>6
    <3> QED BY <1>11, <3>7 DEF ToSet
  <2> QED BY <2>1, <2>2
<1>14. \A i, j \in 1 .. n : i < j => q[i].at < q[j].at
  <2> SUFFICES ASSUME NEW i \in 1 .. n, NEW j \in 1 .. n, i < j PROVE q[i].at < q[j].at
    OBVIOUS
  <2>1. /\ q[i] \in R /\ Cardinality(Before(q[i])) = i - 1
        /\ q[j] \in R /\ Cardinality(Before(q[j])) = j - 1
    BY <1>10
  <2>2. q[i].at \in Nat /\ q[j].at \in Nat /\ i \in Nat /\ j \in Nat
    BY <1>1, <2>1
  <2> HIDE DEF rank
  <2>3. ~(q[j].at < q[i].at)
    BY <1>3, <2>1, <2>2
  <2>4. q[i].at # q[j].at
    <3>1. i - 1 # j - 1
      BY <2>2
    <3>2. q[i] # q[j]
      BY <2>1, <3>1
    <3> QED BY <2>1, <3>2 DEF OneAtATime
  <2> QED BY <2>2, <2>3, <2>4
<1> QED BY <1>11, <1>12, <1>13, <1>14 DEF q

-----------------------------------------------------------------------------
(* What the steps of the turns do to the variables of the turns *)

Phases == {"idle", "open", "appending", "reading", "summing", "done"}

LEMMA TurnTypes ==
  ASSUME TurnsOK, NEW t \in Turns
  PROVE /\ conf \in Configs /\ now \in Nat \ {0} /\ held[t] \in Sessions
        /\ pc[t] \in Phases /\ owned[t] \subseteq 1 .. now
        /\ held[t].events \in Seq(EventSet) /\ held[t].hist \in Seq(EventSet)
        /\ held[t].state \subseteq 0 .. now
BY SessionFields DEF TurnsOK, Phases

LEMMA HoldType ==
  ASSUME TurnsOK, NEW t \in Turns, NEW s \in Sessions, Hold(t, s)
  PROVE TurnsOK' /\ now' = now /\ conf' = conf /\ Sessions' = Sessions /\ EventSet' = EventSet
<1>1. now' = now /\ conf' = conf
  BY DEF Hold
<1>2. Sessions' = Sessions /\ EventSet' = EventSet
  BY <1>1 DEF Sessions, EventSet
<1>3. held' \in [Turns -> Sessions] /\ pc' \in [Turns -> Phases]
  BY DEF Hold, TurnsOK, Phases
<1>4. /\ conf' \in Configs /\ now' \in Nat \ {0} /\ count' \in [Turns -> 0 .. MaxAppends']
      /\ owned' \in [Turns -> SUBSET (1 .. now')]
      /\ written' \subseteq 1 .. now' /\ retired' \subseteq 1 .. now'
  BY <1>1 DEF Hold, TurnsOK, MaxAppends
<1> QED BY <1>1, <1>2, <1>3, <1>4 DEF TurnsOK, Phases

LEMMA IdsInTime ==
  ASSUME NEW s \in Seq(EventSet)
  PROVE Ids(s) \subseteq 1 .. now
<1>1. ToSet(s) \subseteq EventSet /\ Ids(s) = {e.id : e \in ToSet(s)}
  BY ToSetFacts
<1> QED BY <1>1 DEF EventSet

LEMMA AppendedType ==
  ASSUME TurnsOK, NEW t \in Turns, MayAppend(t), NEW p \in Phases, NEW copies,
         Appended(t, p, copies), copies \in [Turns -> Sessions'], written' \subseteq 1 .. now'
  PROVE TurnsOK' /\ now' = now + 1 /\ conf' = conf /\ held' = copies
<1>1. now' = now + 1 /\ conf' = conf /\ now \in Nat \ {0} /\ conf \in Configs /\ held' = copies
  BY DEF Appended, TurnsOK
<1>2. /\ Sessions \subseteq Sessions' /\ 1 .. now \subseteq 1 .. now' /\ now' \in Nat \ {0}
      /\ now \in 1 .. now'
  BY <1>1, SessionsGrow
<1>3. held' \in [Turns -> Sessions'] /\ pc' \in [Turns -> Phases]
  BY <1>2 DEF Appended, TurnsOK, Phases
<1>4. count' \in [Turns -> 0 .. MaxAppends']
  <2>1. MaxAppends' = MaxAppends /\ MaxAppends \in Nat
    BY <1>1, ServiceConfTypes DEF MaxAppends
  <2>2. count' = [count EXCEPT ![t] = count[t] + 1] /\ count \in [Turns -> 0 .. MaxAppends]
        /\ count[t] < MaxAppends
    BY DEF Appended, TurnsOK, MayAppend
  <2>3. count[t] + 1 \in 0 .. MaxAppends
    BY <2>1, <2>2
  <2> QED BY <2>1, <2>2, <2>3
<1>5. owned' \in [Turns -> SUBSET (1 .. now')]
  <2>1. owned' = [owned EXCEPT ![t] = owned[t] \cup {now}] /\ owned \in [Turns -> SUBSET (1 .. now)]
    BY DEF Appended, TurnsOK, NewEvent
  <2>2. owned[t] \cup {now} \in SUBSET (1 .. now') /\ owned \in [Turns -> SUBSET (1 .. now')]
    BY <1>2, <2>1
  <2> QED BY <2>1, <2>2
<1>6. retired' \subseteq 1 .. now'
  <2> DEFINE all == Append(held[t].events, NewEvent(t))
             out == Dropped(all, Retained(all, 0, MaxEvents))
  <2>1. NewEvent(t) \in EventSet' /\ NewEvent(t).id \in 1 .. now'
    BY <1>1, <1>2, NewEvents
  <2>2. out \in Seq(EventSet')
    BY <1>1, <2>1, TurnTypes, WithEventFacts
  <2>3. Ids(out) \subseteq 1 .. now'
    <3> HIDE DEF out
    <3>1. ToSet(out) \subseteq EventSet' /\ Ids(out) = {e.id : e \in ToSet(out)}
      BY <2>2, ToSetFacts
    <3> QED BY <3>1 DEF EventSet
  <2>4. retired' = retired \cup Ids(out)
    BY DEF Appended
  <2> HIDE DEF out
  <2> QED BY <1>2, <2>3, <2>4 DEF TurnsOK
<1> QED BY <1>1, <1>2, <1>3, <1>4, <1>5, <1>6 DEF TurnsOK, Phases

LEMMA RewrittenType ==
  ASSUME TurnsOK, NEW t \in Turns, NEW k \in 1 .. Len(held[t].events) + 1,
         NEW p \in Phases, NEW s, Rewritten(t, k, s, p), s \in Sessions'
  PROVE TurnsOK' /\ now' = now + 1 /\ conf' = conf
<1>1. now' = now + 1 /\ conf' = conf /\ now \in Nat \ {0} /\ conf \in Configs
  BY DEF Rewritten, TurnsOK
<1>2. Sessions \subseteq Sessions' /\ 1 .. now \subseteq 1 .. now' /\ now' \in Nat \ {0}
  BY <1>1, SessionsGrow
<1>3. held' \in [Turns -> Sessions'] /\ pc' \in [Turns -> Phases]
  BY <1>2 DEF Rewritten, TurnsOK, Phases
<1>4. count' \in [Turns -> 0 .. MaxAppends'] /\ owned' \in [Turns -> SUBSET (1 .. now')]
      /\ written' \subseteq 1 .. now'
  BY <1>1, <1>2 DEF Rewritten, TurnsOK, MaxAppends
<1>5. retired' \subseteq 1 .. now'
  <2>1. Upto(held[t].events, k - 1) \in Seq(EventSet)
    BY TurnTypes, Halves
  <2>2. Ids(Upto(held[t].events, k - 1)) \subseteq 1 .. now
    BY <2>1, IdsInTime
  <2> QED BY <1>2, <2>2 DEF Rewritten, TurnsOK
<1> QED BY <1>1, <1>2, <1>3, <1>4, <1>5 DEF TurnsOK, Phases

LEMMA PhaseType ==
  ASSUME TurnsOK, NEW t \in Turns, NEW p \in Phases, pc' = [pc EXCEPT ![t] = p],
         UNCHANGED <<conf, count, now, owned, retired>>,
         held' \in [Turns -> Sessions], written' \subseteq 1 .. now
  PROVE TurnsOK' /\ Sessions' = Sessions /\ EventSet' = EventSet
<1>1. Sessions' = Sessions /\ EventSet' = EventSet
  BY DEF Sessions, EventSet
<1>2. pc' \in [Turns -> Phases]
  BY DEF TurnsOK, Phases
<1> QED BY <1>1, <1>2 DEF TurnsOK, Phases, MaxAppends

\* The two rewrites are of the shape Summary makes, at a place inside the list.
LEMMA CompactedFacts ==
  ASSUME TurnsOK, NEW t \in Turns, MayCompact(t), now' = now + 1
  PROVE LET s == held[t].events
            summary == [SummaryEvent EXCEPT !.at = s[1].at]
        IN /\ CompactFrom(t) \in 2 .. Len(s) + 1 /\ s[1] \in EventSet /\ Len(s) \in Nat
           /\ summary \in EventSet' /\ summary.at = s[1].at /\ summary.id = now
           /\ summary.kind = "summary"
           /\ Compacted(t) = Summary(held[t], CompactFrom(t), summary, TRUE)
           /\ Compacted(t) \in Sessions'
<1> DEFINE s == held[t].events
           summary == [SummaryEvent EXCEPT !.at = s[1].at]
<1>1. /\ conf \in Configs /\ now \in Nat \ {0} /\ held[t] \in Sessions /\ s \in Seq(EventSet)
      /\ KeepRecent \in Nat
  BY TurnTypes, ServiceConfTypes
<1>2. Boundary(s, KeepRecent) # 0
  BY DEF MayCompact, CompactFrom
<1>3. Boundary(s, KeepRecent) \in 1 .. Len(s) /\ Len(s) \in Nat
  BY <1>1, <1>2, BoundaryFacts
<1>4. CompactFrom(t) \in 2 .. Len(s) + 1 /\ CompactFrom(t) \in 1 .. Len(s) + 1
  BY <1>3 DEF CompactFrom
<1>5. s[1] \in EventSet
  BY <1>1, <1>3
<1>6. /\ summary \in EventSet' /\ summary.at = s[1].at /\ summary.id = now
      /\ summary.kind = "summary"
  BY <1>1, <1>5, NewEvents
<1>7. Compacted(t) = Summary(held[t], CompactFrom(t), summary, TRUE)
  BY DEF Compacted
<1>8. Compacted(t) \in Sessions'
  <2> HIDE DEF summary
  <2>1. CompactFrom(t) \in 1 .. Len(held[t].events) + 1
    BY <1>4
  <2>2. Summary(held[t], CompactFrom(t), summary, TRUE) \in Sessions'
    BY <1>1, <1>6, <2>1, SummaryFacts
  <2> QED BY <1>7, <2>2
<1> QED BY <1>3, <1>4, <1>5, <1>6, <1>7, <1>8

LEMMA SummarisedFacts ==
  ASSUME TurnsOK, NEW t \in Turns, MaySummarise(t), now' = now + 1
  PROVE LET s == held[t].events
        IN /\ SummariseFrom(t) \in 2 .. Len(s) + 1 /\ Len(s) \in Nat
           /\ SummaryEvent \in EventSet'
           /\ SummarisedSession(t) = Summary(held[t], SummariseFrom(t), SummaryEvent, StoreHistorical)
           /\ SummarisedSession(t) \in Sessions'
<1> DEFINE s == held[t].events
<1>1. /\ conf \in Configs /\ now \in Nat \ {0} /\ held[t] \in Sessions /\ s \in Seq(EventSet)
      /\ KeepRecent \in Nat /\ StoreHistorical \in BOOLEAN /\ TRUE \in BOOLEAN
  BY TurnTypes, ServiceConfTypes
<1>2. SummariseFrom(t) \in 1 .. Len(s) + 1 /\ SummariseFrom(t) >= 2 /\ Len(s) \in Nat
  <2> HIDE DEF s
  <2>1. /\ KeptFrom(s, KeepRecent, TRUE) \in 1 .. Len(s) + 1
        /\ Summarised(s, KeepRecent, TRUE) # <<>> => KeptFrom(s, KeepRecent, TRUE) >= 2
    BY <1>1, KeptFromFacts
  <2>2. Summarised(s, KeepRecent, TRUE) # <<>> /\ SummariseFrom(t) = KeptFrom(s, KeepRecent, TRUE)
    BY DEF SummariseFrom, MaySummarise, s
  <2>3. Len(s) \in Nat
    BY <1>1
  <2>4. KeptFrom(s, KeepRecent, TRUE) >= 2
    BY <2>1, <2>2
  <2> QED BY <2>1, <2>2, <2>3, <2>4
<1>3. SummaryEvent \in EventSet'
  BY <1>1, NewEvents
<1>4. SummarisedSession(t) = Summary(held[t], SummariseFrom(t), SummaryEvent, StoreHistorical)
  BY DEF SummarisedSession
<1>5. SummarisedSession(t) \in Sessions'
  <2>1. SummariseFrom(t) \in 1 .. Len(held[t].events) + 1
    BY <1>2
  <2>2. Summary(held[t], SummariseFrom(t), SummaryEvent, StoreHistorical) \in Sessions'
    BY <1>1, <1>3, <2>1, SummaryFacts
  <2> QED BY <1>4, <2>2
<1> QED BY <1>2, <1>3, <1>4, <1>5

-----------------------------------------------------------------------------
(* What a turn has appended is in its copy, and nothing is of the future *)

Past(R) == \A e \in R : e.at \in 1 .. now - 1 /\ e.id \in 1 .. now - 1

TurnsPast ==
    /\ \A t \in Turns : owned[t] \subseteq 1 .. now - 1 /\ Past(ToSet(held[t].events))
    /\ \A t \in Turns : pc[t] \in {"reading", "appending"} => owned[t] # {}
    /\ written \subseteq 1 .. now - 1

Sees == \A t \in Turns :
    /\ pc[t] = "idle" => owned[t] = {}
    /\ owned[t] \ retired \subseteq Ids(held[t].events)

\* The other turns keep all they have.
LEMMA Others ==
  ASSUME TurnsOK, NEW t \in Turns, NEW s, NEW p,
         held' = [held EXCEPT ![t] = s], pc' = [pc EXCEPT ![t] = p]
  PROVE /\ held'[t] = s /\ pc'[t] = p
        /\ \A u \in Turns \ {t} : held'[u] = held[u] /\ pc'[u] = pc[u]
BY DEF TurnsOK

LEMMA HoldPast ==
  ASSUME TurnsOK, TurnsPast, NEW t \in Turns, NEW s \in Sessions, Hold(t, s), Past(ToSet(s.events))
  PROVE /\ TurnsPast' /\ (Sees => Sees')
        /\ held'[t] = s /\ pc'[t] = "open" /\ pc[t] = "idle"
        /\ \A u \in Turns \ {t} : held'[u] = held[u] /\ pc'[u] = pc[u]
        /\ owned' = owned /\ written' = written /\ retired' = retired /\ count' = count
<1>1. /\ now' = now /\ owned' = owned /\ written' = written /\ retired' = retired /\ count' = count
      /\ held' = [held EXCEPT ![t] = s] /\ pc' = [pc EXCEPT ![t] = "open"] /\ pc[t] = "idle"
  BY DEF Hold, MayBegin
<1>2. /\ held'[t] = s /\ pc'[t] = "open"
      /\ \A u \in Turns \ {t} : held'[u] = held[u] /\ pc'[u] = pc[u]
  BY <1>1, Others
<1>3. TurnsPast'
  <2> SUFFICES ASSUME NEW u \in Turns
               PROVE /\ owned'[u] \subseteq 1 .. now' - 1 /\ Past(ToSet(held[u].events))'
                     /\ pc'[u] \in {"reading", "appending"} => owned'[u] # {}
    BY <1>1 DEF TurnsPast
  <2>1. owned'[u] \subseteq 1 .. now' - 1
    BY <1>1 DEF TurnsPast
  <2>2. CASE u = t
    BY <1>1, <1>2, <2>1, <2>2 DEF Past
  <2>3. CASE u # t
    BY <1>1, <1>2, <2>1, <2>3 DEF Past, TurnsPast
  <2> QED BY <2>2, <2>3
<1>4. ASSUME Sees PROVE Sees'
  <2> SUFFICES ASSUME NEW u \in Turns
               PROVE /\ pc'[u] = "idle" => owned'[u] = {}
                     /\ owned'[u] \ retired' \subseteq Ids(held'[u].events)
    BY DEF Sees
  <2>1. CASE u = t
    BY <1>1, <1>2, <1>4, <2>1 DEF Sees
  <2>2. CASE u # t
    BY <1>1, <1>2, <1>4, <2>2 DEF Sees
  <2> QED BY <2>1, <2>2
<1> QED BY <1>1, <1>2, <1>3, <1>4

\* An append may leave a turn with more than its window keeps, never with less,
\* and give another turn no more than the new event.
LEMMA AppendedPast ==
  ASSUME TurnsOK, TurnsPast, NEW t \in Turns, MayAppend(t), NEW p \in Phases \ {"idle"},
         NEW h, h \in [Turns -> Sessions'], Appended(t, p, h), written' \subseteq written \cup {now},
         \A u \in Turns : ToSet(h[u].events) \subseteq ToSet(held[u].events) \cup {NewEvent(t)}
  PROVE /\ TurnsOK' /\ TurnsPast' /\ now' = now + 1 /\ conf' = conf
        /\ (/\ ToSet(WithEvent(held[t], NewEvent(t)).events) \subseteq ToSet(h[t].events)
            /\ \A u \in Turns \ {t} : ToSet(held[u].events) \subseteq ToSet(h[u].events))
              => (Sees => Sees')
        /\ held' = h /\ pc'[t] = p /\ pc[t] = "open"
        /\ \A u \in Turns \ {t} : pc'[u] = pc[u] /\ owned'[u] = owned[u]
        /\ owned'[t] = owned[t] \cup {now} /\ retired \subseteq retired'
<1> DEFINE e == NewEvent(t)
           all == Append(held[t].events, e)
           out == Dropped(all, Retained(all, 0, MaxEvents))
           w == WithEvent(held[t], e)
<1>1. /\ conf \in Configs /\ now \in Nat \ {0} /\ held[t] \in Sessions
      /\ now' = now + 1 /\ conf' = conf
      /\ held' = h /\ pc' = [pc EXCEPT ![t] = p]
      /\ owned' = [owned EXCEPT ![t] = owned[t] \cup {e.id}]
      /\ retired' = retired \cup Ids(out) /\ pc[t] = "open"
  BY TurnTypes DEF Appended, MayAppend
<1>2. pc'[t] = p /\ \A u \in Turns \ {t} : pc'[u] = pc[u]
  BY <1>1 DEF TurnsOK
<1>3. /\ e \in EventSet' /\ e.id = now /\ e.at = now /\ e.id \in 1 .. now'
  BY <1>1, NewEvents
<1>4. owned'[t] = owned[t] \cup {now} /\ \A u \in Turns \ {t} : owned'[u] = owned[u]
  BY <1>1, <1>3 DEF TurnsOK
<1>5. written' \subseteq 1 .. now' - 1
  <2>1. written \subseteq 1 .. now - 1 /\ now \in 1 .. now' - 1
    BY <1>1 DEF TurnsPast
  <2> QED BY <1>1, <2>1
<1>6. 1 .. now' - 1 \subseteq 1 .. now' /\ 1 .. now - 1 \subseteq 1 .. now' - 1 /\ now \in 1 .. now' - 1
  BY <1>1
<1>7. TurnsOK'
  <2>1. written' \subseteq 1 .. now' /\ p \in Phases
    BY <1>5, <1>6
  <2> QED BY <2>1, AppendedType
<1>8. TurnsPast'
  <2> SUFFICES ASSUME NEW u \in Turns
               PROVE /\ owned'[u] \subseteq 1 .. now' - 1 /\ Past(ToSet(held[u].events))'
                     /\ pc'[u] \in {"reading", "appending"} => owned'[u] # {}
    BY <1>5 DEF TurnsPast
  <2>1. /\ owned[u] \subseteq 1 .. now - 1 /\ Past(ToSet(held[u].events))
        /\ Past(ToSet(held[t].events))
        /\ pc[u] \in {"reading", "appending"} => owned[u] # {}
    BY DEF TurnsPast
  <2>2. owned'[u] \subseteq 1 .. now' - 1
    BY <1>4, <1>6, <2>1
  <2>3. \A x \in ToSet(h[u].events) : x.at \in 1 .. now' - 1 /\ x.id \in 1 .. now' - 1
    <3> HIDE DEF e
    <3>1. \A x \in ToSet(held[u].events) \cup {e} : x.at \in 1 .. now' - 1 /\ x.id \in 1 .. now' - 1
      BY <1>3, <1>6, <2>1 DEF Past
    <3>2. ToSet(h[u].events) \subseteq ToSet(held[u].events) \cup {e}
      BY DEF e
    <3> QED BY <3>1, <3>2
  <2>6. Past(ToSet(held[u].events))'
    BY <1>1, <2>3 DEF Past
  <2>4. CASE u = t
    BY <1>4, <2>2, <2>4, <2>6
  <2>5. CASE u # t
    BY <1>2, <1>4, <2>1, <2>2, <2>5, <2>6
  <2> QED BY <2>4, <2>5
<1>9. ASSUME ToSet(w.events) \subseteq ToSet(h[t].events), Sees,
             \A u \in Turns \ {t} : ToSet(held[u].events) \subseteq ToSet(h[u].events)
      PROVE Sees'
  <2> HIDE DEF e, w
  <2>1. /\ all \in Seq(EventSet') /\ out \in Seq(EventSet') /\ w.events = Retained(all, 0, MaxEvents)
        /\ ToSet(all) = ToSet(held[t].events) \cup {e} /\ ToSet(out) = ToSet(all) \ ToSet(w.events)
    BY <1>1, <1>3, WithEventFacts DEF w
  <2>2. /\ h[t].events \in Seq(EventSet') /\ held[t].events \in Seq(EventSet)
        /\ \A u \in Turns : h[u].events \in Seq(EventSet') /\ held[u].events \in Seq(EventSet)
    BY TurnTypes DEF Sessions
  <2>3. /\ Ids(h[t].events) = {x.id : x \in ToSet(h[t].events)}
        /\ Ids(held[t].events) = {x.id : x \in ToSet(held[t].events)}
        /\ Ids(out) = {x.id : x \in ToSet(out)}
    <3> HIDE DEF out
    <3>1. Ids(h[t].events) = {x.id : x \in ToSet(h[t].events)}
      BY <2>2, ToSetFacts
    <3>2. Ids(held[t].events) = {x.id : x \in ToSet(held[t].events)}
      BY <2>2, ToSetFacts
    <3>3. Ids(out) = {x.id : x \in ToSet(out)}
      BY <2>1, ToSetFacts
    <3> QED BY <3>1, <3>2, <3>3
  <2> HIDE DEF all, out
  <2>4. Ids(held[t].events) \cup {now} \subseteq Ids(out) \cup Ids(h[t].events)
    <3>1. ToSet(held[t].events) \cup {e} \subseteq ToSet(out) \cup ToSet(h[t].events)
      BY <1>9, <2>1
    <3> QED BY <1>3, <2>3, <3>1
  <2> SUFFICES ASSUME NEW u \in Turns
               PROVE /\ pc'[u] = "idle" => owned'[u] = {}
                     /\ owned'[u] \ retired' \subseteq Ids(held'[u].events)
    BY DEF Sees
  <2>5. CASE u = t
    <3>1. owned[t] \ retired \subseteq Ids(held[t].events)
      BY <1>9 DEF Sees
    <3> QED BY <1>1, <1>2, <1>4, <2>4, <2>5, <3>1
  <2>6. CASE u # t
    <3>1. /\ owned[u] \ retired \subseteq Ids(held[u].events)
          /\ pc[u] = "idle" => owned[u] = {}
      BY <1>9 DEF Sees
    <3>2. ToSet(held[u].events) \subseteq ToSet(h[u].events)
      BY <1>9, <2>6
    <3>3. Ids(h[u].events) = {x.id : x \in ToSet(h[u].events)}
      BY <2>2, ToSetFacts
    <3>4. Ids(held[u].events) = {x.id : x \in ToSet(held[u].events)}
      BY <2>2, ToSetFacts
    <3>5. Ids(held[u].events) \subseteq Ids(h[u].events)
      BY <3>2, <3>3, <3>4
    <3>6. retired \subseteq retired' /\ held'[u] = h[u] /\ pc'[u] = pc[u] /\ owned'[u] = owned[u]
      BY <1>1, <1>2, <1>4, <2>6
    <3> QED BY <2>6, <3>1, <3>5, <3>6
  <2> QED BY <2>5, <2>6
<1> QED BY <1>1, <1>2, <1>4, <1>7, <1>8, <1>9

\* A rewrite takes from the copy only what is retired with it.
LEMMA RewrittenPast ==
  ASSUME TurnsOK, TurnsPast, NEW t \in Turns, NEW k \in 1 .. Len(held[t].events) + 1,
         NEW p \in {"open", "done"}, NEW summary \in EventSet', NEW keep \in BOOLEAN,
         summary.id = now, summary.at \in 1 .. now,
         Rewritten(t, k, Summary(held[t], k, summary, keep), p)
  PROVE /\ TurnsOK' /\ TurnsPast' /\ now' = now + 1 /\ conf' = conf
        /\ pc[t] # "idle" => (Sees => Sees')
        /\ held'[t] = Summary(held[t], k, summary, keep) /\ pc'[t] = p
        /\ \A u \in Turns \ {t} : held'[u] = held[u] /\ pc'[u] = pc[u]
        /\ owned' = owned /\ written' = written /\ retired \subseteq retired'
        /\ Ids(Upto(held[t].events, k - 1)) \subseteq retired'
<1> DEFINE r == Summary(held[t], k, summary, keep)
           gone == Upto(held[t].events, k - 1)
           left == From(held[t].events, k)
<1>1. /\ conf \in Configs /\ now \in Nat \ {0} /\ held[t] \in Sessions
      /\ now' = now + 1 /\ conf' = conf
      /\ held' = [held EXCEPT ![t] = r] /\ pc' = [pc EXCEPT ![t] = p]
      /\ owned' = owned /\ written' = written
      /\ retired' = retired \cup Ids(gone)
  BY TurnTypes DEF Rewritten
<1>2. /\ r \in Sessions'
      /\ ToSet(r.events) = {summary} \cup ToSet(left)
      /\ ToSet(held[t].events) = ToSet(gone) \cup ToSet(left)
      /\ gone \in Seq(EventSet) /\ left \in Seq(EventSet)
  <2>1. held[t] \in Sessions /\ now \in Nat \ {0} /\ now' = now + 1
    BY <1>1
  <2>2. Summary(held[t], k, summary, keep) \in Sessions'
    BY <2>1, SummaryFacts
  <2>3. \A e : e \in ToSet(Summary(held[t], k, summary, keep).events)
                <=> e = summary \/ e \in ToSet(From(held[t].events, k))
    <3>1. \A s \in Sessions : \A i \in 1 .. Len(s.events) + 1 : \A u \in EventSet', b \in BOOLEAN :
             \A e : e \in ToSet(Summary(s, i, u, b).events) <=> e = u \/ e \in ToSet(From(s.events, i))
      BY <2>1, SummaryFacts
    <3> QED BY <2>1, <3>1
  <2>4. ToSet(held[t].events)
          = ToSet(Upto(held[t].events, k - 1)) \cup ToSet(From(held[t].events, k))
    BY <2>1, SummaryFacts
  <2>5. Upto(held[t].events, k - 1) \in Seq(EventSet) /\ From(held[t].events, k) \in Seq(EventSet)
    BY <2>1, SummaryFacts
  <2> QED BY <2>2, <2>3, <2>4, <2>5
<1> HIDE DEF r, gone, left
<1>3. /\ held'[t] = r /\ pc'[t] = p
      /\ \A u \in Turns \ {t} : held'[u] = held[u] /\ pc'[u] = pc[u]
  BY <1>1, Others
<1>4. 1 .. now' - 1 \subseteq 1 .. now' /\ 1 .. now - 1 \subseteq 1 .. now' - 1 /\ now \in 1 .. now' - 1
      /\ 1 .. now \subseteq 1 .. now' - 1
  BY <1>1
<1>5. TurnsOK'
  <2>1. p \in Phases
    BY DEF Phases
  <2> QED BY <1>2, <2>1, RewrittenType DEF r
<1>6. TurnsPast'
  <2>1. written' \subseteq 1 .. now' - 1
    BY <1>1, <1>4 DEF TurnsPast
  <2> SUFFICES ASSUME NEW u \in Turns
               PROVE /\ owned'[u] \subseteq 1 .. now' - 1 /\ Past(ToSet(held[u].events))'
                     /\ pc'[u] \in {"reading", "appending"} => owned'[u] # {}
    BY <2>1 DEF TurnsPast
  <2>2. /\ owned[u] \subseteq 1 .. now - 1 /\ Past(ToSet(held[u].events))
        /\ Past(ToSet(held[t].events))
        /\ pc[u] \in {"reading", "appending"} => owned[u] # {}
    BY DEF TurnsPast
  <2>3. owned'[u] \subseteq 1 .. now' - 1
    BY <1>1, <1>4, <2>2
  <2>4. \A x \in ToSet(r.events) : x.at \in 1 .. now' - 1 /\ x.id \in 1 .. now' - 1
    BY <1>2, <1>4, <2>2 DEF Past
  <2>5. CASE u = t
    BY <1>1, <1>3, <2>3, <2>4, <2>5 DEF Past
  <2>6. CASE u # t
    BY <1>1, <1>3, <1>4, <2>2, <2>3, <2>6 DEF Past
  <2> QED BY <2>5, <2>6
<1>7. ASSUME pc[t] # "idle", Sees PROVE Sees'
  <2>1. r.events \in Seq(EventSet') /\ held[t].events \in Seq(EventSet)
    BY <1>2, TurnTypes DEF Sessions
  <2>2. Ids(r.events) = {x.id : x \in ToSet(r.events)}
    BY <2>1, ToSetFacts
  <2>3. Ids(held[t].events) = {x.id : x \in ToSet(held[t].events)}
    BY <2>1, ToSetFacts
  <2>4. Ids(gone) = {x.id : x \in ToSet(gone)}
    BY <1>2, ToSetFacts
  <2>5. Ids(held[t].events) \subseteq Ids(gone) \cup Ids(r.events)
    BY <1>2, <2>2, <2>3, <2>4
  <2> SUFFICES ASSUME NEW u \in Turns
               PROVE /\ pc'[u] = "idle" => owned'[u] = {}
                     /\ owned'[u] \ retired' \subseteq Ids(held'[u].events)
    BY DEF Sees
  <2>6. CASE u = t
    <3>1. owned[t] \ retired \subseteq Ids(held[t].events)
      BY <1>7 DEF Sees
    <3> QED BY <1>1, <1>3, <2>5, <2>6, <3>1
  <2>7. CASE u # t
    BY <1>1, <1>3, <1>7, <2>7 DEF Sees
  <2> QED BY <2>6, <2>7
<1> QED BY <1>1, <1>3, <1>5, <1>6, <1>7 DEF r, gone

\* A step that moves a turn on without touching its copy.
LEMMA PhasePast ==
  ASSUME TurnsOK, TurnsPast, NEW t \in Turns, NEW p \in Phases \ {"idle"}, pc[t] # "idle",
         pc' = [pc EXCEPT ![t] = p], UNCHANGED <<conf, held, count, now, owned, retired>>,
         written' \subseteq written \cup owned[t],
         p \in {"reading", "appending"} => pc[t] \in {"reading", "appending"}
  PROVE /\ TurnsOK' /\ TurnsPast' /\ (Sees => Sees')
        /\ pc'[t] = p /\ \A u \in Turns \ {t} : pc'[u] = pc[u]
        /\ Sessions' = Sessions /\ EventSet' = EventSet
<1>1. /\ held \in [Turns -> Sessions] /\ held' = held /\ now \in Nat \ {0} /\ p \in Phases
      /\ pc' = [pc EXCEPT ![t] = p] /\ now' = now /\ owned' = owned /\ retired' = retired
  BY DEF TurnsOK
<1>2. pc'[t] = p /\ \A u \in Turns \ {t} : pc'[u] = pc[u]
  BY <1>1 DEF TurnsOK
<1>3. written' \subseteq 1 .. now - 1 /\ written' \subseteq 1 .. now
  <2>1. written \subseteq 1 .. now - 1 /\ owned[t] \subseteq 1 .. now - 1
    BY DEF TurnsPast
  <2>2. written' \subseteq 1 .. now - 1
    BY <2>1
  <2>3. 1 .. now - 1 \subseteq 1 .. now
    BY <1>1
  <2> QED BY <2>2, <2>3
<1>4. TurnsOK' /\ Sessions' = Sessions /\ EventSet' = EventSet
  <2>1. held' \in [Turns -> Sessions]
    BY <1>1
  <2> QED BY <1>1, <1>3, <2>1, PhaseType
<1>5. TurnsPast'
  <2> SUFFICES ASSUME NEW u \in Turns
               PROVE /\ owned'[u] \subseteq 1 .. now' - 1 /\ Past(ToSet(held[u].events))'
                     /\ pc'[u] \in {"reading", "appending"} => owned'[u] # {}
    BY <1>1, <1>3 DEF TurnsPast
  <2>1. /\ owned[u] \subseteq 1 .. now - 1 /\ Past(ToSet(held[u].events))
        /\ pc[u] \in {"reading", "appending"} => owned[u] # {}
    BY DEF TurnsPast
  <2>2. pc'[u] \in {"reading", "appending"} => pc[u] \in {"reading", "appending"}
    BY <1>2
  <2> QED BY <1>1, <2>1, <2>2 DEF Past
<1>6. ASSUME Sees PROVE Sees'
  BY <1>1, <1>2, <1>6 DEF Sees
<1> QED BY <1>2, <1>4, <1>5, <1>6

LEMMA PastGrows ==
  ASSUME now \in Nat \ {0}, now' \in {now, now + 1}, NEW R, Past(R)
  PROVE \A e \in R : e.at \in 1 .. now' - 1 /\ e.id \in 1 .. now' - 1
<1>1. 1 .. now - 1 \subseteq 1 .. now' - 1
  <2>1. CASE now' = now
    BY <2>1
  <2>2. CASE now' = now + 1
    BY <2>2
  <2> QED BY <2>1, <2>2
<1> QED BY <1>1 DEF Past

\* What get_session makes of a stored session.
LEMMA ViewFacts ==
  ASSUME conf \in Configs, NEW s \in Sessions, NEW v,
         v = [s EXCEPT !.events = Retained(@, 0, NumRecent)]
  PROVE /\ v \in Sessions /\ ToSet(v.events) \subseteq ToSet(s.events)
        /\ v.events = Retained(s.events, 0, NumRecent) /\ v.hist = s.hist /\ v.state = s.state
        /\ Sublist(v.events, s.events)
<1>1. /\ s.events \in Seq(EventSet) /\ s.hist \in Seq(EventSet) /\ s.state \subseteq 0 .. now
      /\ s = [events |-> s.events, hist |-> s.hist, state |-> s.state]
  BY SessionFields
<1> DEFINE r == Retained(s.events, 0, NumRecent)
<1>2. r \in Seq(EventSet) /\ Sublist(r, s.events)
  BY <1>1, ServiceConfTypes, RetainedFacts
<1>3. v = [s EXCEPT !.events = r]
  OBVIOUS
<1> HIDE DEF r
<1>4. v = [events |-> r, hist |-> s.hist, state |-> s.state]
  BY <1>1, <1>3
<1>5. ToSet(r) \subseteq ToSet(s.events)
  BY <1>1, <1>2, SublistElements
<1>6. v \in Sessions
  BY <1>1, <1>2, <1>4 DEF Sessions
<1> QED BY <1>2, <1>4, <1>5, <1>6 DEF r

\* Turn t replaces its first events by a summary, in mid-turn or after it.
Rewrites(t, s) ==
    \/ MayCompact(t) /\ s = Compacted(t) /\ Rewritten(t, CompactFrom(t), s, "open")
    \/ /\ pc[t] = "summing" /\ MaySummarise(t)
       /\ s = SummarisedSession(t) /\ Rewritten(t, SummariseFrom(t), s, "done")

\* The summary that leads s, and what it stands for.
Leads(t, s, k, summary, keep) ==
    /\ s = Summary(held[t], k, summary, keep)
    /\ summary.id = now /\ summary.kind = "summary"
    /\ summary.at = now \/ summary.at = held[t].events[1].at
    /\ Ids(Upto(held[t].events, k - 1)) \subseteq retired'
    /\ StoreHistorical => keep

LEMMA RewriteFacts ==
  ASSUME TurnsOK, TurnsPast, NEW t \in Turns, NEW s, Rewrites(t, s)
  PROVE /\ TurnsOK' /\ TurnsPast' /\ now' = now + 1 /\ conf' = conf /\ (Sees => Sees')
        /\ s \in Sessions' /\ held'[t] = s /\ \A u \in Turns \ {t} : held'[u] = held[u]
        /\ \A e \in ToSet(s.events) : e.at \in 1 .. now' - 1 /\ e.id \in 1 .. now' - 1
        /\ owned' = owned /\ written' = written /\ retired \subseteq retired'
        /\ \A u \in Turns \ {t} : pc'[u] = pc[u]
        /\ pc[t] \in {"open", "summing"} /\ pc'[t] \in {"open", "done"}
        /\ \E k \in 2 .. Len(held[t].events) + 1 : \E summary \in EventSet' : \E keep \in BOOLEAN :
              Leads(t, s, k, summary, keep)
<1>1. conf \in Configs /\ now \in Nat \ {0} /\ StoreHistorical \in BOOLEAN
  BY ServiceConfTypes DEF TurnsOK
<1>2. ASSUME NEW k \in 2 .. Len(held[t].events) + 1, NEW p \in {"open", "done"},
             NEW summary \in EventSet', NEW keep \in BOOLEAN, Len(held[t].events) \in Nat,
             summary.id = now, summary.at \in 1 .. now, pc[t] # "idle",
             s = Summary(held[t], k, summary, keep), Rewritten(t, k, s, p)
      PROVE /\ TurnsOK' /\ TurnsPast' /\ now' = now + 1 /\ conf' = conf /\ (Sees => Sees')
            /\ s \in Sessions' /\ held'[t] = s /\ \A u \in Turns \ {t} : held'[u] = held[u]
            /\ \A e \in ToSet(s.events) : e.at \in 1 .. now' - 1 /\ e.id \in 1 .. now' - 1
            /\ owned' = owned /\ written' = written /\ retired \subseteq retired'
            /\ \A u \in Turns \ {t} : pc'[u] = pc[u]
            /\ pc'[t] = p /\ Ids(Upto(held[t].events, k - 1)) \subseteq retired'
  <2>0. k \in 1 .. Len(held[t].events) + 1
    BY <1>2
  <2>1. Rewritten(t, k, Summary(held[t], k, summary, keep), p)
    BY <1>2
  <2>2. /\ TurnsOK' /\ TurnsPast' /\ now' = now + 1 /\ conf' = conf /\ (pc[t] # "idle" => (Sees => Sees'))
        /\ held'[t] = Summary(held[t], k, summary, keep) /\ pc'[t] = p
        /\ \A u \in Turns \ {t} : held'[u] = held[u] /\ pc'[u] = pc[u]
        /\ owned' = owned /\ written' = written /\ retired \subseteq retired'
        /\ Ids(Upto(held[t].events, k - 1)) \subseteq retired'
    BY <1>2, <2>0, <2>1, RewrittenPast
  <2>3. /\ held'[t] \in Sessions'
        /\ \A e \in ToSet(held'[t].events) : e.at \in 1 .. now' - 1 /\ e.id \in 1 .. now' - 1
    BY <2>2 DEF TurnsOK, TurnsPast, Past
  <2> QED BY <1>2, <2>2, <2>3
<1>3. CASE MayCompact(t) /\ s = Compacted(t) /\ Rewritten(t, CompactFrom(t), s, "open")
  <2> DEFINE summary == [SummaryEvent EXCEPT !.at = held[t].events[1].at]
  <2>2. now' = now + 1 /\ pc[t] = "open"
    BY <1>3 DEF Rewritten, MayCompact
  <2>3. /\ CompactFrom(t) \in 2 .. Len(held[t].events) + 1 /\ held[t].events[1] \in EventSet
        /\ Len(held[t].events) \in Nat
        /\ summary \in EventSet' /\ summary.at = held[t].events[1].at /\ summary.id = now
        /\ summary.kind = "summary"
        /\ Compacted(t) = Summary(held[t], CompactFrom(t), summary, TRUE)
    BY <1>3, <2>2, CompactedFacts
  <2> HIDE DEF summary
  <2>4. summary.at \in 1 .. now
    BY <2>3 DEF EventSet
  <2>5. Leads(t, s, CompactFrom(t), summary, TRUE)
    BY <1>2, <1>3, <2>2, <2>3, <2>4 DEF Leads
  <2> QED BY <1>2, <1>3, <2>2, <2>3, <2>4, <2>5
<1>4. CASE /\ pc[t] = "summing" /\ MaySummarise(t)
           /\ s = SummarisedSession(t) /\ Rewritten(t, SummariseFrom(t), s, "done")
  <2>2. now' = now + 1
    BY <1>4 DEF Rewritten
  <2>3. /\ SummariseFrom(t) \in 2 .. Len(held[t].events) + 1 /\ Len(held[t].events) \in Nat
        /\ SummaryEvent \in EventSet'
        /\ SummarisedSession(t) = Summary(held[t], SummariseFrom(t), SummaryEvent, StoreHistorical)
    BY <1>4, <2>2, SummarisedFacts
  <2>4. SummaryEvent.id = now /\ SummaryEvent.at = now /\ now \in 1 .. now /\ SummaryEvent.kind = "summary"
    BY <1>1 DEF SummaryEvent
  <2>5. Leads(t, s, SummariseFrom(t), SummaryEvent, StoreHistorical)
    BY <1>1, <1>2, <1>4, <2>2, <2>3, <2>4 DEF Leads
  <2> QED BY <1>1, <1>2, <1>4, <2>2, <2>3, <2>4, <2>5
<1> QED BY <1>3, <1>4 DEF Rewrites

-----------------------------------------------------------------------------
(* The in-memory service *)

MemoryInv ==
    /\ stored \in Sessions /\ (StoreHistorical \/ stored.hist = <<>>)
    /\ linked \in Turns \cup {NoTurn} /\ link \in {"copy", "state", "fields", "object"}
    /\ link = "copy" <=> linked = NoTurn
    /\ link = "object" => StoreHistorical
    /\ Past(ToSet(stored.events))

\* What append_event does to a store that is not the turn's own session.
LEMMA StoredAppend ==
  ASSUME now \in Nat \ {0}, now' = now + 1, NEW s \in Sessions, NEW e \in EventSet',
         e.id \in 1 .. now'
  PROVE LET r == [s EXCEPT !.events = Append(@, e), !.state = @ \cup {e.id}]
        IN /\ r \in Sessions' /\ ToSet(r.events) = ToSet(s.events) \cup {e}
           /\ r.events = Append(s.events, e) /\ r.hist = s.hist /\ r.state = s.state \cup {e.id}
<1> DEFINE x == Append(s.events, e)
           y == s.state \cup {e.id}
           r == [s EXCEPT !.events = Append(@, e), !.state = @ \cup {e.id}]
<1>1. /\ s.events \in Seq(EventSet') /\ s.hist \in Seq(EventSet') /\ s.state \subseteq 0 .. now'
      /\ s = [events |-> s.events, hist |-> s.hist, state |-> s.state]
  BY SessionFields, SessionsGrow
<1>2. x \in Seq(EventSet') /\ ToSet(x) = ToSet(s.events) \cup {e}
  BY <1>1, AppendSet
<1>3. y \subseteq 0 .. now'
  <2>1. 1 .. now' \subseteq 0 .. now'
    OBVIOUS
  <2> QED BY <1>1, <2>1
<1>4. r = [s EXCEPT !.events = x, !.state = y]
  OBVIOUS
<1> HIDE DEF x, y, r
<1>5. r = [events |-> x, hist |-> s.hist, state |-> y]
  BY <1>1, <1>4
<1>6. r \in Sessions'
  BY <1>1, <1>2, <1>3, <1>5 DEF Sessions
<1> QED BY <1>2, <1>5, <1>6 DEF x, y, r

\* The turns' copies after an append to objects that one of them shares.
LEMMA SharedFacts ==
  ASSUME TurnsOK, MemoryInv, now' = now + 1, NEW e \in EventSet', e.id \in 1 .. now',
         NEW copies \in [Turns -> Sessions'], NEW t \in Turns, linked # t
  PROVE /\ Shared(copies, e) \in [Turns -> Sessions'] /\ Shared(copies, e)[t] = copies[t]
        /\ \A u \in Turns : /\ ToSet(copies[u].events) \subseteq ToSet(Shared(copies, e)[u].events)
                            /\ ToSet(Shared(copies, e)[u].events) \subseteq ToSet(copies[u].events) \cup {e}
<1>0. now \in Nat \ {0} /\ now' \in Nat \ {0}
  BY DEF TurnsOK
<1>1. CASE linked = NoTurn
  <2>1. Shared(copies, e) = copies
    BY <1>1 DEF Shared
  <2> QED BY <2>1
<1>2. CASE linked # NoTurn
  <2>1. linked \in Turns
    BY <1>2 DEF MemoryInv
  <2> DEFINE s == copies[linked]
             x == IF link = "state" THEN s.events ELSE Append(s.events, e)
             y == s.state \cup {e.id}
             r == [s EXCEPT !.events = x, !.state = y]
  <2>2. /\ s.events \in Seq(EventSet') /\ s.hist \in Seq(EventSet') /\ s.state \subseteq 0 .. now'
        /\ s = [events |-> s.events, hist |-> s.hist, state |-> s.state]
    <3>1. s \in Sessions'
      BY <2>1
    <3> QED BY <3>1 DEF Sessions
  <2>3. Shared(copies, e) = [copies EXCEPT ![linked] = r]
    BY <1>2, <2>1, <2>2 DEF Shared
  <2>4. Append(s.events, e) \in Seq(EventSet') /\ ToSet(Append(s.events, e)) = ToSet(s.events) \cup {e}
    <3> HIDE DEF s
    <3> QED BY <2>2, AppendSet
  <2>5. x \in Seq(EventSet') /\ ToSet(s.events) \subseteq ToSet(x) /\ ToSet(x) \subseteq ToSet(s.events) \cup {e}
    BY <2>2, <2>4
  <2>6. y \subseteq 0 .. now'
    <3>1. 1 .. now' \subseteq 0 .. now'
      BY <1>0
    <3> QED BY <2>2, <3>1
  <2>7. r = [events |-> x, hist |-> s.hist, state |-> y]
    <3> HIDE DEF s, x, y
    <3>1. r = [s EXCEPT !.events = x, !.state = y]
      OBVIOUS
    <3>2. s = [events |-> s.events, hist |-> s.hist, state |-> s.state]
      BY <2>2
    <3> HIDE DEF r
    <3> QED BY <3>1, <3>2
  <2> HIDE DEF s, x, y, r
  <2>8. r \in Sessions'
    BY <2>2, <2>5, <2>6, <2>7 DEF Sessions
  <2>9. /\ Shared(copies, e) \in [Turns -> Sessions'] /\ Shared(copies, e)[linked] = r
        /\ \A u \in Turns \ {linked} : Shared(copies, e)[u] = copies[u]
    BY <2>1, <2>3, <2>8
  <2>10. ToSet(s.events) \subseteq ToSet(r.events) /\ ToSet(r.events) \subseteq ToSet(s.events) \cup {e}
    BY <2>5, <2>7
  <2> QED BY <2>9, <2>10 DEF s
<1> QED BY <1>1, <1>2

LEMMA MemoryGetStep ==
  ASSUME TurnsOK, TurnsPast, Sees, MemoryInv, NEW t \in Turns, MemoryGetSession(t)
  PROVE TurnsOK' /\ TurnsPast' /\ Sees' /\ MemoryInv' /\ conf' = conf /\ now' = now
<1> DEFINE v == [stored EXCEPT !.events = Retained(@, 0, NumRecent)]
<1>1. Hold(t, v) /\ UNCHANGED memoryVars
  BY DEF MemoryGetSession
<1>2. v \in Sessions /\ ToSet(v.events) \subseteq ToSet(stored.events)
  BY ViewFacts DEF TurnsOK, MemoryInv
<1> HIDE DEF v
<1>3. Past(ToSet(v.events))
  BY <1>2 DEF Past, MemoryInv
<1>4. TurnsOK' /\ now' = now /\ conf' = conf /\ Sessions' = Sessions
  BY <1>1, <1>2, HoldType
<1>5. TurnsPast' /\ Sees'
  BY <1>1, <1>2, <1>3, HoldPast
<1>6. MemoryInv'
  BY <1>1, <1>4 DEF MemoryInv, memoryVars, StoreHistorical, Past
<1> QED BY <1>4, <1>5, <1>6

\* A save: the stored session is the turn's, with or without its history.
LEMMA MemoryUpdateFacts ==
  ASSUME TurnsOK', NEW t \in Turns, NEW s \in Sessions',
         \A e \in ToSet(s.events) : e.at \in 1 .. now' - 1 /\ e.id \in 1 .. now' - 1,
         MemoryUpdateSession(t, s), conf' = conf, conf \in Configs
  PROVE MemoryInv'
<1>1. /\ s.events \in Seq(EventSet') /\ s.hist \in Seq(EventSet') /\ s.state \subseteq 0 .. now'
      /\ s = [events |-> s.events, hist |-> s.hist, state |-> s.state]
  BY DEF Sessions
<1>2. StoreHistorical \in BOOLEAN /\ StoreHistorical' = StoreHistorical
  BY ServiceConfTypes DEF StoreHistorical
<1>3. /\ stored' = IF StoreHistorical THEN s ELSE [s EXCEPT !.hist = <<>>]
      /\ linked' = t /\ link' = IF StoreHistorical THEN "object" ELSE "fields"
  BY DEF MemoryUpdateSession
<1>4. stored'.events = s.events /\ stored' \in Sessions' /\ (~StoreHistorical => stored'.hist = <<>>)
  <2>1. CASE StoreHistorical
    BY <1>3, <2>1
  <2>2. CASE ~StoreHistorical
    <3>1. stored' = [events |-> s.events, hist |-> <<>>, state |-> s.state]
      BY <1>1, <1>3, <2>2
    <3>2. <<>> \in Seq(EventSet')
      OBVIOUS
    <3> QED BY <1>1, <3>1, <3>2 DEF Sessions
  <2> QED BY <1>2, <2>1, <2>2
<1>5. t # NoTurn
  BY NoTurnAssumption
<1>6. linked' \in Turns \cup {NoTurn} /\ link' \in {"copy", "state", "fields", "object"}
      /\ (link' = "copy" <=> linked' = NoTurn) /\ (link' = "object" => StoreHistorical')
  BY <1>2, <1>3, <1>5
<1>7. Past(ToSet(stored.events))'
  BY <1>4 DEF Past
<1> QED BY <1>2, <1>4, <1>6, <1>7 DEF MemoryInv

LEMMA MemoryRewriteStep ==
  ASSUME TurnsOK, TurnsPast, Sees, MemoryInv, NEW t \in Turns,
         MemoryCompactMidTurn(t) \/ MemoryFinishSummary(t)
  PROVE TurnsOK' /\ TurnsPast' /\ Sees' /\ MemoryInv' /\ conf' = conf /\ now' = now + 1
<1>1. PICK s : Rewrites(t, s) /\ MemoryUpdateSession(t, s)
  BY DEF MemoryCompactMidTurn, MemoryFinishSummary, Rewrites
<1>2. /\ TurnsOK' /\ TurnsPast' /\ Sees' /\ conf' = conf /\ now' = now + 1 /\ s \in Sessions'
      /\ \A e \in ToSet(s.events) : e.at \in 1 .. now' - 1 /\ e.id \in 1 .. now' - 1
  BY <1>1, RewriteFacts
<1>3. conf \in Configs
  BY DEF TurnsOK
<1>4. MemoryInv'
  BY <1>1, <1>2, <1>3, MemoryUpdateFacts
<1> QED BY <1>2, <1>4

LEMMA MemoryPhaseStep ==
  ASSUME TurnsOK, TurnsPast, Sees, MemoryInv, NEW t \in Turns,
         MemorySaveUnchanged(t) \/ (StartSummary(t) /\ UNCHANGED memoryVars)
                                \/ (EndTurn(t) /\ UNCHANGED memoryVars)
  PROVE TurnsOK' /\ TurnsPast' /\ Sees' /\ MemoryInv' /\ conf' = conf /\ now' = now
<1>1. /\ UNCHANGED <<conf, held, count, now, owned, written, retired>> /\ pc[t] # "idle"
      /\ pc' = [pc EXCEPT ![t] = "done"] \/ pc' = [pc EXCEPT ![t] = "summing"]
  BY DEF MemorySaveUnchanged, StartSummary, EndTurn
<1>2. written' \subseteq written \cup owned[t]
  BY <1>1
<1>3. TurnsOK' /\ TurnsPast' /\ Sees' /\ Sessions' = Sessions
  <2>1. CASE pc' = [pc EXCEPT ![t] = "done"]
    <3>1. "done" \in Phases \ {"idle"} /\ "done" \notin {"reading", "appending"}
      BY DEF Phases
    <3> QED BY <1>1, <1>2, <2>1, <3>1, PhasePast
  <2>2. CASE pc' = [pc EXCEPT ![t] = "summing"]
    <3>1. "summing" \in Phases \ {"idle"} /\ "summing" \notin {"reading", "appending"}
      BY DEF Phases
    <3> QED BY <1>1, <1>2, <2>2, <3>1, PhasePast
  <2> QED BY <1>1, <2>1, <2>2
<1>4. CASE UNCHANGED memoryVars
  BY <1>1, <1>3, <1>4 DEF MemoryInv, memoryVars, StoreHistorical, Past
<1>5. CASE MemorySaveUnchanged(t)
  <2>1. held[t] \in Sessions /\ Past(ToSet(held[t].events)) /\ conf \in Configs
    BY TurnTypes DEF TurnsPast
  <2>2. /\ held[t] \in Sessions' /\ conf' = conf
        /\ \A e \in ToSet(held[t].events) : e.at \in 1 .. now' - 1 /\ e.id \in 1 .. now' - 1
    BY <1>1, <1>3, <2>1 DEF Past
  <2>3. MemoryUpdateSession(t, held[t])
    BY <1>5 DEF MemorySaveUnchanged
  <2>4. MemoryInv'
    <3> DEFINE s == held[t]
    <3>1. /\ s \in Sessions' /\ MemoryUpdateSession(t, s)
          /\ \A e \in ToSet(s.events) : e.at \in 1 .. now' - 1 /\ e.id \in 1 .. now' - 1
      BY <2>2, <2>3
    <3> HIDE DEF s
    <3> QED BY <1>3, <2>1, <2>2, <3>1, MemoryUpdateFacts
  <2> QED BY <1>1, <1>3, <2>4
<1> QED BY <1>1, <1>3, <1>4, <1>5

LEMMA MemoryAppendStep ==
  ASSUME TurnsOK, TurnsPast, Sees, MemoryInv, NEW t \in Turns, AppendEvent(t)
  PROVE TurnsOK' /\ TurnsPast' /\ Sees' /\ MemoryInv' /\ conf' = conf /\ now' = now + 1
<1> DEFINE e == NewEvent(t)
           own == WithEvent(held[t], e)
           both == [own EXCEPT !.events = Append(@, e)]
           old == [stored EXCEPT !.events = IF link = "state" THEN Append(@, e) ELSE @ \o <<e, e>>,
                                 !.state = own.state]
<1>1. /\ MayAppend(t) /\ written' = written \cup {now}
      /\ conf \in Configs /\ now \in Nat \ {0} /\ held[t] \in Sessions /\ stored \in Sessions
      /\ held \in [Turns -> Sessions] /\ StoreHistorical \in BOOLEAN
  BY ServiceConfTypes DEF AppendEvent, TurnsOK, MemoryInv
<1>2. now' = now + 1 /\ conf' = conf
  BY DEF AppendEvent, AppendToLinked, MemoryAppendToCopy, Appended
<1>3. e \in EventSet' /\ e.id \in 1 .. now' /\ e.id \in 1 .. now' - 1 /\ e.at \in 1 .. now' - 1
  <2>1. e \in EventSet' /\ e.id = now /\ e.at = now
    BY <1>1, <1>2, NewEvents
  <2> QED BY <1>1, <1>2, <2>1
<1>4. Sessions \subseteq Sessions' /\ now' \in Nat \ {0} /\ \A s \in Seq(EventSet) : s \in Seq(EventSet')
  BY <1>1, <1>2, SessionsGrow
<1>5. \A R : Past(R) => \A x \in R : x.at \in 1 .. now' - 1 /\ x.id \in 1 .. now' - 1
  BY <1>1, <1>2, PastGrows
<1>6. StoreHistorical' = StoreHistorical
  BY <1>2 DEF StoreHistorical
<1> HIDE DEF e
<1>7. /\ own \in Sessions' /\ ToSet(own.events) \subseteq ToSet(held[t].events) \cup {e}
      /\ own.state \subseteq 0 .. now' /\ own.events \in Seq(EventSet')
  <2>1. /\ own \in Sessions' /\ ToSet(Append(held[t].events, e)) = ToSet(held[t].events) \cup {e}
        /\ ToSet(own.events) \subseteq ToSet(Append(held[t].events, e))
    BY <1>1, <1>2, <1>3, WithEventFacts
  <2> HIDE DEF own
  <2> QED BY <2>1 DEF Sessions
<1> HIDE DEF own
\* A step that leaves the turn with s and the store with r.
<1>8. ASSUME NEW s \in Sessions', NEW h, NEW r \in Sessions', Appended(t, "open", h), stored' = r,
             h \in [Turns -> Sessions'], h[t] = s,
             \A u \in Turns \ {t} : /\ ToSet(held[u].events) \subseteq ToSet(h[u].events)
                                    /\ ToSet(h[u].events) \subseteq ToSet(held[u].events) \cup {e},
             ToSet(own.events) \subseteq ToSet(s.events),
             ToSet(s.events) \subseteq ToSet(held[t].events) \cup {e},
             \A x \in ToSet(r.events) : x.at \in 1 .. now' - 1 /\ x.id \in 1 .. now' - 1,
             StoreHistorical \/ r.hist = <<>>,
             linked' = linked, link' = link \/ (link' = "state" /\ linked # NoTurn)
      PROVE TurnsOK' /\ TurnsPast' /\ Sees' /\ MemoryInv' /\ conf' = conf /\ now' = now + 1
  <2>1. "open" \in Phases \ {"idle"} /\ written' \subseteq written \cup {now}
    BY <1>1 DEF Phases
  <2>2. \A u \in Turns : ToSet(h[u].events) \subseteq ToSet(held[u].events) \cup {e}
    BY <1>8
  <2>3. ToSet(own.events) \subseteq ToSet(h[t].events)
    BY <1>8
  <2>4. TurnsOK' /\ TurnsPast' /\ Sees'
    <3>1. \A u \in Turns \ {t} : ToSet(held[u].events) \subseteq ToSet(h[u].events)
      BY <1>8
    <3> QED BY <1>1, <1>8, <2>1, <2>2, <2>3, <3>1, AppendedPast DEF own, e
  <2>5. MemoryInv'
    <3>1. Past(ToSet(stored.events))'
      BY <1>8 DEF Past
    <3>2. linked' \in Turns \cup {NoTurn} /\ link' \in {"copy", "state", "fields", "object"}
          /\ (link' = "copy" <=> linked' = NoTurn) /\ (link' = "object" => StoreHistorical')
      BY <1>6, <1>8 DEF MemoryInv
    <3> QED BY <1>6, <1>8, <3>1, <3>2 DEF MemoryInv
  <2> QED BY <1>2, <2>4, <2>5
<1>9. CASE linked # t
  <2> DEFINE c == [held EXCEPT ![t] = own]
             h == Shared(c, e)
             r == [stored EXCEPT !.events = Append(@, e), !.state = @ \cup {e.id}]
  <2>1. Appended(t, "open", h) /\ stored' = r /\ UNCHANGED <<linked, link>>
    BY <1>9 DEF AppendEvent, MemoryAppendToCopy, e, own
  <2>2. c \in [Turns -> Sessions'] /\ c[t] = own /\ \A u \in Turns \ {t} : c[u] = held[u]
    BY <1>1, <1>4, <1>7
  <2>3. /\ r \in Sessions' /\ ToSet(r.events) = ToSet(stored.events) \cup {e} /\ r.hist = stored.hist
    BY <1>1, <1>2, <1>3, StoredAppend
  <2> HIDE DEF c, r
  <2>4. /\ h \in [Turns -> Sessions'] /\ h[t] = c[t]
        /\ \A u \in Turns : /\ ToSet(c[u].events) \subseteq ToSet(h[u].events)
                            /\ ToSet(h[u].events) \subseteq ToSet(c[u].events) \cup {e}
    BY <1>2, <1>3, <1>9, <2>2, SharedFacts
  <2> HIDE DEF h
  <2>5. \A x \in ToSet(r.events) : x.at \in 1 .. now' - 1 /\ x.id \in 1 .. now' - 1
    BY <1>3, <1>5, <2>3 DEF MemoryInv
  <2>6. StoreHistorical \/ r.hist = <<>>
    BY <2>3 DEF MemoryInv
  <2> QED BY <1>7, <1>8, <2>1, <2>2, <2>3, <2>4, <2>5, <2>6
<1>10. CASE linked = t
  <2>0. AppendToLinked(t) /\ t # NoTurn
    BY <1>10, NoTurnAssumption DEF AppendEvent
  <2>1. /\ both \in Sessions' /\ ToSet(both.events) = ToSet(own.events) \cup {e}
        /\ both.hist = own.hist
    <3> DEFINE x == Append(own.events, e)
    <3>1. own = [events |-> own.events, hist |-> own.hist, state |-> own.state]
          /\ own.hist \in Seq(EventSet')
      BY <1>7 DEF Sessions
    <3>2. x \in Seq(EventSet') /\ ToSet(x) = ToSet(own.events) \cup {e}
      BY <1>3, <1>7, AppendSet
    <3>3. both = [own EXCEPT !.events = x]
      OBVIOUS
    <3> HIDE DEF x, both
    <3>4. both = [events |-> x, hist |-> own.hist, state |-> own.state]
      BY <3>1, <3>3
    <3> QED BY <1>7, <3>1, <3>2, <3>4 DEF Sessions
  <2>2. /\ old \in Sessions' /\ ToSet(old.events) = ToSet(stored.events) \cup {e}
        /\ old.hist = stored.hist
    <3> DEFINE x == IF link = "state" THEN Append(stored.events, e) ELSE stored.events \o <<e, e>>
    <3>1. /\ stored = [events |-> stored.events, hist |-> stored.hist, state |-> stored.state]
          /\ stored.hist \in Seq(EventSet') /\ stored.events \in Seq(EventSet')
      BY <1>1, <1>4, SessionFields
    <3>2. /\ Append(stored.events, e) \in Seq(EventSet')
          /\ ToSet(Append(stored.events, e)) = ToSet(stored.events) \cup {e}
      BY <1>3, <3>1, AppendSet
    <3>3. <<e, e>> \in Seq(EventSet') /\ ToSet(<<e, e>>) = {e}
      <4>1. <<e, e>> \in Seq(EventSet') /\ DOMAIN <<e, e>> = {1, 2}
            /\ <<e, e>>[1] = e /\ <<e, e>>[2] = e
        BY <1>3
      <4> QED BY <4>1 DEF ToSet
    <3>4. /\ stored.events \o <<e, e>> \in Seq(EventSet')
          /\ ToSet(stored.events \o <<e, e>>) = ToSet(stored.events) \cup ToSet(<<e, e>>)
      BY <3>1, <3>3, ConcatSet
    <3>5. x \in Seq(EventSet') /\ ToSet(x) = ToSet(stored.events) \cup {e}
      BY <3>2, <3>3, <3>4
    <3>6. old = [stored EXCEPT !.events = x, !.state = own.state]
      OBVIOUS
    <3> HIDE DEF x, old
    <3>7. old = [events |-> x, hist |-> stored.hist, state |-> own.state]
      BY <3>1, <3>6
    <3> QED BY <1>7, <3>1, <3>5, <3>7 DEF Sessions
  <2>3. \A x \in ToSet(both.events) : x.at \in 1 .. now' - 1 /\ x.id \in 1 .. now' - 1
    <3>1. \A x \in ToSet(held[t].events) \cup {e} : x.at \in 1 .. now' - 1 /\ x.id \in 1 .. now' - 1
      BY <1>3, <1>5 DEF TurnsPast
    <3> HIDE DEF both
    <3> QED BY <1>7, <2>1, <3>1
  <2>4. \A x \in ToSet(old.events) : x.at \in 1 .. now' - 1 /\ x.id \in 1 .. now' - 1
    <3>1. \A x \in ToSet(stored.events) \cup {e} : x.at \in 1 .. now' - 1 /\ x.id \in 1 .. now' - 1
      BY <1>3, <1>5 DEF MemoryInv
    <3> HIDE DEF old
    <3> QED BY <2>2, <3>1
  <2>5. StoreHistorical \/ old.hist = <<>>
    <3> HIDE DEF old
    <3> QED BY <2>2 DEF MemoryInv
  <2>6. \A s \in Sessions' : LET h == [held EXCEPT ![t] = s] IN
           /\ h \in [Turns -> Sessions'] /\ h[t] = s
           /\ \A u \in Turns \ {t} : h[u] = held[u]
    BY <1>1, <1>4
  <2>7. CASE link = "object"
    <3> DEFINE h == [held EXCEPT ![t] = both]
    <3>1. Appended(t, "open", h) /\ stored' = both /\ UNCHANGED <<linked, link>>
      BY <2>0, <2>7 DEF AppendToLinked, e, own
    <3>2. StoreHistorical
      BY <2>7 DEF MemoryInv
    <3> HIDE DEF both, old
    <3>3. h \in [Turns -> Sessions'] /\ h[t] = both /\ \A u \in Turns \ {t} : h[u] = held[u]
      BY <2>1, <2>6
    <3> HIDE DEF h
    <3> QED BY <1>7, <1>8, <2>1, <2>3, <3>1, <3>2, <3>3
  <2>8. CASE link = "fields" /\ MaxEvents = 0
    <3> DEFINE h == [held EXCEPT ![t] = both]
    <3>1. Appended(t, "open", h) /\ stored' = old /\ UNCHANGED <<linked, link>>
      BY <2>0, <2>8 DEF AppendToLinked, e, own
    <3> HIDE DEF both, old
    <3>3. h \in [Turns -> Sessions'] /\ h[t] = both /\ \A u \in Turns \ {t} : h[u] = held[u]
      BY <2>1, <2>6
    <3> HIDE DEF h
    <3> QED BY <1>7, <1>8, <2>1, <2>2, <2>4, <2>5, <3>1, <3>3
  <2>9. CASE link # "object" /\ ~(link = "fields" /\ MaxEvents = 0)
    <3> DEFINE h == [held EXCEPT ![t] = own]
    <3>1. Appended(t, "open", h) /\ stored' = old /\ link' = "state" /\ linked' = linked
      BY <2>0, <2>9 DEF AppendToLinked, e, own
    <3> HIDE DEF both, old
    <3>3. h \in [Turns -> Sessions'] /\ h[t] = own /\ \A u \in Turns \ {t} : h[u] = held[u]
      BY <1>7, <2>6
    <3> HIDE DEF h
    <3> QED BY <1>7, <1>8, <1>10, <2>0, <2>2, <2>4, <2>5, <3>1, <3>3
  <2> QED BY <2>7, <2>8, <2>9
<1> QED BY <1>9, <1>10

LEMMA MemoryStep ==
  ASSUME TurnsOK, TurnsPast, Sees, MemoryInv, MemoryNext
  PROVE TurnsOK' /\ TurnsPast' /\ Sees' /\ MemoryInv' /\ conf' = conf /\ now' \in {now, now + 1}
<1>1. PICK t \in Turns :
        \/ MemoryGetSession(t) \/ AppendEvent(t) \/ MemoryCompactMidTurn(t)
        \/ MemoryFinishSummary(t) \/ MemorySaveUnchanged(t)
        \/ StartSummary(t) /\ UNCHANGED memoryVars
        \/ EndTurn(t) /\ UNCHANGED memoryVars
  BY DEF MemoryNext
<1> QED BY <1>1, MemoryGetStep, MemoryAppendStep, MemoryRewriteStep, MemoryPhaseStep

-----------------------------------------------------------------------------
(* The Redis service *)

RedisInv ==
    /\ document \in Sessions /\ (StoreHistorical \/ document.hist = <<>>)
    /\ fetched \in [Turns -> SUBSET (0 .. now)]
    /\ Past(ToSet(document.events))

\* The event in flight is one of the turn's.
LEMMA CurrentFacts ==
  ASSUME TurnsOK, NEW t \in Turns, owned[t] # {}
  PROVE Max(owned[t]) \in owned[t] /\ Max(owned[t]) \in 1 .. now
<1>1. owned[t] \in SUBSET (1 .. now) /\ now \in Nat
  BY DEF TurnsOK
<1>2. owned[t] \subseteq 0 .. now
  BY <1>1
<1> QED BY <1>1, <1>2, MinMax

LEMMA RedisUpdateFacts ==
  ASSUME TurnsOK', NEW s \in Sessions',
         \A e \in ToSet(s.events) : e.at \in 1 .. now' - 1 /\ e.id \in 1 .. now' - 1,
         document' = Stripped(s), conf' = conf, conf \in Configs,
         fetched' \in [Turns -> SUBSET (0 .. now')]
  PROVE RedisInv'
<1>1. StoreHistorical \in BOOLEAN /\ StoreHistorical' = StoreHistorical
  BY ServiceConfTypes DEF StoreHistorical
<1>2. /\ s.events \in Seq(EventSet') /\ s.hist \in Seq(EventSet') /\ s.state \subseteq 0 .. now'
      /\ s = [events |-> s.events, hist |-> s.hist, state |-> s.state]
  BY DEF Sessions
<1>3. document'.events = s.events /\ document' \in Sessions' /\ (StoreHistorical \/ document'.hist = <<>>)
  <2>1. CASE StoreHistorical
    BY <2>1 DEF Stripped
  <2>2. CASE ~StoreHistorical
    <3>1. document' = [events |-> s.events, hist |-> <<>>, state |-> s.state]
      BY <1>2, <2>2 DEF Stripped
    <3>2. <<>> \in Seq(EventSet')
      OBVIOUS
    <3> QED BY <1>2, <3>1, <3>2 DEF Sessions
  <2> QED BY <1>1, <2>1, <2>2
<1>5. Past(ToSet(document.events))'
  BY <1>3 DEF Past
<1> QED BY <1>1, <1>3, <1>5 DEF RedisInv

LEMMA FetchedGrows ==
  ASSUME now \in Nat \ {0}, now' \in {now, now + 1}, fetched \in [Turns -> SUBSET (0 .. now)]
  PROVE fetched \in [Turns -> SUBSET (0 .. now')]
<1>1. 0 .. now \subseteq 0 .. now'
  BY SessionsGrow
<1> QED BY <1>1

LEMMA RedisTurnStep ==
  ASSUME TurnsOK, TurnsPast, Sees, RedisInv, NEW t \in Turns,
         \/ RedisGetSession(t) \/ RedisCompactMidTurn(t) \/ RedisFinishSummary(t)
         \/ RedisAppendToCopy(t)
  PROVE TurnsOK' /\ TurnsPast' /\ Sees' /\ RedisInv' /\ conf' = conf /\ now' \in {now, now + 1}
<1>0. /\ conf \in Configs /\ now \in Nat \ {0} /\ fetched \in [Turns -> SUBSET (0 .. now)]
      /\ held \in [Turns -> Sessions]
  BY DEF TurnsOK, RedisInv
<1>1. CASE RedisGetSession(t)
  <2> DEFINE v == [document EXCEPT !.events = Retained(@, 0, NumRecent)]
  <2>1. Hold(t, v) /\ UNCHANGED redisVars
    BY <1>1 DEF RedisGetSession
  <2>2. v \in Sessions /\ ToSet(v.events) \subseteq ToSet(document.events)
    BY ViewFacts DEF TurnsOK, RedisInv
  <2> HIDE DEF v
  <2>3. Past(ToSet(v.events))
    BY <2>2 DEF Past, RedisInv
  <2>4. TurnsOK' /\ now' = now /\ conf' = conf /\ Sessions' = Sessions
    BY <2>1, <2>2, HoldType
  <2>5. TurnsPast' /\ Sees'
    BY <2>1, <2>2, <2>3, HoldPast
  <2>6. RedisInv'
    BY <2>1, <2>4 DEF RedisInv, redisVars, StoreHistorical, Past
  <2> QED BY <2>4, <2>5, <2>6
<1>2. CASE RedisCompactMidTurn(t) \/ RedisFinishSummary(t)
  <2>1. PICK s : Rewrites(t, s) /\ document' = Stripped(s) /\ fetched' = fetched
    BY <1>2 DEF RedisCompactMidTurn, RedisFinishSummary, Rewrites, RedisUpdateSession
  <2>2. /\ TurnsOK' /\ TurnsPast' /\ Sees' /\ conf' = conf /\ now' = now + 1 /\ s \in Sessions'
        /\ \A e \in ToSet(s.events) : e.at \in 1 .. now' - 1 /\ e.id \in 1 .. now' - 1
    BY <2>1, RewriteFacts
  <2>3. fetched' \in [Turns -> SUBSET (0 .. now')]
    BY <1>0, <2>1, <2>2, FetchedGrows
  <2>4. RedisInv'
    BY <1>0, <2>1, <2>2, <2>3, RedisUpdateFacts
  <2> QED BY <2>2, <2>4
<1>3. CASE RedisAppendToCopy(t)
  <2> DEFINE e == NewEvent(t)
             w == WithEvent(held[t], e)
             h == [held EXCEPT ![t] = WithEvent(@, e)]
  <2>1. /\ MayAppend(t) /\ Appended(t, "reading", h) /\ UNCHANGED <<written, document, fetched>>
    BY <1>3 DEF RedisAppendToCopy, redisVars
  <2>2. now' = now + 1 /\ conf' = conf
    BY <2>1 DEF Appended
  <2>3. e \in EventSet' /\ e.id \in 1 .. now'
    <3>1. e \in EventSet' /\ e.id = now
      BY <1>0, <2>2, NewEvents
    <3> QED BY <1>0, <2>2, <3>1
  <2>4. Sessions \subseteq Sessions' /\ now' \in Nat \ {0} /\ held[t] \in Sessions
    BY <1>0, <2>2, SessionsGrow
  <2>5. w \in Sessions' /\ ToSet(w.events) \subseteq ToSet(held[t].events) \cup {e}
    <3> HIDE DEF e
    <3>1. /\ w \in Sessions' /\ ToSet(Append(held[t].events, e)) = ToSet(held[t].events) \cup {e}
          /\ ToSet(w.events) \subseteq ToSet(Append(held[t].events, e))
      BY <1>0, <2>2, <2>3, <2>4, WithEventFacts
    <3> QED BY <3>1
  <2>6. h \in [Turns -> Sessions'] /\ h[t] = w /\ \A u \in Turns \ {t} : h[u] = held[u]
    <3> HIDE DEF e
    <3>1. h = [held EXCEPT ![t] = w]
      BY <1>0
    <3> HIDE DEF h, w
    <3> QED BY <1>0, <2>4, <2>5, <3>1
  <2>7. "reading" \in Phases \ {"idle"} /\ written' \subseteq written \cup {now}
    BY <2>1 DEF Phases
  <2>8. TurnsOK' /\ TurnsPast' /\ Sees'
    <3>1. \A u \in Turns : ToSet(h[u].events) \subseteq ToSet(held[u].events) \cup {NewEvent(t)}
      <4> HIDE DEF h, w
      <4> QED BY <2>5, <2>6
    <3>2. ToSet(WithEvent(held[t], NewEvent(t)).events) \subseteq ToSet(h[t].events)
      <4> HIDE DEF h
      <4> QED BY <2>6
    <3>3. \A u \in Turns \ {t} : ToSet(held[u].events) \subseteq ToSet(h[u].events)
      <4> HIDE DEF h
      <4> QED BY <2>6
    <3> HIDE DEF h, w, e
    <3> QED BY <2>1, <2>6, <2>7, <3>1, <3>2, <3>3, AppendedPast
  <2>9. RedisInv'
    <3>1. fetched' \in [Turns -> SUBSET (0 .. now')]
      BY <1>0, <2>1, <2>2, FetchedGrows
    <3>2. document' \in Sessions'
      BY <2>1, <2>4 DEF RedisInv
    <3>3. Past(ToSet(document.events))'
      BY <1>0, <2>1, <2>2, PastGrows DEF Past, RedisInv
    <3>4. StoreHistorical' \/ document'.hist = <<>>
      BY <2>1, <2>2 DEF RedisInv, StoreHistorical
    <3> QED BY <3>1, <3>2, <3>3, <3>4 DEF RedisInv
  <2> QED BY <2>2, <2>8, <2>9
<1> QED BY <1>1, <1>2, <1>3

LEMMA RedisPhaseStep ==
  ASSUME TurnsOK, TurnsPast, Sees, RedisInv, NEW t \in Turns,
         \/ FetchDocument(t) \/ StoreDocument(t) \/ RedisSaveUnchanged(t)
         \/ StartSummary(t) /\ UNCHANGED redisVars
         \/ EndTurn(t) /\ UNCHANGED redisVars
  PROVE TurnsOK' /\ TurnsPast' /\ Sees' /\ RedisInv' /\ conf' = conf /\ now' = now
<1>0. /\ conf \in Configs /\ now \in Nat \ {0} /\ held[t] \in Sessions /\ Past(ToSet(held[t].events))
      /\ fetched \in [Turns -> SUBSET (0 .. now)] /\ document \in Sessions
  BY TurnTypes DEF TurnsOK, TurnsPast, RedisInv
<1>1. /\ UNCHANGED <<conf, held, count, now, owned, retired>> /\ pc[t] # "idle"
      /\ \/ pc' = [pc EXCEPT ![t] = "done"] /\ written' = written
         \/ pc' = [pc EXCEPT ![t] = "summing"] /\ written' = written
         \/ pc' = [pc EXCEPT ![t] = "appending"] /\ pc[t] = "reading" /\ written' = written
         \/ /\ pc' = [pc EXCEPT ![t] = "open"] /\ pc[t] = "appending"
            /\ written' = written \cup {RedisCurrent(t)}
  BY DEF FetchDocument, StoreDocument, RedisSaveUnchanged, StartSummary, EndTurn
<1>2. pc[t] = "appending" => owned[t] # {}
  BY DEF TurnsPast
<1>3. pc[t] = "appending" => RedisCurrent(t) \in owned[t] /\ RedisCurrent(t) \in 1 .. now
  BY <1>2, CurrentFacts DEF RedisCurrent
<1>4. TurnsOK' /\ TurnsPast' /\ Sees' /\ Sessions' = Sessions
  <2>1. written' \subseteq written \cup owned[t]
    BY <1>1, <1>3
  <2>2. ASSUME NEW p \in {"done", "summing", "appending", "open"}, pc' = [pc EXCEPT ![t] = p],
               p = "appending" => pc[t] = "reading"
        PROVE TurnsOK' /\ TurnsPast' /\ Sees' /\ Sessions' = Sessions
    <3>1. p \in Phases \ {"idle"} /\ (p \in {"reading", "appending"} => pc[t] \in {"reading", "appending"})
      BY <2>2 DEF Phases
    <3> QED BY <1>1, <2>1, <2>2, <3>1, PhasePast
  <2> QED BY <1>1, <2>2
<1>5. \A e \in ToSet(held[t].events) : e.at \in 1 .. now' - 1 /\ e.id \in 1 .. now' - 1
  BY <1>0, <1>1 DEF Past
<1>6. CASE FetchDocument(t)
  <2>1. fetched' = [fetched EXCEPT ![t] = document.state] /\ document' = document
    BY <1>6 DEF FetchDocument
  <2>2. document.state \subseteq 0 .. now
    BY <1>0, SessionFields
  <2>3. fetched' \in [Turns -> SUBSET (0 .. now')]
    BY <1>0, <1>1, <2>1, <2>2
  <2>4. RedisInv'
    BY <1>1, <1>4, <2>1, <2>3 DEF RedisInv, StoreHistorical, Past
  <2> QED BY <1>1, <1>4, <2>4
<1>7. CASE StoreDocument(t)
  <2> DEFINE x == fetched[t] \cup {RedisCurrent(t)}
             s == [held[t] EXCEPT !.state = x]
  <2>1. /\ document' = Stripped(s) /\ fetched' = fetched /\ pc[t] = "appending"
    BY <1>7 DEF StoreDocument
  <2>2. x \subseteq 0 .. now
    <3>1. RedisCurrent(t) \in 0 .. now /\ fetched[t] \subseteq 0 .. now
      <4>1. 1 .. now \subseteq 0 .. now
        OBVIOUS
      <4> QED BY <1>0, <1>3, <2>1, <4>1
    <3> QED BY <3>1
  <2> HIDE DEF x
  <2>3. s = [events |-> held[t].events, hist |-> held[t].hist, state |-> x]
        /\ held[t].events \in Seq(EventSet) /\ held[t].hist \in Seq(EventSet)
    BY <1>0, SessionFields
  <2> HIDE DEF s
  <2>4. s \in Sessions' /\ s.events = held[t].events
    BY <1>4, <2>2, <2>3 DEF Sessions
  <2>5. fetched' \in [Turns -> SUBSET (0 .. now')]
    BY <1>0, <1>1, <2>1
  <2>6. RedisInv'
    BY <1>0, <1>1, <1>4, <1>5, <2>1, <2>4, <2>5, RedisUpdateFacts
  <2> QED BY <1>1, <1>4, <2>6
<1>8. CASE RedisSaveUnchanged(t)
  <2> DEFINE s == held[t]
  <2>1. document' = Stripped(s) /\ fetched' = fetched
    BY <1>8 DEF RedisSaveUnchanged, RedisUpdateSession
  <2>2. s \in Sessions' /\ \A e \in ToSet(s.events) : e.at \in 1 .. now' - 1 /\ e.id \in 1 .. now' - 1
    BY <1>0, <1>4, <1>5
  <2> HIDE DEF s
  <2>3. fetched' \in [Turns -> SUBSET (0 .. now')]
    BY <1>0, <1>1, <2>1
  <2>4. RedisInv'
    BY <1>0, <1>1, <1>4, <2>1, <2>2, <2>3, RedisUpdateFacts
  <2> QED BY <1>1, <1>4, <2>4
<1>9. CASE UNCHANGED redisVars
  BY <1>1, <1>4, <1>9 DEF RedisInv, redisVars, StoreHistorical, Past
<1> QED BY <1>6, <1>7, <1>8, <1>9

LEMMA RedisStep ==
  ASSUME TurnsOK, TurnsPast, Sees, RedisInv, RedisNext
  PROVE TurnsOK' /\ TurnsPast' /\ Sees' /\ RedisInv' /\ conf' = conf /\ now' \in {now, now + 1}
<1>1. PICK t \in Turns :
        \/ RedisGetSession(t)
        \/ RedisAppendToCopy(t) \/ FetchDocument(t) \/ StoreDocument(t)
        \/ RedisCompactMidTurn(t) \/ RedisFinishSummary(t) \/ RedisSaveUnchanged(t)
        \/ StartSummary(t) /\ UNCHANGED redisVars
        \/ EndTurn(t) /\ UNCHANGED redisVars
  BY DEF RedisNext
<1> QED BY <1>1, RedisTurnStep, RedisPhaseStep

-----------------------------------------------------------------------------
(* The SQL service *)

\* No two events of a list have one timestamp.
Spread(s) == \A i, j \in DOMAIN s : i < j => s[i].at # s[j].at

LEMMA SpreadSublist ==
  ASSUME NEW E, NEW r \in Seq(E), NEW s \in Seq(E), Sublist(r, s), Spread(s)
  PROVE Spread(r)
<1>1. PICK f : Picks(f, r, s)
  BY DEF Sublist
<1>2. DOMAIN r = 1 .. Len(r) /\ DOMAIN s = 1 .. Len(s)
  OBVIOUS
<1>3. \A i \in DOMAIN r : f[i] \in DOMAIN s /\ r[i] = s[f[i]]
  BY <1>1, <1>2 DEF Picks
<1>4. \A i, j \in DOMAIN r : i < j => f[i] < f[j]
  BY <1>1, <1>2 DEF Picks
<1> QED BY <1>3, <1>4 DEF Spread

LEMMA SpreadSet ==
  ASSUME NEW E, NEW s \in Seq(E), Spread(s)
  PROVE OneAtATime(ToSet(s))
<1> SUFFICES ASSUME NEW d \in ToSet(s), NEW e \in ToSet(s), d.at = e.at PROVE d = e
  BY DEF OneAtATime
<1>1. DOMAIN s = 1 .. Len(s) /\ Len(s) \in Nat
  OBVIOUS
<1>2. PICK i \in DOMAIN s : d = s[i]
  BY DEF ToSet
<1>3. PICK j \in DOMAIN s : e = s[j]
  BY DEF ToSet
<1>4. ~(i < j) /\ ~(j < i)
  BY <1>2, <1>3 DEF Spread
<1>5. i = j
  BY <1>1, <1>4
<1> QED BY <1>2, <1>3, <1>5

LEMMA SpreadAppend ==
  ASSUME NEW E, NEW s \in Seq(E), NEW e \in E, Spread(s), \A d \in ToSet(s) : d.at # e.at
  PROVE Spread(Append(s, e))
<1> DEFINE r == Append(s, e)
<1>1. /\ Len(s) \in Nat /\ DOMAIN s = 1 .. Len(s) /\ DOMAIN r = 1 .. Len(s) + 1
      /\ \A i \in 1 .. Len(s) : r[i] = s[i]
      /\ r[Len(s) + 1] = e
  BY AppendProperties
<1>2. \A i \in 1 .. Len(s) : s[i] \in ToSet(s)
  BY <1>1 DEF ToSet
<1> HIDE DEF r
<1>3. ASSUME NEW i \in DOMAIN r, NEW j \in DOMAIN r, i < j PROVE r[i].at # r[j].at
  <2>1. i \in 1 .. Len(s) /\ r[i] = s[i]
    BY <1>1, <1>3
  <2>2. CASE j \in 1 .. Len(s)
    BY <1>1, <1>3, <2>1, <2>2 DEF Spread
  <2>3. CASE j = Len(s) + 1
    BY <1>1, <1>2, <2>1, <2>3
  <2> QED BY <1>1, <2>2, <2>3
<1> QED BY <1>3 DEF Spread, r

\* A list led by a summary: the summary, then what is left.
Led(x, s) == <<x>> \o s

LEMMA LedList ==
  ASSUME NEW E, NEW s \in Seq(E), NEW k \in 2 .. Len(s) + 1, NEW x \in E, NEW r,
         r = Led(x, From(s, k))
  PROVE /\ r \in Seq(E) /\ DOMAIN r = 1 .. Len(s) - k + 2 /\ r[1] = x
        /\ \A i \in DOMAIN r : i # 1 => k + i - 2 \in 2 .. Len(s) /\ r[i] = s[k + i - 2]
<1>1. /\ From(s, k) \in Seq(E) /\ Len(From(s, k)) = Len(s) - k + 1
      /\ \A i \in 1 .. Len(s) - k + 1 : From(s, k)[i] = s[k + i - 1]
      /\ Len(s) \in Nat
  <2>1. k \in 1 .. Len(s) + 1 /\ Len(s) \in Nat
    OBVIOUS
  <2> QED BY <2>1, Halves
<1> DEFINE l == From(s, k)
<1> HIDE DEF l
<1> DEFINE o == <<x>>
<1>2. o \in Seq(E) /\ Len(o) = 1 /\ o[1] = x
  OBVIOUS
<1>7. r = o \o l /\ l \in Seq(E)
  BY <1>1 DEF l, Led
<1> HIDE DEF o
<1>3. /\ r \in Seq(E) /\ Len(r) = 1 + Len(l)
      /\ \A i \in 1 .. 1 + Len(l) : r[i] = IF i <= 1 THEN o[i] ELSE l[i - 1]
  <2>1. /\ o \o l \in Seq(E) /\ Len(o \o l) = Len(o) + Len(l)
        /\ \A i \in 1 .. Len(o) + Len(l) : (o \o l)[i] = IF i <= Len(o) THEN o[i] ELSE l[i - Len(o)]
    BY <1>2, <1>7, ConcatProperties
  <2> QED BY <1>2, <1>7, <2>1
<1>4. DOMAIN r = 1 .. Len(s) - k + 2
  BY <1>1, <1>3 DEF l
<1>5. r[1] = x
  <2>1. 1 \in 1 .. 1 + Len(l)
    BY <1>1 DEF l
  <2> QED BY <1>2, <1>3, <2>1
<1>6. ASSUME NEW i \in DOMAIN r, i # 1 PROVE k + i - 2 \in 2 .. Len(s) /\ r[i] = s[k + i - 2]
  <2>1. i - 1 \in 1 .. Len(s) - k + 1 /\ i \in 1 .. 1 + Len(l) /\ ~(i <= 1)
        /\ k + (i - 1) - 1 = k + i - 2 /\ k + i - 2 \in 2 .. Len(s)
    BY <1>1, <1>4, <1>6 DEF l
  <2>2. r[i] = l[i - 1]
    BY <1>3, <2>1
  <2>3. l[i - 1] = s[k + (i - 1) - 1]
    BY <1>1, <2>1 DEF l
  <2> QED BY <2>1, <2>2, <2>3
<1> QED BY <1>3, <1>4, <1>5, <1>6

LEMMA LedSpread ==
  ASSUME NEW E, NEW q \in Seq(E), NEW k \in 2 .. Len(q) + 1, NEW x \in E, NEW r,
         r = Led(x, From(q, k)), Spread(q),
         x.at = q[1].at \/ \A d \in ToSet(q) : d.at # x.at
  PROVE Spread(r)
<1>1. /\ DOMAIN r = 1 .. Len(q) - k + 2 /\ r[1] = x
      /\ \A i \in DOMAIN r : i # 1 => k + i - 2 \in 2 .. Len(q) /\ r[i] = q[k + i - 2]
  BY LedList
<1>2. /\ DOMAIN q = 1 .. Len(q) /\ Len(q) \in Nat /\ \A i \in 1 .. Len(q) : q[i] \in ToSet(q)
  BY DEF ToSet
<1>3. ASSUME NEW i \in DOMAIN r, NEW j \in DOMAIN r, i < j PROVE r[i].at # r[j].at
  <2>0. k \in Int /\ i \in Int /\ j \in Int /\ j # 1
    BY <1>1, <1>2, <1>3
  <2>1. k + j - 2 \in 2 .. Len(q) /\ r[j] = q[k + j - 2]
    BY <1>1, <2>0
  <2>2. CASE i = 1
    <3>1. 1 \in DOMAIN q /\ k + j - 2 \in DOMAIN q /\ 1 < k + j - 2
      BY <1>2, <2>1
    <3>2. q[k + j - 2] \in ToSet(q) /\ q[1].at # q[k + j - 2].at
      BY <1>2, <3>1 DEF Spread
    <3> QED BY <1>1, <2>1, <2>2, <3>2
  <2>3. CASE i # 1
    <3>1. k + i - 2 \in 2 .. Len(q) /\ r[i] = q[k + i - 2]
      BY <1>1, <2>3
    <3>2. k + i - 2 \in DOMAIN q /\ k + j - 2 \in DOMAIN q /\ k + i - 2 < k + j - 2
      BY <1>2, <1>3, <2>0, <2>1, <3>1
    <3> QED BY <2>1, <3>1, <3>2 DEF Spread
  <2> QED BY <2>2, <2>3
<1> QED BY <1>3 DEF Spread

LEMMA SummarySpread ==
  ASSUME NEW E, NEW s, s.events \in Seq(E), NEW k \in 2 .. Len(s.events) + 1, NEW x \in E,
         NEW keep, Spread(s.events), s = [events |-> s.events, hist |-> s.hist, state |-> s.state],
         x.at = s.events[1].at \/ \A d \in ToSet(s.events) : d.at # x.at
  PROVE Spread(Summary(s, k, x, keep).events)
<1> DEFINE q == s.events
           r == Led(x, From(q, k))
           h == IF keep THEN s.hist \o Dropped(Upto(q, k - 1), s.hist) ELSE s.hist
<1>1. Summary(s, k, x, keep) = [s EXCEPT !.events = r, !.hist = h]
  BY DEF Summary, Led
<1>2. /\ q \in Seq(E) /\ k \in 2 .. Len(q) + 1 /\ Spread(q)
      /\ x.at = q[1].at \/ \A d \in ToSet(q) : d.at # x.at
  OBVIOUS
<1>3. r = Led(x, From(q, k))
  OBVIOUS
<1> HIDE DEF q, r, h
<1>4. Spread(r)
  BY <1>2, <1>3, LedSpread
<1> QED BY <1>1, <1>4

SqlTypes ==
    /\ rows \subseteq EventSet /\ IsFiniteSet(rows) /\ Past(rows)
    /\ hist \in Seq(EventSet) /\ state \subseteq 0 .. now
    /\ StoreHistorical \/ hist = <<>>
    /\ touched \subseteq {t \in Turns : pc[t] = "appending"}
    /\ dropped \in [Turns -> SUBSET (1 .. now)]

\* The event that turn t is appending is in no row and in no other copy.
Free(t) ==
    /\ \A e \in rows : e.at # Max(owned[t])
    /\ \A u \in Turns \ {t} : \A e \in ToSet(held[u].events) : e.at # Max(owned[t])

SqlApart ==
    /\ OneAtATime(rows) /\ \A t \in Turns : Spread(held[t].events)
    /\ \A t, u \in Turns : t # u => owned[t] \cap owned[u] = {}
    /\ \A t \in Turns : pc[t] = "appending" => Free(t)

\* What get_session reads, before the view is made.
LEMMA SqlStoredFacts ==
  ASSUME SqlTypes, OneAtATime(rows), now \in Nat
  PROVE /\ SqlStored \in Sessions /\ ToSet(SqlStored.events) = rows /\ Spread(SqlStored.events)
        /\ SqlStored.hist = hist /\ SqlStored.state = state
        /\ SqlStored.events = InTimeOrder(rows)
        /\ SqlStored = [events |-> SqlStored.events, hist |-> hist, state |-> state]
<1>1. \A e \in EventSet : e.at \in Nat
  BY DEF EventSet
<1>2. /\ InTimeOrder(rows) \in Seq(EventSet) /\ ToSet(InTimeOrder(rows)) = rows
      /\ \A i, j \in DOMAIN InTimeOrder(rows) :
            i < j => InTimeOrder(rows)[i].at < InTimeOrder(rows)[j].at
  BY <1>1, InTimeOrderFacts DEF SqlTypes
<1>3. Spread(InTimeOrder(rows))
  <2> DEFINE q == InTimeOrder(rows)
  <2> SUFFICES ASSUME NEW i \in DOMAIN q, NEW j \in DOMAIN q, i < j PROVE q[i].at # q[j].at
    BY DEF Spread
  <2>1. q \in Seq(EventSet) /\ q[i].at < q[j].at
    BY <1>2
  <2> HIDE DEF q
  <2>2. q[i] \in EventSet /\ q[j] \in EventSet
    BY <2>1
  <2>3. q[i].at \in Nat /\ q[j].at \in Nat
    BY <1>1, <2>2
  <2> QED BY <2>1, <2>3
<1> QED BY <1>2, <1>3 DEF SqlStored, Sessions, SqlTypes

\* A commit by t leaves the marks on turns that are appending.
LEMMA TouchFacts ==
  ASSUME SqlTypes, NEW t \in Turns, Touch(t), \A u \in Turns \ {t} : pc'[u] = pc[u]
  PROVE touched' \subseteq {u \in Turns : pc'[u] = "appending"}
BY DEF SqlTypes, Touch

LEMMA TouchedRest ==
  ASSUME SqlTypes, NEW t \in Turns, touched' \subseteq touched \ {t},
         \A u \in Turns \ {t} : pc'[u] = pc[u]
  PROVE touched' \subseteq {u \in Turns : pc'[u] = "appending"}
BY DEF SqlTypes

\* What is only kept stays well-typed in time.
LEMMA SqlTypesKept ==
  ASSUME SqlTypes, now \in Nat \ {0}, now' \in {now, now + 1}, conf' = conf
  PROVE /\ rows \subseteq EventSet' /\ hist \in Seq(EventSet') /\ state \subseteq 0 .. now'
        /\ dropped \in [Turns -> SUBSET (1 .. now')]
        /\ \A e \in rows : e.at \in 1 .. now' - 1 /\ e.id \in 1 .. now' - 1
        /\ StoreHistorical' \/ hist = <<>>
<1>1. /\ EventSet \subseteq EventSet' /\ \A s \in Seq(EventSet) : s \in Seq(EventSet')
      /\ 0 .. now \subseteq 0 .. now' /\ 1 .. now \subseteq 1 .. now'
  BY SessionsGrow
<1>2. \A e \in rows : e.at \in 1 .. now' - 1 /\ e.id \in 1 .. now' - 1
  BY PastGrows DEF SqlTypes
<1>3. StoreHistorical' \/ hist = <<>>
  BY DEF SqlTypes, StoreHistorical
<1> QED BY <1>1, <1>2, <1>3 DEF SqlTypes

\* What the view takes of the latest events is part of the list.
LEMMA RecentView ==
  ASSUME NEW E, NEW q \in Seq(E), NEW n \in Nat
  PROVE /\ Retained(MostRecent(q, n), 0, n) \in Seq(E) /\ Sublist(Retained(MostRecent(q, n), 0, n), q)
        /\ n = 0 => Retained(MostRecent(q, n), 0, n) = q
<1>1. MostRecent(q, n) \in Seq(E) /\ Sublist(MostRecent(q, n), q)
  <2>1. \/ MostRecent(q, n) = q
        \/ \E m \in 1 .. Len(q) : MostRecent(q, n) = From(q, m)
    BY MostRecentFacts
  <2>2. CASE MostRecent(q, n) = q
    BY <2>2, SublistSelf
  <2>3. CASE \E m \in 1 .. Len(q) : MostRecent(q, n) = From(q, m)
    <3>1. PICK m \in 1 .. Len(q) : MostRecent(q, n) = From(q, m)
      BY <2>3
    <3>2. m \in 1 .. Len(q) + 1
      OBVIOUS
    <3>3. From(q, m) \in Seq(E) /\ Sublist(From(q, m), q)
      BY <3>2, Halves
    <3> QED BY <3>1, <3>3
  <2> QED BY <2>1, <2>2, <2>3
<1> DEFINE p == MostRecent(q, n)
<1> HIDE DEF p
<1>2. p \in Seq(E) /\ Sublist(p, q)
  BY <1>1 DEF p
<1>3. Retained(p, 0, n) \in Seq(E) /\ Sublist(Retained(p, 0, n), p)
  BY <1>2, RetainedFacts
<1>4. Sublist(Retained(p, 0, n), q)
  BY <1>2, <1>3, SublistTrans
<1>5. n = 0 => Retained(MostRecent(q, n), 0, n) = q
  BY DEF MostRecent, Retained
<1> QED BY <1>3, <1>4, <1>5 DEF p

LEMMA SqlGetStep ==
  ASSUME TurnsOK, TurnsPast, SqlTypes, SqlApart, NEW t \in Turns, SqlGetSession(t)
  PROVE TurnsOK' /\ TurnsPast' /\ SqlTypes' /\ SqlApart' /\ conf' = conf /\ now' = now
<1> DEFINE q == SqlStored.events
           r == Retained(MostRecent(q, NumRecent), 0, NumRecent)
           v == [SqlStored EXCEPT !.events = r]
<1>0. now \in Nat \ {0} /\ conf \in Configs /\ NumRecent \in Nat
  BY ServiceConfTypes DEF TurnsOK
<1>1. Hold(t, v) /\ Touch(t) /\ UNCHANGED <<dataVars, dropped>>
  BY DEF SqlGetSession
<1>2. /\ ToSet(q) = rows /\ Spread(q) /\ hist \in Seq(EventSet)
      /\ state \subseteq 0 .. now /\ q \in Seq(EventSet)
      /\ SqlStored = [events |-> q, hist |-> hist, state |-> state]
  BY <1>0, SqlStoredFacts, SessionFields DEF SqlTypes, SqlApart
<1> HIDE DEF q
<1>3. r \in Seq(EventSet) /\ Sublist(r, q)
  BY <1>0, <1>2, RecentView
<1> HIDE DEF r
<1>4. v = [events |-> r, hist |-> hist, state |-> state]
  BY <1>2
<1> HIDE DEF v
<1>5. v \in Sessions
  BY <1>2, <1>3, <1>4 DEF Sessions
<1>6. ToSet(v.events) \subseteq rows /\ Spread(v.events)
  <2>1. ToSet(r) \subseteq ToSet(q)
    BY <1>2, <1>3, SublistElements
  <2>2. Spread(r)
    BY <1>2, <1>3, SpreadSublist
  <2> QED BY <1>2, <1>4, <2>1, <2>2
<1>7. Past(ToSet(v.events))
  BY <1>6 DEF Past, SqlTypes
<1>8. /\ TurnsOK' /\ now' = now /\ conf' = conf /\ EventSet' = EventSet
  BY <1>1, <1>5, HoldType
<1>9. /\ TurnsPast' /\ held'[t] = v /\ pc'[t] = "open" /\ pc[t] = "idle"
      /\ \A u \in Turns \ {t} : held'[u] = held[u] /\ pc'[u] = pc[u]
      /\ owned' = owned
  BY <1>1, <1>5, <1>7, HoldPast
<1>10. SqlTypes'
  <2>1. touched' \subseteq {u \in Turns : pc'[u] = "appending"}
    BY <1>1, <1>9, TouchFacts
  <2>2. rows' = rows /\ hist' = hist /\ state' = state /\ dropped' = dropped
    BY <1>1 DEF dataVars
  <2> QED BY <1>8, <2>1, <2>2 DEF SqlTypes, Past, StoreHistorical
<1>11. SqlApart'
  <2>1. rows' = rows
    BY <1>1 DEF dataVars
  <2>2. \A u \in Turns : Spread(held'[u].events)
    BY <1>6, <1>9 DEF SqlApart
  <2>3. ASSUME NEW w \in Turns, pc'[w] = "appending" PROVE Free(w)'
    <3>1. w # t /\ pc[w] = "appending" /\ Free(w)
      BY <1>9, <2>3 DEF SqlApart
    <3>2. \A u \in Turns \ {w} : \A e \in ToSet(held'[u].events) : e.at # Max(owned[w])
      <4> SUFFICES ASSUME NEW u \in Turns \ {w}, NEW e \in ToSet(held'[u].events)
                   PROVE e.at # Max(owned[w])
        OBVIOUS
      <4>1. CASE u = t
        BY <1>6, <1>9, <3>1, <4>1 DEF Free
      <4>2. CASE u # t
        BY <1>9, <3>1, <4>2 DEF Free
      <4> QED BY <4>1, <4>2
    <3> QED BY <1>9, <2>1, <3>1, <3>2 DEF Free
  <2> QED BY <1>9, <2>1, <2>2, <2>3 DEF SqlApart
<1> QED BY <1>8, <1>9, <1>10, <1>11

\* The latest event of a turn that has just appended is the new one.
LEMMA LatestIsNew ==
  ASSUME now \in Nat \ {0}, NEW S, S \subseteq 1 .. now - 1
  PROVE Max(S \cup {now}) = now
<1>1. S \cup {now} \subseteq 0 .. now /\ S \cup {now} # {}
  OBVIOUS
<1>2. Max(S \cup {now}) \in S \cup {now} /\ \A k \in S \cup {now} : Max(S \cup {now}) >= k
  BY <1>1, MinMax
<1> DEFINE m == Max(S \cup {now})
<1>3. m \in S \cup {now} /\ m >= now
  BY <1>2
<1> HIDE DEF m
<1>4. m = now
  BY <1>3
<1> QED BY <1>4 DEF m

LEMMA SqlAppendStep ==
  ASSUME TurnsOK, TurnsPast, SqlTypes, SqlApart, NEW t \in Turns, SqlAppendToCopy(t)
  PROVE TurnsOK' /\ TurnsPast' /\ SqlTypes' /\ SqlApart' /\ conf' = conf /\ now' = now + 1
<1> DEFINE e == NewEvent(t)
           all == Append(held[t].events, e)
           w == WithEvent(held[t], e)
           out == Dropped(all, w.events)
           h == [held EXCEPT ![t] = w]
<1>0. /\ conf \in Configs /\ now \in Nat \ {0} /\ held \in [Turns -> Sessions]
      /\ held[t] \in Sessions /\ held[t].events \in Seq(EventSet)
  BY TurnTypes DEF TurnsOK
<1>1. /\ MayAppend(t) /\ Appended(t, "appending", h) /\ UNCHANGED <<written, rows, hist, state>>
      /\ dropped' = [dropped EXCEPT ![t] = Ids(out)] /\ touched' = touched \ {t}
  BY DEF SqlAppendToCopy, dataVars
<1>2. now' = now + 1 /\ conf' = conf
  BY <1>1 DEF Appended
<1>3. e \in EventSet' /\ e.id \in 1 .. now' /\ e.at = now
  <2>1. e \in EventSet' /\ e.id = now /\ e.at = now
    BY <1>0, <1>2, NewEvents
  <2> QED BY <1>0, <1>2, <2>1
<1>4. Sessions \subseteq Sessions' /\ now' \in Nat \ {0} /\ held[t].events \in Seq(EventSet')
  BY <1>0, <1>2, SessionsGrow
<1> HIDE DEF e
<1>5. /\ w \in Sessions' /\ ToSet(w.events) \subseteq ToSet(held[t].events) \cup {e}
      /\ out \in Seq(EventSet') /\ Sublist(w.events, all) /\ all \in Seq(EventSet')
      /\ w.events \in Seq(EventSet')
  <2>1. /\ w \in Sessions' /\ all \in Seq(EventSet') /\ Sublist(w.events, all)
        /\ ToSet(all) = ToSet(held[t].events) \cup {e} /\ ToSet(w.events) \subseteq ToSet(all)
    BY <1>0, <1>2, <1>3, WithEventFacts
  <2>2. /\ Dropped(all, Retained(all, 0, MaxEvents)) \in Seq(EventSet')
        /\ w.events = Retained(all, 0, MaxEvents)
    BY <1>0, <1>2, <1>3, WithEventFacts
  <2> HIDE DEF w, all
  <2>3. w.events \in Seq(EventSet')
    BY <2>1 DEF Sessions
  <2> QED BY <2>1, <2>2, <2>3
<1>6. Spread(w.events)
  <2>1. \A d \in ToSet(held[t].events) : d.at # e.at
    BY <1>0, <1>3 DEF TurnsPast, Past
  <2>2. Spread(all)
    BY <1>3, <1>4, <2>1, SpreadAppend DEF SqlApart
  <2> HIDE DEF w, all
  <2> QED BY <1>5, <2>2, SpreadSublist
<1> HIDE DEF w, all, out
<1>7. h \in [Turns -> Sessions'] /\ h[t] = w /\ \A u \in Turns \ {t} : h[u] = held[u]
  BY <1>0, <1>4, <1>5
<1> HIDE DEF h
<1>8. /\ TurnsOK' /\ TurnsPast' /\ held' = h /\ pc'[t] = "appending" /\ pc[t] = "open"
      /\ \A u \in Turns \ {t} : pc'[u] = pc[u] /\ owned'[u] = owned[u]
      /\ owned'[t] = owned[t] \cup {now}
  <2>1. "appending" \in Phases \ {"idle"} /\ written' \subseteq written \cup {now}
    BY <1>1 DEF Phases
  <2>2. \A u \in Turns : ToSet(h[u].events) \subseteq ToSet(held[u].events) \cup {NewEvent(t)}
    BY <1>5, <1>7 DEF e
  <2> QED BY <1>1, <1>7, <2>1, <2>2, AppendedPast
<1>9. SqlTypes'
  <2>1. /\ rows \subseteq EventSet' /\ hist \in Seq(EventSet') /\ state \subseteq 0 .. now'
        /\ dropped \in [Turns -> SUBSET (1 .. now')]
        /\ \A x \in rows : x.at \in 1 .. now' - 1 /\ x.id \in 1 .. now' - 1
        /\ StoreHistorical' \/ hist = <<>>
    BY <1>0, <1>2, SqlTypesKept
  <2>2. Ids(out) \subseteq 1 .. now'
    <3>1. ToSet(out) \subseteq EventSet' /\ Ids(out) = {x.id : x \in ToSet(out)}
      BY <1>5, ToSetFacts
    <3> QED BY <3>1 DEF EventSet
  <2>3. dropped' \in [Turns -> SUBSET (1 .. now')]
    BY <1>1, <2>1, <2>2
  <2>4. touched' \subseteq {u \in Turns : pc'[u] = "appending"}
    BY <1>1, <1>8, TouchedRest
  <2> QED BY <1>1, <2>1, <2>3, <2>4 DEF SqlTypes, Past
<1>10. SqlApart'
  <2>0. /\ \A u \in Turns : owned[u] \subseteq 1 .. now - 1
        /\ \A x \in rows : x.at \in 1 .. now - 1
        /\ \A u \in Turns : \A x \in ToSet(held[u].events) : x.at \in 1 .. now - 1
    BY DEF TurnsPast, SqlTypes, Past
  <2>1. \A u \in Turns : Spread(held'[u].events)
    BY <1>6, <1>7, <1>8 DEF SqlApart
  <2>2. ASSUME NEW u \in Turns, NEW v \in Turns, u # v PROVE owned'[u] \cap owned'[v] = {}
    <3>1. owned[u] \cap owned[v] = {} /\ now \notin 1 .. now - 1
      BY <1>0, <2>2 DEF SqlApart
    <3>2. CASE u = t
      BY <1>8, <2>0, <2>2, <3>1, <3>2
    <3>3. CASE v = t
      BY <1>8, <2>0, <2>2, <3>1, <3>3
    <3>4. CASE u # t /\ v # t
      BY <1>8, <3>1, <3>4
    <3> QED BY <3>2, <3>3, <3>4
  <2>3. ASSUME NEW v \in Turns, pc'[v] = "appending" PROVE Free(v)'
    <3>1. CASE v = t
      <4>1. Max(owned'[t]) = now
        BY <1>0, <1>8, <2>0, LatestIsNew
      <4>2. now \notin 1 .. now - 1
        BY <1>0
      <4>3. \A x \in rows' : x.at # now
        BY <1>1, <2>0, <4>2
      <4>4. \A u \in Turns \ {t} : \A x \in ToSet(held'[u].events) : x.at # now
        BY <1>7, <1>8, <2>0, <4>2
      <4> QED BY <3>1, <4>1, <4>3, <4>4 DEF Free
    <3>2. CASE v # t
      <4>1. pc[v] = "appending" /\ Free(v) /\ owned'[v] = owned[v] /\ owned[v] # {}
        BY <1>8, <2>3, <3>2 DEF SqlApart, TurnsPast
      <4>2. Max(owned[v]) # now
        <5>1. Max(owned[v]) \in owned[v]
          BY <4>1, CurrentFacts
        <5>2. now \notin 1 .. now - 1
          BY <1>0
        <5> QED BY <2>0, <5>1, <5>2
      <4>3. \A u \in Turns \ {v} : \A x \in ToSet(held'[u].events) : x.at # Max(owned[v])
        <5> SUFFICES ASSUME NEW u \in Turns \ {v}, NEW x \in ToSet(held'[u].events)
                     PROVE x.at # Max(owned[v])
          OBVIOUS
        <5>1. \A y \in ToSet(held[u].events) : y.at # Max(owned[v])
          BY <4>1 DEF Free
        <5>2. CASE u = t
          <6>1. x \in ToSet(held[t].events) \cup {e}
            BY <1>5, <1>7, <1>8, <5>2
          <6> QED BY <1>3, <4>2, <5>1, <5>2, <6>1
        <5>3. CASE u # t
          BY <1>7, <1>8, <5>1, <5>3
        <5> QED BY <5>2, <5>3
      <4> QED BY <1>1, <4>1, <4>3 DEF Free
    <3> QED BY <3>1, <3>2
  <2> QED BY <1>1, <2>1, <2>2, <2>3 DEF SqlApart
<1> QED BY <1>2, <1>8, <1>9, <1>10

\* update_session: the rows are the events of the turn.
LEMMA SqlUpdateFacts ==
  ASSUME SqlTypes, conf \in Configs, conf' = conf, now \in Nat \ {0}, now' \in {now, now + 1},
         NEW t \in Turns, NEW s \in Sessions', Spread(s.events),
         \A e \in ToSet(s.events) : e.at \in 1 .. now' - 1 /\ e.id \in 1 .. now' - 1,
         SqlUpdateSession(t, s), \A u \in Turns \ {t} : pc'[u] = pc[u]
  PROVE SqlTypes' /\ rows' = ToSet(s.events) /\ OneAtATime(rows')
<1>1. /\ s.events \in Seq(EventSet') /\ s.hist \in Seq(EventSet') /\ s.state \subseteq 0 .. now'
  BY DEF Sessions
<1>2. /\ rows' = ToSet(s.events) /\ hist' = IF StoreHistorical THEN s.hist ELSE <<>>
      /\ state' = s.state /\ Touch(t) /\ dropped' = dropped
  BY DEF SqlUpdateSession
<1>3. ToSet(s.events) \subseteq EventSet' /\ IsFiniteSet(ToSet(s.events)) /\ OneAtATime(ToSet(s.events))
  <2>1. ToSet(s.events) \subseteq EventSet'
    BY <1>1, ToSetFacts
  <2>2. IsFiniteSet(ToSet(s.events))
    BY <1>1, FiniteToSet
  <2>3. OneAtATime(ToSet(s.events))
    BY <1>1, SpreadSet
  <2> QED BY <2>1, <2>2, <2>3
<1>4. touched' \subseteq {u \in Turns : pc'[u] = "appending"}
  BY <1>2, TouchFacts
<1>5. dropped' \in [Turns -> SUBSET (1 .. now')]
  BY <1>2, SqlTypesKept
<1>6. StoreHistorical \in BOOLEAN /\ StoreHistorical' = StoreHistorical
  BY ServiceConfTypes DEF StoreHistorical
<1>7. hist' \in Seq(EventSet') /\ (StoreHistorical' \/ hist' = <<>>)
  <2>1. <<>> \in Seq(EventSet')
    OBVIOUS
  <2> QED BY <1>1, <1>2, <1>6, <2>1
<1> QED BY <1>1, <1>2, <1>3, <1>4, <1>5, <1>7 DEF SqlTypes, Past

LEMMA SqlRewriteStep ==
  ASSUME TurnsOK, TurnsPast, SqlTypes, SqlApart, NEW t \in Turns,
         SqlCompactMidTurn(t) \/ SqlFinishSummary(t)
  PROVE TurnsOK' /\ TurnsPast' /\ SqlTypes' /\ SqlApart' /\ conf' = conf /\ now' = now + 1
<1>0. /\ conf \in Configs /\ now \in Nat \ {0} /\ held[t] \in Sessions
      /\ held[t].events \in Seq(EventSet)
      /\ held[t] = [events |-> held[t].events, hist |-> held[t].hist, state |-> held[t].state]
  BY TurnTypes, SessionFields
<1>1. PICK s : Rewrites(t, s) /\ SqlUpdateSession(t, s)
  BY DEF SqlCompactMidTurn, SqlFinishSummary, Rewrites
<1>2. /\ TurnsOK' /\ TurnsPast' /\ now' = now + 1 /\ conf' = conf
      /\ s \in Sessions' /\ held'[t] = s /\ \A u \in Turns \ {t} : held'[u] = held[u]
      /\ \A e \in ToSet(s.events) : e.at \in 1 .. now' - 1 /\ e.id \in 1 .. now' - 1
      /\ owned' = owned
      /\ \A u \in Turns \ {t} : pc'[u] = pc[u]
      /\ pc'[t] \in {"open", "done"}
  BY <1>1, RewriteFacts
<1>3. \E k \in 2 .. Len(held[t].events) + 1 : \E summary \in EventSet' : \E keep \in BOOLEAN :
              Leads(t, s, k, summary, keep)
  BY <1>1, RewriteFacts
<1>4. PICK k \in 2 .. Len(held[t].events) + 1, summary \in EventSet', keep \in BOOLEAN :
              Leads(t, s, k, summary, keep)
  BY <1>3
<1>5. /\ s = Summary(held[t], k, summary, keep)
      /\ summary.at = now \/ summary.at = held[t].events[1].at
  BY <1>4 DEF Leads
<1>6. /\ \A d \in ToSet(held[t].events) : d.at \in 1 .. now - 1
      /\ now \notin 1 .. now - 1 /\ Spread(held[t].events)
      /\ held[t].events \in Seq(EventSet')
  <2>1. held[t].events \in Seq(EventSet')
    BY <1>0, <1>2, SessionsGrow
  <2> QED BY <1>0, <2>1 DEF TurnsPast, Past, SqlApart
<1>7. Spread(s.events)
  <2> DEFINE q == held[t]
  <2>1. /\ q.events \in Seq(EventSet') /\ k \in 2 .. Len(q.events) + 1 /\ Spread(q.events)
        /\ q = [events |-> q.events, hist |-> q.hist, state |-> q.state]
        /\ summary.at = q.events[1].at \/ \A d \in ToSet(q.events) : d.at # summary.at
    BY <1>0, <1>5, <1>6
  <2>2. s = Summary(q, k, summary, keep)
    BY <1>5
  <2> HIDE DEF q
  <2> DEFINE E == EventSet'
  <2>3. q.events \in Seq(E) /\ summary \in E
    BY <2>1
  <2> HIDE DEF E
  <2>4. Spread(Summary(q, k, summary, keep).events)
    BY <2>1, <2>3, SummarySpread
  <2> QED BY <2>2, <2>4
<1>8. SqlTypes' /\ rows' = ToSet(s.events) /\ OneAtATime(rows')
  BY <1>0, <1>1, <1>2, <1>7, SqlUpdateFacts
<1>9. \A e \in ToSet(s.events) : \/ \E d \in ToSet(held[t].events) : e.at = d.at
                                \/ e.at = now
  <2>1. /\ \A e : e \in ToSet(s.events) <=> e = summary \/ e \in ToSet(From(held[t].events, k))
    <3>0. k \in 1 .. Len(held[t].events) + 1 /\ Len(held[t].events) \in Nat
      BY <1>0
    <3>1. \A q \in Sessions : \A i \in 1 .. Len(q.events) + 1 : \A u \in EventSet', b \in BOOLEAN :
             \A e : e \in ToSet(Summary(q, i, u, b).events) <=> e = u \/ e \in ToSet(From(q.events, i))
      <4>1. now \in Nat \ {0} /\ now' = now + 1
        BY <1>0, <1>2
      <4> QED BY <4>1, SummaryFacts
    <3> QED BY <1>0, <1>5, <3>0, <3>1
  <2>2. ToSet(From(held[t].events, k)) \subseteq ToSet(held[t].events)
    <3>0. k \in 1 .. Len(held[t].events) + 1 /\ Len(held[t].events) \in Nat
      BY <1>0
    <3>1. From(held[t].events, k) \in Seq(EventSet) /\ Sublist(From(held[t].events, k), held[t].events)
      BY <1>0, <3>0, Halves
    <3> QED BY <1>0, <3>1, SublistElements
  <2>3. held[t].events[1] \in ToSet(held[t].events)
    <3>1. 1 \in 1 .. Len(held[t].events)
      BY <1>0
    <3> QED BY <1>0, <3>1, ToSetFacts
  <2> QED BY <1>5, <2>1, <2>2, <2>3
<1>10. SqlApart'
  <2>1. \A u \in Turns : Spread(held'[u].events)
    BY <1>2, <1>7 DEF SqlApart
  <2>2. ASSUME NEW v \in Turns, pc'[v] = "appending" PROVE Free(v)'
    <3>1. v # t /\ pc[v] = "appending" /\ Free(v) /\ owned'[v] = owned[v] /\ owned[v] # {}
      BY <1>2, <2>2 DEF SqlApart, TurnsPast
    <3>2. Max(owned[v]) # now
      <4>1. Max(owned[v]) \in owned[v]
        BY <3>1, CurrentFacts
      <4> QED BY <1>6, <4>1 DEF TurnsPast
    <3>3. \A e \in ToSet(s.events) : e.at # Max(owned[v])
      BY <1>9, <3>1, <3>2 DEF Free
    <3>4. \A u \in Turns \ {v} : \A e \in ToSet(held'[u].events) : e.at # Max(owned[v])
      <4> SUFFICES ASSUME NEW u \in Turns \ {v}, NEW e \in ToSet(held'[u].events)
                   PROVE e.at # Max(owned[v])
        OBVIOUS
      <4>1. CASE u = t
        BY <1>2, <3>3, <4>1
      <4>2. CASE u # t
        BY <1>2, <3>1, <4>2 DEF Free
      <4> QED BY <4>1, <4>2
    <3> QED BY <1>8, <3>1, <3>3, <3>4 DEF Free
  <2> QED BY <1>2, <1>8, <2>1, <2>2 DEF SqlApart
<1> QED BY <1>2, <1>8, <1>10

\* The transaction: which copy the turn goes on with.
LEMMA AppendRowCases ==
  ASSUME TurnsOK, NEW t \in Turns, AppendRow(t)
  PROVE \E s \in {SqlStored, held[t]} : \E h :
          /\ Store(t, s, SqlCurrent(t)) /\ held' = [held EXCEPT ![t] = h]
          /\ \/ s = held[t] /\ h = s
             \/ t \in touched /\ s = SqlStored /\ h = [s EXCEPT !.state = @ \cup {SqlCurrent(t).id}]
<1>1. PICK stale \in {FALSE} \cup {t \in touched} :
        LET s == IF stale THEN SqlStored ELSE held[t] IN
          /\ Store(t, s, SqlCurrent(t))
          /\ held' = [held EXCEPT ![t] =
                        IF stale THEN [s EXCEPT !.state = @ \cup {SqlCurrent(t).id}] ELSE s]
  BY DEF AppendRow
<1>2. CASE stale = FALSE
  <2>1. Store(t, held[t], SqlCurrent(t)) /\ held' = [held EXCEPT ![t] = held[t]]
    BY <1>1, <1>2
  <2> QED BY <2>1
<1>3. CASE stale # FALSE
  <2>1. t \in touched /\ stale = TRUE
    BY <1>3
  <2>2. /\ Store(t, SqlStored, SqlCurrent(t))
        /\ held' = [held EXCEPT ![t] = [SqlStored EXCEPT !.state = @ \cup {SqlCurrent(t).id}]]
    BY <1>1, <2>1
  <2> QED BY <2>1, <2>2
<1> QED BY <1>2, <1>3

LEMMA AppendRowStep ==
  ASSUME TurnsOK, TurnsPast, SqlTypes, SqlApart, NEW t \in Turns, AppendRow(t)
  PROVE TurnsOK' /\ TurnsPast' /\ SqlTypes' /\ SqlApart' /\ conf' = conf /\ now' = now
<1> DEFINE e == SqlCurrent(t)
<1>0. /\ conf \in Configs /\ now \in Nat \ {0} /\ held \in [Turns -> Sessions]
      /\ held[t] \in Sessions /\ StoreHistorical \in BOOLEAN
  BY TurnTypes, ServiceConfTypes DEF TurnsOK
<1>1. /\ pc[t] = "appending" /\ pc' = [pc EXCEPT ![t] = "open"]
      /\ written' = written \cup {e.id} /\ Touch(t) /\ dropped' = [dropped EXCEPT ![t] = {}]
      /\ UNCHANGED <<conf, count, now, owned, retired>>
  BY DEF AppendRow
<1>2. /\ e \in EventSet /\ e.id = Max(owned[t]) /\ e.at = Max(owned[t])
      /\ e.id \in 1 .. now - 1 /\ e.id \in owned[t] /\ e.id \in 1 .. now
  <2>1. owned[t] # {} /\ owned[t] \subseteq 1 .. now - 1
    BY <1>1 DEF TurnsPast
  <2>2. Max(owned[t]) \in owned[t] /\ Max(owned[t]) \in 1 .. now /\ Max(owned[t]) \in 1 .. now - 1
    BY <2>1, CurrentFacts
  <2> QED BY <2>2 DEF SqlCurrent, EventSet, Kinds
<1> HIDE DEF e
<1>20. PICK s \in {SqlStored, held[t]} : \E h :
        /\ Store(t, s, e) /\ held' = [held EXCEPT ![t] = h]
        /\ \/ s = held[t] /\ h = s
           \/ t \in touched /\ s = SqlStored /\ h = [s EXCEPT !.state = @ \cup {e.id}]
  BY AppendRowCases DEF e
<1>3. PICK h :
        /\ Store(t, s, e) /\ held' = [held EXCEPT ![t] = h]
        /\ \/ s = held[t] /\ h = s
           \/ t \in touched /\ s = SqlStored /\ h = [s EXCEPT !.state = @ \cup {e.id}]
  BY <1>20
<1>4. /\ rows' = {r \in rows \cup {e} : r.id \notin dropped[t]}
      /\ hist' = IF dropped[t] # {} /\ StoreHistorical THEN s.hist ELSE hist
      /\ state' = state \cup {e.id}
  BY <1>3 DEF Store
<1>5. /\ SqlStored \in Sessions /\ ToSet(SqlStored.events) = rows /\ Spread(SqlStored.events)
      /\ SqlStored.hist = hist /\ SqlStored.state = state
      /\ SqlStored = [events |-> SqlStored.events, hist |-> hist, state |-> state]
  BY <1>0, SqlStoredFacts DEF SqlApart
<1>6. s \in Sessions /\ s.hist \in Seq(EventSet)
  BY <1>0, <1>5, SessionFields
<1>7. /\ h \in Sessions /\ Spread(h.events) /\ Past(ToSet(h.events))
      /\ ToSet(h.events) = ToSet(held[t].events) \/ ToSet(h.events) = rows
  <2>1. CASE s = held[t] /\ h = s
    BY <1>0, <2>1 DEF SqlApart, TurnsPast
  <2>2. CASE s = SqlStored /\ h = [s EXCEPT !.state = @ \cup {e.id}]
    <3> DEFINE x == state \cup {e.id}
               q == SqlStored.events
    <3>1. x \subseteq 0 .. now
      <4>1. 1 .. now \subseteq 0 .. now
        OBVIOUS
      <4> QED BY <1>2, <4>1 DEF SqlTypes
    <3>2. q \in Seq(EventSet) /\ hist \in Seq(EventSet) /\ ToSet(q) = rows /\ Spread(q)
      BY <1>5, SessionFields
    <3>3. h = [events |-> q, hist |-> hist, state |-> x]
      <4>1. SqlStored = [events |-> q, hist |-> hist, state |-> state]
        BY <1>5
      <4>2. h = [SqlStored EXCEPT !.state = x]
        BY <1>5, <2>2
      <4> HIDE DEF q, x
      <4> QED BY <4>1, <4>2
    <3> HIDE DEF q, x
    <3>4. h \in Sessions
      BY <3>1, <3>2, <3>3 DEF Sessions
    <3> QED BY <3>2, <3>3, <3>4 DEF SqlTypes
  <2> QED BY <1>3, <2>1, <2>2
<1>8. /\ held'[t] = h /\ pc'[t] = "open"
      /\ \A u \in Turns \ {t} : held'[u] = held[u] /\ pc'[u] = pc[u]
  BY <1>1, <1>3, Others
<1>9. TurnsOK' /\ Sessions' = Sessions /\ EventSet' = EventSet
  <2>1. held' \in [Turns -> Sessions] /\ "open" \in Phases /\ written' \subseteq 1 .. now
    BY <1>0, <1>1, <1>2, <1>3, <1>7 DEF Phases, TurnsOK
  <2> QED BY <1>1, <2>1, PhaseType
<1>10. TurnsPast'
  <2>1. written' \subseteq 1 .. now' - 1
    BY <1>1, <1>2 DEF TurnsPast
  <2> SUFFICES ASSUME NEW u \in Turns
               PROVE /\ owned'[u] \subseteq 1 .. now' - 1 /\ Past(ToSet(held[u].events))'
                     /\ pc'[u] \in {"reading", "appending"} => owned'[u] # {}
    BY <2>1 DEF TurnsPast
  <2>2. /\ owned[u] \subseteq 1 .. now - 1 /\ Past(ToSet(held[u].events))
        /\ pc[u] \in {"reading", "appending"} => owned[u] # {}
    BY DEF TurnsPast
  <2>3. CASE u = t
    BY <1>1, <1>7, <1>8, <2>2, <2>3 DEF Past
  <2>4. CASE u # t
    BY <1>1, <1>8, <2>2, <2>4 DEF Past
  <2> QED BY <2>3, <2>4
<1>11. SqlTypes'
  <2>1. rows' \subseteq EventSet' /\ Past(rows)'
    <3>1. \A r \in rows \cup {e} : r \in EventSet /\ r.at \in 1 .. now - 1 /\ r.id \in 1 .. now - 1
      BY <1>2 DEF SqlTypes, Past
    <3> QED BY <1>1, <1>4, <1>9, <3>1 DEF Past
  <2>2. IsFiniteSet(rows')
    <3>1. IsFiniteSet(rows \cup {e})
      BY FS_AddElement DEF SqlTypes
    <3>2. rows' \in SUBSET (rows \cup {e})
      BY <1>4
    <3> QED BY <3>1, <3>2, FS_Subset
  <2>3. hist' \in Seq(EventSet') /\ (StoreHistorical' \/ hist' = <<>>)
    BY <1>1, <1>4, <1>6, <1>9 DEF SqlTypes, StoreHistorical
  <2>4. state' \subseteq 0 .. now'
    <3>1. 1 .. now \subseteq 0 .. now
      OBVIOUS
    <3> QED BY <1>1, <1>2, <1>4, <3>1 DEF SqlTypes
  <2>5. touched' \subseteq {u \in Turns : pc'[u] = "appending"}
    BY <1>1, <1>8, TouchFacts
  <2>6. dropped' \in [Turns -> SUBSET (1 .. now')]
    BY <1>1 DEF SqlTypes
  <2> QED BY <2>1, <2>2, <2>3, <2>4, <2>5, <2>6 DEF SqlTypes
<1>12. SqlApart'
  <2>1. \A u \in Turns : Spread(held'[u].events)
    BY <1>7, <1>8 DEF SqlApart
  <2>2. OneAtATime(rows')
    <3>1. \A r \in rows : r.at # e.at
      BY <1>1, <1>2 DEF SqlApart, Free
    <3> QED BY <1>4, <3>1 DEF OneAtATime, SqlApart
  <2>3. ASSUME NEW v \in Turns, pc'[v] = "appending" PROVE Free(v)'
    <3>1. v # t /\ pc[v] = "appending" /\ Free(v) /\ owned'[v] = owned[v] /\ owned[v] # {}
      BY <1>1, <1>8, <2>3 DEF SqlApart, TurnsPast
    <3>2. Max(owned[v]) # e.at
      <4>1. Max(owned[v]) \in owned[v]
        BY <3>1, CurrentFacts
      <4>2. owned[v] \cap owned[t] = {}
        BY <3>1 DEF SqlApart
      <4> QED BY <1>2, <4>1, <4>2
    <3>3. \A x \in rows' : x.at # Max(owned[v])
      BY <1>4, <3>1, <3>2 DEF Free
    <3>4. \A u \in Turns \ {v} : \A x \in ToSet(held'[u].events) : x.at # Max(owned[v])
      <4> SUFFICES ASSUME NEW u \in Turns \ {v}, NEW x \in ToSet(held'[u].events)
                   PROVE x.at # Max(owned[v])
        OBVIOUS
      <4>1. CASE u = t
        BY <1>7, <1>8, <3>1, <4>1 DEF Free
      <4>2. CASE u # t
        BY <1>8, <3>1, <4>2 DEF Free
      <4> QED BY <4>1, <4>2
    <3> QED BY <3>1, <3>3, <3>4 DEF Free
  <2> QED BY <1>1, <2>1, <2>2, <2>3 DEF SqlApart
<1> QED BY <1>1, <1>9, <1>10, <1>11, <1>12

LEMMA SqlPhaseStep ==
  ASSUME TurnsOK, TurnsPast, SqlTypes, SqlApart, NEW t \in Turns,
         \/ SqlSaveUnchanged(t)
         \/ StartSummary(t) /\ UNCHANGED <<dataVars, touched, dropped>>
         \/ EndTurn(t) /\ UNCHANGED <<dataVars, touched, dropped>>
  PROVE TurnsOK' /\ TurnsPast' /\ SqlTypes' /\ SqlApart' /\ conf' = conf /\ now' = now
<1>0. /\ conf \in Configs /\ now \in Nat \ {0} /\ held[t] \in Sessions
      /\ Past(ToSet(held[t].events)) /\ Spread(held[t].events)
  BY TurnTypes DEF TurnsPast, SqlApart
<1>1. /\ UNCHANGED <<conf, held, count, now, owned, written, retired>>
      /\ pc[t] \in {"summing", "open"}
      /\ pc' = [pc EXCEPT ![t] = "done"] \/ pc' = [pc EXCEPT ![t] = "summing"]
  BY DEF SqlSaveUnchanged, StartSummary, EndTurn
<1>2. /\ TurnsOK' /\ TurnsPast' /\ Sessions' = Sessions /\ EventSet' = EventSet
      /\ \A u \in Turns \ {t} : pc'[u] = pc[u]
      /\ pc'[t] \in {"done", "summing"}
  <2>1. ASSUME NEW p \in {"done", "summing"}, pc' = [pc EXCEPT ![t] = p]
        PROVE /\ TurnsOK' /\ TurnsPast' /\ Sessions' = Sessions /\ EventSet' = EventSet
              /\ \A u \in Turns \ {t} : pc'[u] = pc[u]
              /\ pc'[t] \in {"done", "summing"}
    <3>1. p \in Phases \ {"idle"} /\ p \notin {"reading", "appending"} /\ pc[t] # "idle"
      BY <1>1 DEF Phases
    <3> QED BY <1>1, <2>1, <3>1, PhasePast
  <2> QED BY <1>1, <2>1
<1>3. CASE UNCHANGED <<dataVars, touched, dropped>>
  <2>1. UNCHANGED <<rows, hist, state, touched, dropped>>
    BY <1>3 DEF dataVars
  <2>2. touched' \subseteq {u \in Turns : pc'[u] = "appending"}
    BY <1>1, <1>2, <2>1 DEF SqlTypes
  <2>3. SqlTypes'
    BY <1>1, <1>2, <2>1, <2>2 DEF SqlTypes, StoreHistorical, Past
  <2>4. SqlApart'
    BY <1>1, <1>2, <2>1 DEF SqlApart, Free
  <2> QED BY <1>1, <1>2, <2>3, <2>4
<1>4. CASE SqlSaveUnchanged(t)
  <2> DEFINE s == held[t]
  <2>1. SqlUpdateSession(t, s)
    BY <1>4 DEF SqlSaveUnchanged
  <2>2. /\ s \in Sessions' /\ Spread(s.events)
        /\ \A e \in ToSet(s.events) : e.at \in 1 .. now' - 1 /\ e.id \in 1 .. now' - 1
    BY <1>0, <1>1, <1>2 DEF Past
  <2> HIDE DEF s
  <2>3. SqlTypes' /\ rows' = ToSet(s.events) /\ OneAtATime(rows')
    BY <1>0, <1>1, <1>2, <2>1, <2>2, SqlUpdateFacts
  <2>4. SqlApart'
    <3>1. ASSUME NEW v \in Turns, pc'[v] = "appending" PROVE Free(v)'
      <4>1. v # t /\ pc[v] = "appending" /\ Free(v) /\ owned' = owned /\ held' = held
        BY <1>1, <1>2, <3>1 DEF SqlApart
      <4>2. \A e \in rows' : e.at # Max(owned[v])
        BY <2>3, <4>1 DEF Free, s
      <4> QED BY <4>1, <4>2 DEF Free
    <3> QED BY <1>1, <2>3, <3>1 DEF SqlApart
  <2> QED BY <1>1, <1>2, <2>3, <2>4
<1> QED BY <1>3, <1>4

LEMMA SqlStep ==
  ASSUME TurnsOK, TurnsPast, SqlTypes, SqlApart, SqlNext
  PROVE TurnsOK' /\ TurnsPast' /\ SqlTypes' /\ SqlApart' /\ conf' = conf /\ now' \in {now, now + 1}
<1>1. CASE Peek
  <2>1. UNCHANGED turnVars /\ UNCHANGED <<rows, hist, state, dropped>>
        /\ touched' = {u \in Turns : pc[u] = "appending"}
    BY <1>1 DEF Peek, dataVars
  <2>2. UNCHANGED <<conf, pc, held, count, now, owned, written, retired>>
    BY <2>1 DEF turnVars
  <2>3. TurnsOK'
    BY <2>2 DEF TurnsOK, MaxAppends, Sessions, EventSet
  <2>4. TurnsPast' /\ SqlApart'
    BY <2>1, <2>2 DEF TurnsPast, Past, SqlApart, Free
  <2>5. SqlTypes'
    BY <2>1, <2>2 DEF SqlTypes, Past, StoreHistorical, EventSet
  <2> QED BY <2>2, <2>3, <2>4, <2>5
<1>2. ASSUME NEW t \in Turns,
             \/ SqlGetSession(t) \/ SqlAppendToCopy(t) \/ AppendRow(t)
             \/ SqlCompactMidTurn(t) \/ SqlFinishSummary(t) \/ SqlSaveUnchanged(t)
             \/ StartSummary(t) /\ UNCHANGED <<dataVars, touched, dropped>>
             \/ EndTurn(t) /\ UNCHANGED <<dataVars, touched, dropped>>
      PROVE TurnsOK' /\ TurnsPast' /\ SqlTypes' /\ SqlApart' /\ conf' = conf /\ now' \in {now, now + 1}
  BY <1>2, SqlGetStep, SqlAppendStep, AppendRowStep, SqlRewriteStep, SqlPhaseStep
<1> QED BY <1>1, <1>2 DEF SqlNext

-----------------------------------------------------------------------------
(* The services together *)

\* What a service does not use is kept, in time.
LEMMA MemoryRests ==
  ASSUME MemoryInv, UNCHANGED memoryVars, conf' = conf, now \in Nat \ {0}, now' \in {now, now + 1}
  PROVE MemoryInv'
<1>1. stored' = stored /\ linked' = linked /\ link' = link
  BY DEF memoryVars
<1>2. Sessions \subseteq Sessions'
  BY SessionsGrow
<1>3. \A e \in ToSet(stored.events) : e.at \in 1 .. now' - 1 /\ e.id \in 1 .. now' - 1
  BY PastGrows DEF MemoryInv
<1> QED BY <1>1, <1>2, <1>3 DEF MemoryInv, Past, StoreHistorical

LEMMA RedisRests ==
  ASSUME RedisInv, UNCHANGED redisVars, conf' = conf, now \in Nat \ {0}, now' \in {now, now + 1}
  PROVE RedisInv'
<1>1. document' = document /\ fetched' = fetched
  BY DEF redisVars
<1>2. Sessions \subseteq Sessions'
  BY SessionsGrow
<1>3. \A e \in ToSet(document.events) : e.at \in 1 .. now' - 1 /\ e.id \in 1 .. now' - 1
  BY PastGrows DEF RedisInv
<1>4. fetched' \in [Turns -> SUBSET (0 .. now')]
  BY <1>1, FetchedGrows DEF RedisInv
<1> QED BY <1>1, <1>2, <1>3, <1>4 DEF RedisInv, Past, StoreHistorical

LEMMA SqlRests ==
  ASSUME SqlTypes, UNCHANGED sqlVars, touched = {}, conf' = conf,
         now \in Nat \ {0}, now' \in {now, now + 1}
  PROVE SqlTypes' /\ touched' = {}
<1>1. rows' = rows /\ hist' = hist /\ state' = state /\ touched' = touched /\ dropped' = dropped
  BY DEF sqlVars
<1>2. /\ rows \subseteq EventSet' /\ hist \in Seq(EventSet') /\ state \subseteq 0 .. now'
      /\ dropped \in [Turns -> SUBSET (1 .. now')]
      /\ \A e \in rows : e.at \in 1 .. now' - 1 /\ e.id \in 1 .. now' - 1
      /\ StoreHistorical' \/ hist = <<>>
  BY SqlTypesKept
<1> QED BY <1>1, <1>2 DEF SqlTypes, Past

ServicesInv ==
    /\ TurnsOK /\ TurnsPast
    /\ MemoryInv /\ RedisInv /\ SqlTypes
    /\ conf.service # "sql" => Sees /\ touched = {}
    /\ conf.service = "sql" => SqlApart

LEMMA ServicesInitially == Init => ServicesInv
<1> SUFFICES ASSUME Init PROVE ServicesInv
  OBVIOUS
<1>1. /\ conf \in Configs /\ now = 1 /\ written = {} /\ retired = {}
      /\ pc = [t \in Turns |-> "idle"] /\ held = [t \in Turns |-> Empty]
      /\ count = [t \in Turns |-> 0] /\ owned = [t \in Turns |-> {}]
      /\ stored = Empty /\ linked = NoTurn /\ link = "copy"
      /\ document = Empty /\ fetched = [t \in Turns |-> {}]
      /\ rows = {} /\ hist = <<>> /\ state = {} /\ touched = {} /\ dropped = [t \in Turns |-> {}]
  BY DEF Init, MemoryInit, RedisInit, SqlInit, TurnsInit
<1>2. Empty \in Sessions /\ Empty.events = <<>> /\ Empty.hist = <<>> /\ ToSet(Empty.events) = {}
  BY DEF Empty, Sessions, ToSet
<1>3. MaxAppends \in Nat
  BY <1>1, ServiceConfTypes
<1>4. TurnsOK
  BY <1>1, <1>2, <1>3 DEF TurnsOK
<1>5. TurnsPast /\ Sees
  BY <1>1, <1>2 DEF TurnsPast, Sees, Past
<1>6. MemoryInv /\ RedisInv
  BY <1>1, <1>2 DEF MemoryInv, RedisInv, Past
<1>7. IsFiniteSet({})
  BY FS_EmptySet
<1>8. SqlTypes
  BY <1>1, <1>7 DEF SqlTypes, Past
<1>9. SqlApart
  BY <1>1, <1>2 DEF SqlApart, OneAtATime, Spread
<1> QED BY <1>1, <1>4, <1>5, <1>6, <1>8, <1>9 DEF ServicesInv

LEMMA ServicesStep == ServicesInv /\ [Next]_vars => ServicesInv'
<1> SUFFICES ASSUME ServicesInv, [Next]_vars PROVE ServicesInv'
  OBVIOUS
<1>0. now \in Nat \ {0}
  BY DEF ServicesInv, TurnsOK
<1>1. CASE conf.service = "memory" /\ MemoryNext /\ UNCHANGED <<redisVars, sqlVars>>
  <2>1. TurnsOK /\ TurnsPast /\ Sees /\ MemoryInv /\ RedisInv /\ SqlTypes /\ touched = {}
    BY <1>1 DEF ServicesInv
  <2>2. TurnsOK' /\ TurnsPast' /\ Sees' /\ MemoryInv' /\ conf' = conf /\ now' \in {now, now + 1}
    BY <1>1, <2>1, MemoryStep
  <2>3. RedisInv' /\ SqlTypes' /\ touched' = {}
    BY <1>0, <1>1, <2>1, <2>2, RedisRests, SqlRests
  <2> QED BY <1>1, <2>2, <2>3 DEF ServicesInv
<1>2. CASE conf.service = "redis" /\ RedisNext /\ UNCHANGED <<memoryVars, sqlVars>>
  <2>1. TurnsOK /\ TurnsPast /\ Sees /\ MemoryInv /\ RedisInv /\ SqlTypes /\ touched = {}
    BY <1>2 DEF ServicesInv
  <2>2. TurnsOK' /\ TurnsPast' /\ Sees' /\ RedisInv' /\ conf' = conf /\ now' \in {now, now + 1}
    BY <1>2, <2>1, RedisStep
  <2>3. MemoryInv' /\ SqlTypes' /\ touched' = {}
    BY <1>0, <1>2, <2>1, <2>2, MemoryRests, SqlRests
  <2> QED BY <1>2, <2>2, <2>3 DEF ServicesInv
<1>3. CASE conf.service = "sql" /\ SqlNext /\ UNCHANGED <<memoryVars, redisVars>>
  <2>1. TurnsOK /\ TurnsPast /\ MemoryInv /\ RedisInv /\ SqlTypes /\ SqlApart
    BY <1>3 DEF ServicesInv
  <2>2. TurnsOK' /\ TurnsPast' /\ SqlTypes' /\ SqlApart' /\ conf' = conf /\ now' \in {now, now + 1}
    BY <1>3, <2>1, SqlStep
  <2>3. MemoryInv' /\ RedisInv'
    BY <1>0, <1>3, <2>1, <2>2, MemoryRests, RedisRests
  <2> QED BY <1>3, <2>2, <2>3 DEF ServicesInv
<1>4. CASE UNCHANGED vars
  <2>1. UNCHANGED turnVars /\ UNCHANGED memoryVars /\ UNCHANGED redisVars /\ UNCHANGED sqlVars
    BY <1>4 DEF vars
  <2>2. UNCHANGED <<conf, pc, held, count, now, owned, written, retired>>
    BY <2>1 DEF turnVars
  <2>3. TurnsOK' /\ TurnsPast' /\ (Sees => Sees')
    BY <2>2 DEF ServicesInv, TurnsOK, TurnsPast, Past, Sees, MaxAppends, Sessions, EventSet
  <2>4. MemoryInv' /\ RedisInv'
    BY <1>0, <2>1, <2>2, MemoryRests, RedisRests DEF ServicesInv
  <2>5. rows' = rows /\ hist' = hist /\ state' = state /\ touched' = touched /\ dropped' = dropped
    BY <2>1 DEF sqlVars
  <2>6. SqlTypes'
    BY <2>2, <2>5 DEF ServicesInv, SqlTypes, Past, StoreHistorical, EventSet
  <2>7. SqlApart => SqlApart'
    BY <2>2, <2>5 DEF SqlApart, Free
  <2> QED BY <2>2, <2>3, <2>4, <2>5, <2>6, <2>7 DEF ServicesInv
<1> QED BY <1>1, <1>2, <1>3, <1>4 DEF Next

THEOREM ServicesInvariant == Spec => []ServicesInv
<1> QED BY ServicesInitially, ServicesStep, PTL DEF Spec

\* Whatever the turns of one session do, one after the other or at a time, with
\* read views, windows, summaries, compactions and saves: every back end, and
\* every copy a turn holds, is a session of events that have been made, no
\* history is stored unless it is wanted, and an append in flight is all that
\* a commit can mark as stale.
THEOREM ServicesTypeCorrect == Spec => []TypeOK
<1>1. ServicesInv => TypeOK
  BY DEF ServicesInv, MemoryInv, RedisInv, SqlTypes, TypeOK, MemoryTypeOK, RedisTypeOK, SqlTypeOK
<1> QED BY <1>1, ServicesInvariant, PTL

\* With the in-memory and the Redis service an event that a turn has appended
\* stays in the session the turn works on until a rule retires it, whatever
\* the other turns append, compact or save meanwhile.
THEOREM TurnsSeeTheirEvents == Spec => []TurnSeesItsEvents
<1>1. ServicesInv => TurnSeesItsEvents
  BY DEF ServicesInv, Sees, TurnSeesItsEvents
<1> QED BY <1>1, ServicesInvariant, PTL

-----------------------------------------------------------------------------
(* The services and the log of SessionLog: what is stored, and the copy of *)
(* the turn that may save it, are the log but for what has been retired.   *)

\* The ids of the events of R that are no summaries: what the log is made of.
Lasting(R) == {e.id : e \in {x \in R : x.kind # "summary"}}

Rising(s) ==
    \A i, j \in DOMAIN s :
        i < j /\ s[i].kind # "summary" /\ s[j].kind # "summary" => s[i].id < s[j].id

\* No summary has the id of an event that a turn made, and all others are such;
\* o says which events the turns made.
Genuine(R, o) == \A e \in R :
    IF e.kind = "summary" THEN \A u \in Turns : e.id \notin o[u]
    ELSE e.at = e.id /\ \E u \in Turns : e.id \in o[u]

\* Session h holds the log L with archive A and deltas D, but for what is in R.
Follows(keep, h, L, A, D, R) ==
    /\ Lasting(ToSet(h.events)) \subseteq L
    /\ L \ Lasting(ToSet(h.events)) \subseteq R
    /\ keep => (L \ Lasting(ToSet(h.events))) \cup A \subseteq Ids(h.hist)
    /\ h.state \ {Temp} = D

LEMMA LastingAdd ==
  ASSUME NEW A, NEW e, NEW B, \A x : x \in B <=> x \in A \/ x = e
  PROVE /\ e.kind # "summary" => Lasting(B) = Lasting(A) \cup {e.id}
        /\ e.kind = "summary" => Lasting(B) = Lasting(A)
BY DEF Lasting

LEMMA LastingLess ==
  ASSUME NEW A, NEW B, A \subseteq B
  PROVE /\ Lasting(A) \subseteq Lasting(B)
        /\ \A x \in Lasting(B) \ Lasting(A) : \E e \in B \ A : x = e.id
BY DEF Lasting

LEMMA FollowsSelf ==
  ASSUME NEW keep, NEW s, NEW R
  PROVE Follows(keep, s, Lasting(ToSet(s.events)), Ids(s.hist), s.state \ {Temp}, R)
BY DEF Follows

\* Session s is stored as r, perhaps without its history.
LEMMA FollowsSaved ==
  ASSUME NEW keep, NEW s, NEW r, NEW L, NEW A, NEW D, NEW R, Follows(keep, s, L, A, D, R),
         ToSet(r.events) = ToSet(s.events), keep => r.hist = s.hist,
         r.state \ {Temp} = s.state \ {Temp}
  PROVE /\ Follows(keep, r, L, A, D, R)
        /\ Follows(keep, s, Lasting(ToSet(r.events)), Ids(r.hist), r.state \ {Temp}, R)
BY DEF Follows

LEMMA FollowsAppend ==
  ASSUME conf \in Configs, now \in Nat \ {0}, now' = now + 1,
         NEW s \in Sessions, NEW e \in EventSet', e.id \in 1 .. now', e.kind # "summary",
         NEW L, NEW A, NEW D, NEW R, NEW Q, Follows(StoreHistorical, s, L, A, D, R), R \subseteq Q,
         Ids(Dropped(Append(s.events, e), Retained(Append(s.events, e), 0, MaxEvents))) \subseteq Q
  PROVE Follows(StoreHistorical, WithEvent(s, e), L \cup {e.id}, A, D \cup {e.id}, Q)
<1> DEFINE all == Append(s.events, e)
           w == WithEvent(s, e)
           out == Dropped(all, Retained(all, 0, MaxEvents))
<1>1. /\ w \in Sessions' /\ all \in Seq(EventSet') /\ out \in Seq(EventSet')
      /\ ToSet(all) = ToSet(s.events) \cup {e} /\ ToSet(w.events) \subseteq ToSet(all)
      /\ ToSet(out) = ToSet(all) \ ToSet(w.events)
      /\ Ids(s.hist) \subseteq Ids(w.hist)
      /\ IF StoreHistorical THEN Ids(out) \subseteq Ids(w.hist) ELSE w.hist = s.hist
      /\ w.state \ {Temp} = (s.state \ {Temp}) \cup {e.id}
  BY WithEventFacts
<1>2. Ids(out) \subseteq Q
  OBVIOUS
<1> HIDE DEF w, all, out
<1>3. Lasting(ToSet(all)) = Lasting(ToSet(s.events)) \cup {e.id}
  BY <1>1, LastingAdd
<1>4. /\ Lasting(ToSet(w.events)) \subseteq Lasting(ToSet(all))
      /\ \A x \in Lasting(ToSet(all)) \ Lasting(ToSet(w.events)) :
            \E d \in ToSet(all) \ ToSet(w.events) : x = d.id
  BY <1>1, LastingLess
<1>5. \A d \in ToSet(out) : d.id \in Ids(out)
  BY <1>1, ToSetFacts
<1>6. \A x \in Lasting(ToSet(all)) \ Lasting(ToSet(w.events)) : x \in Ids(out)
  <2> SUFFICES ASSUME NEW x \in Lasting(ToSet(all)) \ Lasting(ToSet(w.events)) PROVE x \in Ids(out)
    OBVIOUS
  <2>1. PICK d \in ToSet(all) \ ToSet(w.events) : x = d.id
    BY <1>4
  <2>2. d \in ToSet(out)
    BY <1>1, <2>1
  <2> QED BY <1>5, <2>1, <2>2
<1>7. Lasting(ToSet(w.events)) \subseteq L \cup {e.id}
  BY <1>3, <1>4 DEF Follows
<1>8. \A x \in (L \cup {e.id}) \ Lasting(ToSet(w.events)) :
         x \in Ids(out) \/ x \in L \ Lasting(ToSet(s.events))
  BY <1>3, <1>6
<1>9. (L \cup {e.id}) \ Lasting(ToSet(w.events)) \subseteq Q
  BY <1>2, <1>8 DEF Follows
<1>10. ASSUME StoreHistorical
       PROVE ((L \cup {e.id}) \ Lasting(ToSet(w.events))) \cup A \subseteq Ids(w.hist)
  BY <1>1, <1>8, <1>10 DEF Follows
<1>11. w.state \ {Temp} = D \cup {e.id}
  BY <1>1 DEF Follows
<1>12. Follows(StoreHistorical, w, L \cup {e.id}, A, D \cup {e.id}, Q)
  BY <1>7, <1>9, <1>10, <1>11 DEF Follows
<1> QED BY <1>12 DEF w

LEMMA FollowsSummary ==
  ASSUME now \in Nat \ {0}, now' = now + 1, NEW s \in Sessions,
         NEW k \in 1 .. Len(s.events) + 1, NEW summary \in EventSet', summary.kind = "summary",
         NEW keep \in BOOLEAN, NEW want \in BOOLEAN, want => keep,
         NEW L, NEW A, NEW D, NEW R, NEW Q, Follows(want, s, L, A, D, R), R \subseteq Q,
         Ids(Upto(s.events, k - 1)) \subseteq Q
  PROVE Follows(want, Summary(s, k, summary, keep), L, A, D, Q)
<1> DEFINE w == Summary(s, k, summary, keep)
           out == Upto(s.events, k - 1)
           rest == From(s.events, k)
<1>1. /\ w.state = s.state
      /\ \A e : e \in ToSet(w.events) <=> e = summary \/ e \in ToSet(rest)
      /\ ToSet(s.events) = ToSet(out) \cup ToSet(rest)
      /\ out \in Seq(EventSet) /\ Ids(s.hist) \subseteq Ids(w.hist)
      /\ keep => Ids(out) \subseteq Ids(w.hist)
  <2>1. now \in Nat \ {0} /\ now' = now + 1 /\ s \in Sessions /\ k \in 1 .. Len(s.events) + 1
        /\ summary \in EventSet' /\ keep \in BOOLEAN
    OBVIOUS
  <2> HIDE DEF w, out, rest
  <2>2. Summary(s, k, summary, keep).state = s.state
    <3>1. s = [events |-> s.events, hist |-> s.hist, state |-> s.state]
      BY <2>1, SessionFields
    <3> QED BY <3>1 DEF Summary
  <2>3. ToSet(s.events) = ToSet(Upto(s.events, k - 1)) \cup ToSet(From(s.events, k))
    BY <2>1, SummaryFacts
  <2>6. Upto(s.events, k - 1) \in Seq(EventSet)
    BY <2>1, SessionFields, Halves
  <2>4. /\ Ids(s.hist) \subseteq Ids(Summary(s, k, summary, keep).hist)
        /\ keep => Ids(Upto(s.events, k - 1)) \subseteq Ids(Summary(s, k, summary, keep).hist)
    BY <2>1, SummaryFacts
  <2>5. \A e : e \in ToSet(Summary(s, k, summary, keep).events)
              <=> e = summary \/ e \in ToSet(From(s.events, k))
    <3>1. \A q \in Sessions : \A i \in 1 .. Len(q.events) + 1 : \A u \in EventSet', b \in BOOLEAN :
             \A e : e \in ToSet(Summary(q, i, u, b).events) <=> e = u \/ e \in ToSet(From(q.events, i))
      BY <2>1, SummaryFacts
    <3> QED BY <2>1, <3>1
  <2> QED BY <2>2, <2>3, <2>4, <2>5, <2>6 DEF w, out, rest
<1>2. Ids(out) \subseteq Q
  OBVIOUS
<1> HIDE DEF w, out, rest
<1>3. Lasting(ToSet(w.events)) = Lasting(ToSet(rest))
  BY <1>1, LastingAdd
<1>4. /\ Lasting(ToSet(rest)) \subseteq Lasting(ToSet(s.events))
      /\ \A x \in Lasting(ToSet(s.events)) \ Lasting(ToSet(rest)) :
            \E d \in ToSet(s.events) \ ToSet(rest) : x = d.id
  BY <1>1, LastingLess
<1>5. \A d \in ToSet(out) : d.id \in Ids(out)
  BY <1>1, ToSetFacts
<1>6. \A x \in Lasting(ToSet(s.events)) \ Lasting(ToSet(w.events)) : x \in Ids(out)
  <2> SUFFICES ASSUME NEW x \in Lasting(ToSet(s.events)) \ Lasting(ToSet(w.events))
               PROVE x \in Ids(out)
    OBVIOUS
  <2>1. PICK d \in ToSet(s.events) \ ToSet(rest) : x = d.id
    BY <1>3, <1>4
  <2>2. d \in ToSet(out)
    BY <1>1, <2>1
  <2> QED BY <1>5, <2>1, <2>2
<1>7. Lasting(ToSet(w.events)) \subseteq L
  BY <1>3, <1>4 DEF Follows
<1>8. \A x \in L \ Lasting(ToSet(w.events)) :
         x \in Ids(out) \/ x \in L \ Lasting(ToSet(s.events))
  BY <1>6
<1>9. L \ Lasting(ToSet(w.events)) \subseteq Q
  BY <1>2, <1>8 DEF Follows
<1>10. ASSUME want PROVE (L \ Lasting(ToSet(w.events))) \cup A \subseteq Ids(w.hist)
  BY <1>1, <1>8, <1>10 DEF Follows
<1>11. w.state \ {Temp} = D
  BY <1>1 DEF Follows
<1>12. Follows(want, w, L, A, D, Q)
  BY <1>7, <1>9, <1>10, <1>11 DEF Follows
<1> QED BY <1>12 DEF w

\* Which events are genuine does not change, and rewrites make summaries.
LEMMA GenuineLess ==
  ASSUME NEW o, NEW Q, NEW R, Genuine(Q, o), R \subseteq Q
  PROVE Genuine(R, o)
BY DEF Genuine

LEMMA GenuineMore ==
  ASSUME NEW o, NEW Q, NEW R, NEW e, Genuine(Q, o), \A x \in R : x \in Q \/ x = e,
         IF e.kind = "summary" THEN \A u \in Turns : e.id \notin o[u]
         ELSE e.at = e.id /\ \E u \in Turns : e.id \in o[u]
  PROVE Genuine(R, o)
BY DEF Genuine

LEMMA GenuineKept ==
  ASSUME now \in Nat \ {0}, NEW R, Genuine(R, owned), Past(R),
         \A u \in Turns : owned[u] \subseteq owned'[u] /\ owned'[u] \subseteq owned[u] \cup {now}
  PROVE Genuine(R, owned')
<1> SUFFICES ASSUME NEW e \in R
             PROVE IF e.kind = "summary" THEN \A u \in Turns : e.id \notin owned'[u]
                   ELSE e.at = e.id /\ \E u \in Turns : e.id \in owned'[u]
  BY DEF Genuine
<1>1. e.id # now
  BY DEF Past
<1> QED BY <1>1 DEF Genuine

\* Lists in the order of their ids.
LEMMA RisingSublist ==
  ASSUME NEW E, NEW r \in Seq(E), NEW s \in Seq(E), Sublist(r, s), Rising(s)
  PROVE Rising(r)
<1>1. PICK f : Picks(f, r, s)
  BY DEF Sublist
<1>2. DOMAIN r = 1 .. Len(r) /\ DOMAIN s = 1 .. Len(s)
  OBVIOUS
<1>3. \A i \in DOMAIN r : f[i] \in DOMAIN s /\ r[i] = s[f[i]]
  BY <1>1, <1>2 DEF Picks
<1>4. \A i, j \in DOMAIN r : i < j => f[i] < f[j]
  BY <1>1, <1>2 DEF Picks
<1> QED BY <1>3, <1>4 DEF Rising

LEMMA RisingAppend ==
  ASSUME NEW E, NEW s \in Seq(E), NEW e \in E, Rising(s), \A d \in ToSet(s) : d.id < e.id
  PROVE Rising(Append(s, e))
<1> DEFINE r == Append(s, e)
<1>1. /\ Len(s) \in Nat /\ DOMAIN s = 1 .. Len(s) /\ DOMAIN r = 1 .. Len(s) + 1
      /\ \A i \in 1 .. Len(s) : r[i] = s[i]
      /\ r[Len(s) + 1] = e
  BY AppendProperties
<1>2. \A i \in 1 .. Len(s) : s[i] \in ToSet(s)
  BY <1>1 DEF ToSet
<1> HIDE DEF r
<1>3. ASSUME NEW i \in DOMAIN r, NEW j \in DOMAIN r, i < j,
             r[i].kind # "summary", r[j].kind # "summary"
      PROVE r[i].id < r[j].id
  <2>1. i \in 1 .. Len(s) /\ r[i] = s[i]
    BY <1>1, <1>3
  <2>2. CASE j \in 1 .. Len(s)
    BY <1>1, <1>3, <2>1, <2>2 DEF Rising
  <2>3. CASE j = Len(s) + 1
    BY <1>1, <1>2, <2>1, <2>3
  <2> QED BY <1>1, <2>2, <2>3
<1> QED BY <1>3 DEF Rising, r

LEMMA RisingLed ==
  ASSUME NEW E, NEW q \in Seq(E), NEW k \in 2 .. Len(q) + 1, NEW x \in E, NEW r,
         r = Led(x, From(q, k)), Rising(q), x.kind = "summary"
  PROVE Rising(r)
<1>1. /\ DOMAIN r = 1 .. Len(q) - k + 2 /\ r[1] = x
      /\ \A i \in DOMAIN r : i # 1 => k + i - 2 \in 2 .. Len(q) /\ r[i] = q[k + i - 2]
  BY LedList
<1>2. DOMAIN q = 1 .. Len(q) /\ Len(q) \in Nat
  OBVIOUS
<1>3. ASSUME NEW i \in DOMAIN r, NEW j \in DOMAIN r, i < j,
             r[i].kind # "summary", r[j].kind # "summary"
      PROVE r[i].id < r[j].id
  <2>0. k \in Int /\ i \in Int /\ j \in Int /\ i # 1 /\ j # 1
    BY <1>1, <1>2, <1>3
  <2>1. k + j - 2 \in 2 .. Len(q) /\ r[j] = q[k + j - 2]
    BY <1>1, <2>0
  <2>2. k + i - 2 \in 2 .. Len(q) /\ r[i] = q[k + i - 2]
    BY <1>1, <2>0
  <2>3. k + i - 2 \in DOMAIN q /\ k + j - 2 \in DOMAIN q /\ k + i - 2 < k + j - 2
    BY <1>2, <1>3, <2>0, <2>1, <2>2
  <2> QED BY <1>3, <2>1, <2>2, <2>3 DEF Rising
<1> QED BY <1>3 DEF Rising

LEMMA RisingSummary ==
  ASSUME NEW E, NEW s, s.events \in Seq(E), NEW k \in 2 .. Len(s.events) + 1, NEW x \in E,
         NEW keep, Rising(s.events), s = [events |-> s.events, hist |-> s.hist, state |-> s.state],
         x.kind = "summary"
  PROVE Rising(Summary(s, k, x, keep).events)
<1> DEFINE q == s.events
           r == Led(x, From(q, k))
           h == IF keep THEN s.hist \o Dropped(Upto(q, k - 1), s.hist) ELSE s.hist
<1>1. Summary(s, k, x, keep) = [s EXCEPT !.events = r, !.hist = h]
  BY DEF Summary, Led
<1>2. q \in Seq(E) /\ k \in 2 .. Len(q) + 1 /\ Rising(q) /\ x.kind = "summary"
  OBVIOUS
<1>3. r = Led(x, From(q, k))
  OBVIOUS
<1> HIDE DEF q, r, h
<1>4. Rising(r)
  BY <1>2, <1>3, RisingLed
<1> QED BY <1>1, <1>4

LEMMA RisingRows ==
  ASSUME NEW R, NEW E, R \subseteq E, \A e \in E : e.at \in Nat, IsFiniteSet(R), OneAtATime(R),
         NEW o, Genuine(R, o)
  PROVE Rising(InTimeOrder(R)) /\ ToSet(InTimeOrder(R)) = R
<1> DEFINE q == InTimeOrder(R)
<1>1. /\ q \in Seq(E) /\ ToSet(q) = R
      /\ \A i, j \in DOMAIN q : i < j => q[i].at < q[j].at
  BY InTimeOrderFacts
<1> HIDE DEF q
<1>2. \A i \in DOMAIN q : q[i] \in R
  BY <1>1 DEF ToSet
<1>3. \A i \in DOMAIN q : q[i].kind # "summary" => q[i].at = q[i].id
  BY <1>2 DEF Genuine
<1>4. Rising(q)
  BY <1>1, <1>3 DEF Rising
<1> QED BY <1>1, <1>4 DEF q

-----------------------------------------------------------------------------
(* What the steps of the turns do to the log *)

Active(t) == pc[t] \notin {"idle", "done"}

Single == ~Overlap /\ ~Deferred

\* One turn at a time, where turns do not overlap.
Alone == Single => \A t, u \in Turns : Active(t) /\ Active(u) => t = u

\* The copies of the turns are made of genuine events.
Originals == \A t \in Turns : Genuine(ToSet(held[t].events), owned)

LEMMA AloneKept ==
  ASSUME TurnsOK, Alone, conf' = conf, NEW t \in Turns, MayBegin(t) \/ Active(t),
         \A u \in Turns \ {t} : pc'[u] = pc[u]
  PROVE Alone'
<1> SUFFICES ASSUME Single', NEW u \in Turns, NEW v \in Turns, Active(u)', Active(v)' PROVE u = v
  BY DEF Alone
<1>1. Single
  BY DEF Single, Overlap, Deferred
<1>2. \A x \in Turns \ {t} : ~Active(x)
  <2>1. CASE MayBegin(t)
    BY <1>1, <2>1 DEF MayBegin, Single, Active
  <2>2. CASE Active(t)
    BY <1>1, <2>2 DEF Alone
  <2> QED BY <2>1, <2>2
<1>3. \A x \in Turns : Active(x)' => x = t
  BY <1>2 DEF Active
<1> QED BY <1>3

\* Where turns do not overlap, a turn that begins or goes on is the only one.
LEMMA AloneNow ==
  ASSUME TurnsOK, Alone, Single, NEW t \in Turns, MayBegin(t) \/ Active(t),
         \A u \in Turns \ {t} : pc'[u] = pc[u]
  PROVE \A u \in Turns \ {t} : ~Active(u) /\ ~Active(u)'
<1>1. CASE MayBegin(t)
  BY <1>1 DEF MayBegin, Single, Active
<1>2. CASE Active(t)
  BY <1>2 DEF Alone, Active
<1> QED BY <1>1, <1>2

\* Events of the past are as genuine as before when turn t makes a new one.
LEMMA OriginalsKept ==
  ASSUME TurnsOK, NEW R, Genuine(R, owned), Past(R), NEW t \in Turns,
         owned' = owned \/ owned' = [owned EXCEPT ![t] = owned[t] \cup {now}]
  PROVE Genuine(R, owned')
<1>1. \A u \in Turns : owned[u] \subseteq owned'[u] /\ owned'[u] \subseteq owned[u] \cup {now}
  BY DEF TurnsOK
<1>2. now \in Nat \ {0}
  BY DEF TurnsOK
<1> QED BY <1>1, <1>2, GenuineKept

LEMMA AppendedLog ==
  ASSUME TurnsOK, TurnsPast, Originals, NEW t \in Turns, NEW p, NEW h, Appended(t, p, h)
  PROVE LET e == NewEvent(t)
            w == WithEvent(held[t], e)
        IN /\ e \in EventSet' /\ e.id = now /\ e.at = now /\ e.kind # "summary" /\ e.id \in 1 .. now'
           /\ now' = now + 1 /\ conf' = conf /\ retired \subseteq retired'
           /\ owned' = [owned EXCEPT ![t] = owned[t] \cup {now}] /\ owned'[t] = owned[t] \cup {now}
           /\ Max(owned'[t]) = now
           /\ \A u \in Turns \ {t} : owned'[u] = owned[u] /\ pc'[u] = pc[u]
           /\ pc'[t] = p /\ held' = h
           /\ w \in Sessions' /\ Genuine(ToSet(w.events), owned')
           /\ Rising(held[t].events) => Rising(w.events)
<1> DEFINE e == NewEvent(t)
           w == WithEvent(held[t], e)
           all == Append(held[t].events, e)
<1>1. /\ conf \in Configs /\ now \in Nat \ {0} /\ held[t] \in Sessions
      /\ now' = now + 1 /\ conf' = conf /\ held' = h
      /\ owned' = [owned EXCEPT ![t] = owned[t] \cup {e.id}] /\ pc' = [pc EXCEPT ![t] = p]
      /\ retired \subseteq retired'
  BY TurnTypes DEF Appended
<1>2. /\ e \in EventSet' /\ e.id = now /\ e.at = now /\ e.kind # "summary" /\ e.id \in 1 .. now'
  <2>1. /\ e \in EventSet' /\ e.id = now /\ e.at = now /\ e.kind \in {"user", "text"}
    BY <1>1, NewEvents
  <2>2. now \in 1 .. now'
    BY <1>1
  <2> QED BY <2>1, <2>2
<1> HIDE DEF e
<1>3. /\ w \in Sessions' /\ all \in Seq(EventSet') /\ Sublist(w.events, all)
      /\ ToSet(all) = ToSet(held[t].events) \cup {e} /\ ToSet(w.events) \subseteq ToSet(all)
  BY <1>1, <1>2, WithEventFacts
<1>4. /\ owned'[t] = owned[t] \cup {now}
      /\ \A u \in Turns \ {t} : owned'[u] = owned[u] /\ pc'[u] = pc[u]
      /\ pc'[t] = p
  BY <1>1, <1>2 DEF TurnsOK
<1>5. Max(owned'[t]) = now
  <2>1. owned[t] \subseteq 1 .. now - 1
    BY DEF TurnsPast
  <2> QED BY <1>1, <1>4, <2>1, LatestIsNew
<1> HIDE DEF w, all
<1>6. Genuine(ToSet(w.events), owned')
  <2>1. Genuine(ToSet(held[t].events), owned')
    <3>1. Genuine(ToSet(held[t].events), owned) /\ Past(ToSet(held[t].events))
      BY DEF Originals, TurnsPast
    <3> QED BY <1>1, <1>2, <3>1, OriginalsKept
  <2>2. e.at = e.id /\ \E u \in Turns : e.id \in owned'[u]
    BY <1>2, <1>4
  <2>3. \A x \in ToSet(w.events) : x \in ToSet(held[t].events) \/ x = e
    BY <1>3
  <2> QED BY <1>2, <2>1, <2>2, <2>3, GenuineMore
<1>7. ASSUME Rising(held[t].events) PROVE Rising(w.events)
  <2>1. held[t].events \in Seq(EventSet')
    BY <1>1, SessionsGrow, SessionFields
  <2>2. \A d \in ToSet(held[t].events) : d.id < e.id
    <3>1. \A d \in ToSet(held[t].events) : d.id \in 1 .. now - 1
      BY DEF TurnsPast, Past
    <3> QED BY <1>1, <1>2, <3>1
  <2>3. Rising(all)
    BY <1>2, <1>7, <2>1, <2>2, RisingAppend DEF all
  <2>4. w.events \in Seq(EventSet')
    BY <1>3 DEF Sessions
  <2> QED BY <1>3, <2>3, <2>4, RisingSublist
<1> QED BY <1>1, <1>2, <1>3, <1>4, <1>5, <1>6, <1>7 DEF e, w

\* The copy of a turn that appends goes on holding its log.
LEMMA AppendedFollows ==
  ASSUME TurnsOK, NEW t \in Turns, NEW p, NEW h, Appended(t, p, h), NEW L, NEW A, NEW D,
         Follows(StoreHistorical, held[t], L, A, D, retired)
  PROVE Follows(StoreHistorical, WithEvent(held[t], NewEvent(t)), L \cup {now}, A, D \cup {now}, retired')
<1> DEFINE e == NewEvent(t)
           out == Ids(Dropped(Append(held[t].events, e), Retained(Append(held[t].events, e), 0, MaxEvents)))
<1>1. /\ conf \in Configs /\ now \in Nat \ {0} /\ held[t] \in Sessions /\ now' = now + 1
      /\ retired' = retired \cup out
  BY TurnTypes DEF Appended
<1>2. /\ e \in EventSet' /\ e.id = now /\ e.kind # "summary" /\ e.id \in 1 .. now'
  <2>1. /\ e \in EventSet' /\ e.id = now /\ e.kind \in {"user", "text"}
    BY <1>1, NewEvents
  <2>2. now \in 1 .. now'
    BY <1>1
  <2> QED BY <2>1, <2>2
<1>3. out \subseteq retired' /\ retired \subseteq retired'
  BY <1>1
<1> HIDE DEF e
<1>4. Follows(StoreHistorical, WithEvent(held[t], e), L \cup {e.id}, A, D \cup {e.id}, retired')
  BY <1>1, <1>2, <1>3, FollowsAppend DEF out
<1> QED BY <1>2, <1>4 DEF e

\* So does the copy of a turn that puts a summary in the place of its first events.
LEMMA RewrittenLog ==
  ASSUME TurnsOK, TurnsPast, Originals, NEW t \in Turns, NEW s, Rewrites(t, s)
  PROVE /\ Genuine(ToSet(s.events), owned') /\ (Rising(held[t].events) => Rising(s.events))
        /\ \A L, A, D : Follows(StoreHistorical, held[t], L, A, D, retired)
                          => Follows(StoreHistorical, s, L, A, D, retired')
<1>0. /\ conf \in Configs /\ now \in Nat \ {0} /\ held[t] \in Sessions
      /\ held[t].events \in Seq(EventSet) /\ Len(held[t].events) \in Nat
      /\ held[t] = [events |-> held[t].events, hist |-> held[t].hist, state |-> held[t].state]
      /\ StoreHistorical \in BOOLEAN
  BY TurnTypes, SessionFields, ServiceConfTypes
<1>1. now' = now + 1 /\ owned' = owned /\ retired \subseteq retired'
  BY RewriteFacts
<1>2. \E k \in 2 .. Len(held[t].events) + 1 : \E summary \in EventSet' : \E keep \in BOOLEAN :
        Leads(t, s, k, summary, keep)
  BY RewriteFacts
<1>3. PICK k \in 2 .. Len(held[t].events) + 1, summary \in EventSet', keep \in BOOLEAN :
        Leads(t, s, k, summary, keep)
  BY <1>2
<1>4. /\ s = Summary(held[t], k, summary, keep) /\ summary.id = now /\ summary.kind = "summary"
      /\ Ids(Upto(held[t].events, k - 1)) \subseteq retired' /\ (StoreHistorical => keep)
      /\ k \in 1 .. Len(held[t].events) + 1
  BY <1>0, <1>3 DEF Leads
<1>5. Genuine(ToSet(s.events), owned')
  <2>1. \A x \in ToSet(s.events) : x \in ToSet(held[t].events) \/ x = summary
    <3>1. \A q \in Sessions : \A i \in 1 .. Len(q.events) + 1 : \A u \in EventSet', b \in BOOLEAN :
             /\ \A e : e \in ToSet(Summary(q, i, u, b).events) <=> e = u \/ e \in ToSet(From(q.events, i))
             /\ ToSet(q.events) = ToSet(Upto(q.events, i - 1)) \cup ToSet(From(q.events, i))
      BY <1>0, <1>1, SummaryFacts
    <3>2. \A x : x \in ToSet(s.events) <=> x = summary \/ x \in ToSet(From(held[t].events, k))
      BY <1>0, <1>4, <3>1
    <3>3. ToSet(held[t].events) = ToSet(Upto(held[t].events, k - 1)) \cup ToSet(From(held[t].events, k))
      BY <1>0, <1>4, <3>1
    <3> QED BY <3>2, <3>3
  <2>2. \A u \in Turns : summary.id \notin owned'[u]
    <3>1. \A u \in Turns : owned[u] \subseteq 1 .. now - 1
      BY DEF TurnsPast
    <3> QED BY <1>0, <1>1, <1>4, <3>1
  <2>3. Genuine(ToSet(held[t].events), owned')
    BY <1>1 DEF Originals
  <2> QED BY <1>4, <2>1, <2>2, <2>3, GenuineMore
<1>6. ASSUME Rising(held[t].events) PROVE Rising(s.events)
  <2>1. held[t].events \in Seq(EventSet')
    BY <1>0, <1>1, SessionsGrow
  <2> QED BY <1>0, <1>4, <1>6, <2>1, RisingSummary
<1>7. ASSUME NEW L, NEW A, NEW D, Follows(StoreHistorical, held[t], L, A, D, retired)
      PROVE Follows(StoreHistorical, s, L, A, D, retired')
  BY <1>0, <1>1, <1>4, <1>7, FollowsSummary
<1> QED BY <1>5, <1>6, <1>7

\* The next log r comes of the log s by one append, or by none.
LogStep(s, r) ==
    /\ retired \subseteq retired' /\ Rising(r.events)
    /\ \/ /\ written' = written
          /\ Follows(StoreHistorical, r, Lasting(ToSet(s.events)), Ids(s.hist),
                     s.state \ {Temp}, retired')
       \/ \E id : /\ id \notin written /\ written' = written \cup {id}
                  /\ Follows(StoreHistorical, r, Lasting(ToSet(s.events)) \cup {id}, Ids(s.hist),
                             (s.state \ {Temp}) \cup {id}, retired')

LEMMA LogStays ==
  ASSUME NEW s, Rising(s.events), retired \subseteq retired', written' = written
  PROVE LogStep(s, s)
BY FollowsSelf DEF LogStep

\* What is saved is the log again, and the copy that was saved follows it.
LEMMA LogSaved ==
  ASSUME NEW o, NEW s, NEW r, Rising(r.events), retired \subseteq retired', written' = written,
         Follows(StoreHistorical, s, Lasting(ToSet(o.events)), Ids(o.hist), o.state \ {Temp}, retired'),
         ToSet(r.events) = ToSet(s.events), StoreHistorical => r.hist = s.hist,
         r.state \ {Temp} = s.state \ {Temp}
  PROVE /\ LogStep(o, r)
        /\ Follows(StoreHistorical, s, Lasting(ToSet(r.events)), Ids(r.hist), r.state \ {Temp}, retired')
<1>1. Follows(StoreHistorical, r, Lasting(ToSet(o.events)), Ids(o.hist), o.state \ {Temp}, retired')
  BY FollowsSaved
<1>2. Follows(StoreHistorical, s, Lasting(ToSet(r.events)), Ids(r.hist), r.state \ {Temp}, retired')
  BY FollowsSaved
<1> QED BY <1>1, <1>2 DEF LogStep

\* A copy of a turn with nothing in flight.
LEMMA FollowsNone ==
  ASSUME NEW keep, NEW h, NEW L, NEW A, NEW D, NEW R, NEW F, F = {}
  PROVE Follows(keep, h, L \cup F, A, D \cup F, R) <=> Follows(keep, h, L, A, D, R)
<1>1. L \cup F = L /\ D \cup F = D
  OBVIOUS
<1> QED BY <1>1

LEMMA ConfKept ==
  ASSUME conf' = conf
  PROVE /\ Saves' = Saves /\ StoreHistorical' = StoreHistorical /\ MaxEvents' = MaxEvents
        /\ (Single' <=> Single) /\ (Promised' <=> Promised)
BY DEF Saves, StoreHistorical, MaxEvents, Single, Promised, Overlap, Deferred, NumRecent

LEMMA PromisedFacts ==
  ASSUME Promised, conf \in Configs
  PROVE /\ Saves # {} \/ conf.service = "redis" => Single /\ NumRecent = 0
        /\ conf.service = "memory" => "compact" \notin Saves
        /\ conf.service = "sql" /\ ~(Single /\ ~conf.peeks) =>
              Saves = {} /\ (MaxEvents = 0 \/ ~StoreHistorical)
BY ServiceConfTypes DEF Promised, Single

-----------------------------------------------------------------------------
(* The in-memory service and the log *)

\* The event that a turn has put in its copy and not yet in the store.
Flying(t) == IF pc[t] \in {"reading", "appending"} THEN {Max(owned[t])} ELSE {}

\* The copy of turn t is what is stored in s and what it is appending.
CopyOf(t, s) ==
    Follows(StoreHistorical, held[t], Lasting(ToSet(s.events)) \cup Flying(t),
            Ids(s.hist), (s.state \ {Temp}) \cup Flying(t), retired)

\* Only a summary keeps a turn from its end.
Summing == \A t \in Turns : pc[t] = "summing" => "summary" \in Saves

\* The store that a turn shares is that of a turn that is over.
MemoryLog ==
    /\ Genuine(ToSet(stored.events), owned) /\ Rising(stored.events)
    /\ \A t \in Turns : Rising(held[t].events) /\ pc[t] \notin {"reading", "appending"}
    /\ linked # NoTurn => pc[linked] = "done"
    /\ Saves # {} => \A t \in Turns : Active(t) => CopyOf(t, stored)

MemoryKept ==
    /\ TurnsOK /\ TurnsPast /\ MemoryInv /\ conf.service = "memory" /\ Promised
    /\ Alone /\ Summing /\ Originals /\ MemoryLog

LEMMA MemoryGetLog ==
  ASSUME MemoryKept, NEW t \in Turns, MemoryGetSession(t)
  PROVE Alone' /\ Summing' /\ Originals' /\ MemoryLog' /\ LogStep(stored, stored')
<1> DEFINE v == [stored EXCEPT !.events = Retained(@, 0, NumRecent)]
<1>0. /\ TurnsOK /\ TurnsPast /\ MemoryInv /\ Promised /\ Alone /\ Originals /\ MemoryLog
      /\ conf \in Configs /\ conf.service = "memory" /\ stored \in Sessions /\ Summing
  BY DEF MemoryKept, TurnsOK, MemoryInv
<1>1. /\ Hold(t, v) /\ stored' = stored /\ linked' = linked /\ link' = link
      /\ MayBegin(t) /\ pc[t] = "idle"
  BY DEF MemoryGetSession, memoryVars, Hold, MayBegin
<1>2. /\ v \in Sessions /\ ToSet(v.events) \subseteq ToSet(stored.events)
      /\ v.events = Retained(stored.events, 0, NumRecent) /\ v.hist = stored.hist
      /\ v.state = stored.state /\ Sublist(v.events, stored.events)
  BY <1>0, ViewFacts
<1> HIDE DEF v
<1>3. /\ conf' = conf /\ owned' = owned /\ written' = written /\ retired' = retired
      /\ held' = [held EXCEPT ![t] = v] /\ pc' = [pc EXCEPT ![t] = "open"]
  BY <1>1 DEF Hold
<1>4. /\ held'[t] = v /\ pc'[t] = "open"
      /\ \A u \in Turns \ {t} : held'[u] = held[u] /\ pc'[u] = pc[u]
  BY <1>0, <1>3, Others
<1>5. Alone'
  BY <1>0, <1>1, <1>3, <1>4, AloneKept
<1>6. Summing'
  BY <1>0, <1>3, <1>4, ConfKept DEF Summing
<1>7. Genuine(ToSet(v.events), owned)
  BY <1>0, <1>2, GenuineLess DEF MemoryLog
<1>8. Originals'
  BY <1>0, <1>3, <1>4, <1>7 DEF Originals
<1>9. Rising(v.events)
  <2>1. v.events \in Seq(EventSet) /\ stored.events \in Seq(EventSet)
    BY <1>0, <1>2, SessionFields
  <2> QED BY <1>0, <1>2, <2>1, RisingSublist DEF MemoryLog
<1>10. ASSUME Saves # {}, NEW u \in Turns, Active(u)' PROVE CopyOf(u, stored)'
  <2>1. Single /\ NumRecent = 0
    BY <1>0, <1>10, PromisedFacts
  <2>2. u = t
    BY <1>0, <1>1, <1>4, <1>10, <2>1, AloneNow
  <2>3. v.events = stored.events
    BY <1>2, <2>1 DEF Retained
  <2>4. Flying(t)' = {}
    BY <1>4 DEF Flying
  <2>5. Follows(StoreHistorical, v, Lasting(ToSet(v.events)), Ids(v.hist), v.state \ {Temp}, retired)
    BY FollowsSelf
  <2>6. Follows(StoreHistorical, v, Lasting(ToSet(stored.events)), Ids(stored.hist),
                stored.state \ {Temp}, retired)
    BY <1>2, <2>3, <2>5
  <2>7. Follows(StoreHistorical', held'[t], Lasting(ToSet(stored'.events)), Ids(stored'.hist),
                stored'.state \ {Temp}, retired')
    BY <1>1, <1>3, <1>4, <2>6, ConfKept
  <2>8. Follows(StoreHistorical', held'[t], Lasting(ToSet(stored'.events)) \cup Flying(t)', Ids(stored'.hist),
                (stored'.state \ {Temp}) \cup Flying(t)', retired')
    BY <2>4, <2>7, FollowsNone
  <2> QED BY <2>2, <2>8 DEF CopyOf
<1>11. linked' # NoTurn => pc'[linked'] = "done"
  BY <1>0, <1>1, <1>4 DEF MemoryLog, MemoryInv
<1>12. MemoryLog'
  <2>1. Genuine(ToSet(stored'.events), owned') /\ Rising(stored'.events)
    BY <1>0, <1>1, <1>3 DEF MemoryLog
  <2>2. \A u \in Turns : Rising(held'[u].events) /\ pc'[u] \notin {"reading", "appending"}
    BY <1>0, <1>4, <1>9 DEF MemoryLog
  <2>3. Saves' # {} => \A u \in Turns : Active(u)' => CopyOf(u, stored)'
    BY <1>3, <1>10, ConfKept
  <2> QED BY <1>11, <2>1, <2>2, <2>3 DEF MemoryLog
<1>13. LogStep(stored, stored')
  BY <1>0, <1>1, <1>3, LogStays DEF MemoryLog
<1> QED BY <1>5, <1>6, <1>8, <1>12, <1>13
LEMMA CopyAtRest ==
  ASSUME NEW t \in Turns, NEW s, conf' = conf, Flying(t)' = {},
         Follows(StoreHistorical, held'[t], Lasting(ToSet(s.events)), Ids(s.hist),
                 s.state \ {Temp}, retired')
  PROVE Follows(StoreHistorical', held'[t], Lasting(ToSet(s.events)) \cup Flying(t)', Ids(s.hist),
                (s.state \ {Temp}) \cup Flying(t)', retired')
<1>1. StoreHistorical' = StoreHistorical
  BY ConfKept
<1> QED BY <1>1, FollowsNone

LEMMA SharedEvents ==
  ASSUME NEW S, NEW copies \in [Turns -> S], \A s \in S : DOMAIN s = {"events", "hist", "state"},
         NEW e, linked \in Turns \cup {NoTurn}, NEW u \in Turns
  PROVE Shared(copies, e)[u].events \in {copies[u].events, Append(copies[u].events, e)}
<1>1. CASE linked = NoTurn
  BY <1>1 DEF Shared
<1>2. CASE linked # NoTurn
  <2> DEFINE x == IF link = "state" THEN copies[linked].events ELSE Append(copies[linked].events, e)
             y == copies[linked].state \cup {e.id}
             q == [copies[linked] EXCEPT !.events = x, !.state = y]
  <2>1. linked \in Turns /\ DOMAIN copies[linked] = {"events", "hist", "state"}
    BY <1>2
  <2>2. Shared(copies, e) = [copies EXCEPT ![linked].events = x, ![linked].state = y]
    BY <1>2 DEF Shared
  <2>3. x \in {copies[linked].events, Append(copies[linked].events, e)}
    OBVIOUS
  <2> HIDE DEF x, y
  <2>4. Shared(copies, e) = [copies EXCEPT ![linked] = q]
    BY <2>1, <2>2
  <2>5. q.events = x
    BY <2>1
  <2> HIDE DEF q
  <2> QED BY <2>1, <2>3, <2>4, <2>5
<1> QED BY <1>1, <1>2

LEMMA MemoryAppendLog ==
  ASSUME MemoryKept, NEW t \in Turns, AppendEvent(t)
  PROVE Alone' /\ Summing' /\ Originals' /\ MemoryLog' /\ LogStep(stored, stored')
<1> DEFINE e == NewEvent(t)
           w == WithEvent(held[t], e)
           c == [held EXCEPT ![t] = w]
           h == Shared(c, e)
           r == [stored EXCEPT !.events = Append(@, e), !.state = @ \cup {e.id}]
<1>0. /\ TurnsOK /\ TurnsPast /\ MemoryInv /\ Promised /\ Alone /\ Originals /\ MemoryLog
      /\ conf \in Configs /\ conf.service = "memory" /\ stored \in Sessions /\ Summing
      /\ now \in Nat \ {0} /\ held \in [Turns -> Sessions] /\ linked \in Turns \cup {NoTurn}
  BY DEF MemoryKept, TurnsOK, MemoryInv
<1>1. pc[t] = "open" /\ linked # t /\ MayAppend(t) /\ written' = written \cup {now} /\ Active(t)
  BY <1>0, NoTurnAssumption DEF AppendEvent, MayAppend, MemoryLog, Active
<1>2. Appended(t, "open", h) /\ stored' = r /\ linked' = linked /\ link' = link
  BY <1>1 DEF AppendEvent, MemoryAppendToCopy
<1> HIDE DEF h
<1>3. /\ e \in EventSet' /\ e.id = now /\ e.at = now /\ e.kind # "summary" /\ e.id \in 1 .. now'
      /\ now' = now + 1 /\ conf' = conf /\ retired \subseteq retired'
      /\ owned' = [owned EXCEPT ![t] = owned[t] \cup {now}] /\ owned'[t] = owned[t] \cup {now}
      /\ \A u \in Turns \ {t} : owned'[u] = owned[u] /\ pc'[u] = pc[u]
      /\ pc'[t] = "open" /\ held' = h
      /\ w \in Sessions' /\ Genuine(ToSet(w.events), owned')
      /\ Rising(held[t].events) => Rising(w.events)
  BY <1>0, <1>2, AppendedLog
<1>4. \A L, A, D : Follows(StoreHistorical, held[t], L, A, D, retired)
         => Follows(StoreHistorical, w, L \cup {now}, A, D \cup {now}, retired')
  BY <1>0, <1>2, AppendedFollows
<1> HIDE DEF e, w
<1>5. Sessions \subseteq Sessions' /\ \A s \in Seq(EventSet) : s \in Seq(EventSet')
  BY <1>0, <1>3, SessionsGrow
<1>6. c \in [Turns -> Sessions'] /\ c[t] = w /\ \A u \in Turns \ {t} : c[u] = held[u]
  BY <1>0, <1>3, <1>5
<1> HIDE DEF c
<1>7. /\ h[t] = w
      /\ \A u \in Turns : ToSet(h[u].events) \subseteq ToSet(c[u].events) \cup {e}
  <2>0. /\ TurnsOK /\ MemoryInv /\ now' = now + 1 /\ e \in EventSet' /\ e.id \in 1 .. now'
        /\ c \in [Turns -> Sessions'] /\ linked # t
    BY <1>0, <1>1, <1>3, <1>6
  <2>1. /\ Shared(c, e)[t] = c[t]
        /\ \A u \in Turns : /\ ToSet(c[u].events) \subseteq ToSet(Shared(c, e)[u].events)
                            /\ ToSet(Shared(c, e)[u].events) \subseteq ToSet(c[u].events) \cup {e}
    BY <2>0, SharedFacts
  <2> QED BY <1>6, <2>1 DEF h
<1>8. \A u \in Turns : h[u].events \in {c[u].events, Append(c[u].events, e)}
  <2>1. \A s \in Sessions' : DOMAIN s = {"events", "hist", "state"}
    BY DEF Sessions
  <2> QED BY <1>0, <1>6, <2>1, SharedEvents DEF h
<1>9. /\ ToSet(r.events) = ToSet(stored.events) \cup {e} /\ r.events = Append(stored.events, e)
      /\ r.hist = stored.hist /\ r.state = stored.state \cup {now}
  <2>1. now \in Nat \ {0} /\ now' = now + 1 /\ stored \in Sessions /\ e \in EventSet' /\ e.id \in 1 .. now'
    BY <1>0, <1>3
  <2>2. /\ ToSet(r.events) = ToSet(stored.events) \cup {e} /\ r.events = Append(stored.events, e)
        /\ r.hist = stored.hist /\ r.state = stored.state \cup {e.id}
    BY <2>1, StoredAppend
  <2> QED BY <1>3, <2>2
<1> HIDE DEF r
<1>10. \A R : Genuine(R, owned) /\ Past(R) => Genuine(R, owned')
  BY <1>0, <1>3, OriginalsKept
<1>11. \A R, Q : Genuine(R, owned') /\ (\A x \in Q : x \in R \/ x = e) => Genuine(Q, owned')
  <2>1. e.at = e.id /\ \E u \in Turns : e.id \in owned'[u]
    BY <1>3
  <2> QED BY <1>3, <2>1, GenuineMore
<1>12. \A s \in Seq(EventSet') : Rising(s) /\ Past(ToSet(s)) => Rising(Append(s, e))
  <2> SUFFICES ASSUME NEW s \in Seq(EventSet'), Rising(s), Past(ToSet(s)) PROVE Rising(Append(s, e))
    OBVIOUS
  <2>1. \A d \in ToSet(s) : d.id < e.id
    <3>1. \A d \in ToSet(s) : d.id \in 1 .. now - 1
      BY DEF Past
    <3> QED BY <1>0, <1>3, <3>1
  <2> QED BY <1>3, <2>1, RisingAppend
<1>13. Genuine(ToSet(stored'.events), owned') /\ Rising(stored'.events)
  <2>1. stored.events \in Seq(EventSet')
    BY <1>0, <1>5, SessionFields
  <2>2. Past(ToSet(stored.events)) /\ Genuine(ToSet(stored.events), owned) /\ Rising(stored.events)
    BY <1>0 DEF MemoryInv, MemoryLog
  <2>3. Genuine(ToSet(r.events), owned')
    BY <1>9, <1>10, <1>11, <2>2
  <2> QED BY <1>2, <1>9, <1>12, <2>1, <2>2, <2>3
<1>14. ASSUME NEW u \in Turns PROVE Genuine(ToSet(h[u].events), owned') /\ Rising(h[u].events)
  <2>1. CASE u = t
    BY <1>0, <1>3, <1>7, <2>1 DEF MemoryLog
  <2>2. CASE u # t
    <3>1. /\ Past(ToSet(held[u].events)) /\ Genuine(ToSet(held[u].events), owned)
          /\ Rising(held[u].events) /\ held[u].events \in Seq(EventSet') /\ c[u] = held[u]
      BY <1>0, <1>5, <1>6, <2>2, TurnTypes DEF TurnsPast, Originals, MemoryLog
    <3>2. Genuine(ToSet(h[u].events), owned')
      <4>1. \A x \in ToSet(h[u].events) : x \in ToSet(held[u].events) \/ x = e
        BY <1>7, <3>1
      <4> QED BY <1>10, <1>11, <3>1, <4>1
    <3> QED BY <1>8, <1>12, <3>1, <3>2
  <2> QED BY <2>1, <2>2
<1>15. Originals'
  BY <1>3, <1>14 DEF Originals
<1>16. Alone'
  BY <1>0, <1>1, <1>3, AloneKept
<1>17. Summing'
  BY <1>0, <1>3, ConfKept DEF Summing
<1>18. Lasting(ToSet(r.events)) = Lasting(ToSet(stored.events)) \cup {now}
  BY <1>3, <1>9, LastingAdd
<1>19. r.state \ {Temp} = (stored.state \ {Temp}) \cup {now}
  BY <1>0, <1>9 DEF Temp
<1>20. ASSUME Saves # {}, NEW u \in Turns, Active(u)' PROVE CopyOf(u, stored)'
  <2>1. Single
    BY <1>0, <1>20, PromisedFacts
  <2>2. u = t
    BY <1>0, <1>1, <1>3, <1>20, <2>1, AloneNow
  <2>3. Flying(t) = {} /\ Flying(t)' = {}
    BY <1>1, <1>3 DEF Flying
  <2>4. Follows(StoreHistorical, held[t], Lasting(ToSet(stored.events)) \cup Flying(t), Ids(stored.hist),
                (stored.state \ {Temp}) \cup Flying(t), retired)
    BY <1>0, <1>1, <1>20 DEF MemoryLog, CopyOf
  <2>5. Follows(StoreHistorical, held[t], Lasting(ToSet(stored.events)), Ids(stored.hist),
                stored.state \ {Temp}, retired)
    BY <2>3, <2>4, FollowsNone
  <2>6. Follows(StoreHistorical, w, Lasting(ToSet(stored.events)) \cup {now}, Ids(stored.hist),
                (stored.state \ {Temp}) \cup {now}, retired')
    BY <1>4, <2>5
  <2>7. Follows(StoreHistorical, held'[t], Lasting(ToSet(stored'.events)), Ids(stored'.hist),
                stored'.state \ {Temp}, retired')
    BY <1>2, <1>3, <1>7, <1>9, <1>18, <1>19, <2>6
  <2> QED BY <1>3, <2>2, <2>3, <2>7, CopyAtRest DEF CopyOf
<1>21. MemoryLog'
  <2>2. \A u \in Turns : Rising(held'[u].events) /\ pc'[u] \notin {"reading", "appending"}
    BY <1>0, <1>3, <1>14 DEF MemoryLog
  <2>3. Saves' # {} => \A u \in Turns : Active(u)' => CopyOf(u, stored)'
    BY <1>3, <1>20, ConfKept
  <2>4. linked' # NoTurn => pc'[linked'] = "done"
    BY <1>0, <1>1, <1>2, <1>3 DEF MemoryLog
  <2> QED BY <1>13, <2>2, <2>3, <2>4 DEF MemoryLog
<1>22. LogStep(stored, stored')
  <2>1. now \notin written
    BY <1>0 DEF TurnsPast
  <2>2. Follows(StoreHistorical, r, Lasting(ToSet(r.events)), Ids(r.hist), r.state \ {Temp}, retired')
    BY FollowsSelf
  <2>3. Follows(StoreHistorical, r, Lasting(ToSet(stored.events)) \cup {now}, Ids(stored.hist),
                (stored.state \ {Temp}) \cup {now}, retired')
    BY <1>9, <1>18, <1>19, <2>2
  <2> QED BY <1>1, <1>2, <1>3, <1>13, <2>1, <2>3 DEF LogStep
<1> QED BY <1>15, <1>16, <1>17, <1>21, <1>22
LEMMA MemoryRewriteLog ==
  ASSUME MemoryKept, NEW t \in Turns, MemoryCompactMidTurn(t) \/ MemoryFinishSummary(t)
  PROVE Alone' /\ Summing' /\ Originals' /\ MemoryLog' /\ LogStep(stored, stored')
<1>0. /\ TurnsOK /\ TurnsPast /\ MemoryInv /\ Promised /\ Alone /\ Originals /\ MemoryLog
      /\ conf \in Configs /\ conf.service = "memory" /\ stored \in Sessions /\ Summing
  BY DEF MemoryKept, TurnsOK, MemoryInv
<1>1. PICK s : /\ Rewrites(t, s) /\ MemoryUpdateSession(t, s)
               /\ MayCompact(t) \/ (pc[t] = "summing" /\ Rewritten(t, SummariseFrom(t), s, "done"))
  BY DEF MemoryCompactMidTurn, MemoryFinishSummary, Rewrites
<1>2. pc[t] = "summing" /\ Rewritten(t, SummariseFrom(t), s, "done")
  BY <1>0, <1>1, PromisedFacts DEF MayCompact
<1>3. /\ conf' = conf /\ s \in Sessions' /\ held'[t] = s /\ \A u \in Turns \ {t} : held'[u] = held[u]
      /\ owned' = owned /\ written' = written /\ retired \subseteq retired'
      /\ \A u \in Turns \ {t} : pc'[u] = pc[u]
  BY <1>0, <1>1, RewriteFacts
<1>4. pc'[t] = "done" /\ Active(t)
  BY <1>0, <1>2 DEF Rewritten, TurnsOK, Active
<1>5. /\ Genuine(ToSet(s.events), owned') /\ (Rising(held[t].events) => Rising(s.events))
      /\ \A L, A, D : Follows(StoreHistorical, held[t], L, A, D, retired)
                        => Follows(StoreHistorical, s, L, A, D, retired')
  BY <1>0, <1>1, RewrittenLog
<1>6. Saves # {} /\ Single
  BY <1>0, <1>2, PromisedFacts DEF Summing
<1>7. linked' = t /\ stored'.events = s.events /\ (StoreHistorical => stored'.hist = s.hist)
      /\ stored'.state = s.state
  <2>1. s = [events |-> s.events, hist |-> s.hist, state |-> s.state]
    BY <1>3 DEF Sessions
  <2>2. linked' = t /\ stored' = IF StoreHistorical THEN s ELSE [s EXCEPT !.hist = <<>>]
    BY <1>1 DEF MemoryUpdateSession
  <2>3. StoreHistorical \in BOOLEAN
    BY <1>0, ServiceConfTypes
  <2> QED BY <2>1, <2>2, <2>3
<1>8. Rising(s.events)
  BY <1>0, <1>5 DEF MemoryLog
<1>9. Follows(StoreHistorical, held[t], Lasting(ToSet(stored.events)), Ids(stored.hist),
              stored.state \ {Temp}, retired)
  <2>1. Flying(t) = {}
    BY <1>2 DEF Flying
  <2>2. Follows(StoreHistorical, held[t], Lasting(ToSet(stored.events)) \cup Flying(t), Ids(stored.hist),
                (stored.state \ {Temp}) \cup Flying(t), retired)
    BY <1>0, <1>4, <1>6 DEF MemoryLog, CopyOf
  <2> QED BY <2>1, <2>2, FollowsNone
<1>10. LogStep(stored, stored')
  <2>1. Follows(StoreHistorical, s, Lasting(ToSet(stored.events)), Ids(stored.hist),
                stored.state \ {Temp}, retired')
    BY <1>5, <1>9
  <2>2. Rising(stored'.events) /\ ToSet(stored'.events) = ToSet(s.events)
        /\ stored'.state \ {Temp} = s.state \ {Temp}
    BY <1>7, <1>8
  <2> QED BY <1>3, <1>7, <2>1, <2>2, LogSaved
<1>11. \A u \in Turns : ~Active(u)'
  <2>1. \A u \in Turns \ {t} : ~Active(u)'
    BY <1>0, <1>3, <1>4, <1>6, AloneNow
  <2> QED BY <1>4, <2>1 DEF Active
<1>12. Alone' /\ Summing'
  BY <1>11 DEF Alone, Summing, Active
<1>13. Originals'
  BY <1>0, <1>3, <1>5 DEF Originals
<1>14. MemoryLog'
  <2>1. Genuine(ToSet(stored'.events), owned') /\ Rising(stored'.events)
    BY <1>5, <1>7, <1>8
  <2>2. \A u \in Turns : Rising(held'[u].events) /\ pc'[u] \notin {"reading", "appending"}
    BY <1>0, <1>3, <1>4, <1>8 DEF MemoryLog
  <2> QED BY <1>4, <1>7, <1>11, <2>1, <2>2 DEF MemoryLog
<1> QED BY <1>10, <1>12, <1>13, <1>14

LEMMA MemoryPhaseLog ==
  ASSUME MemoryKept, NEW t \in Turns,
         MemorySaveUnchanged(t) \/ (StartSummary(t) /\ UNCHANGED memoryVars)
                                \/ (EndTurn(t) /\ UNCHANGED memoryVars)
  PROVE Alone' /\ Summing' /\ Originals' /\ MemoryLog' /\ LogStep(stored, stored')
<1>0. /\ TurnsOK /\ TurnsPast /\ MemoryInv /\ Promised /\ Alone /\ Originals /\ MemoryLog
      /\ conf \in Configs /\ conf.service = "memory" /\ stored \in Sessions /\ Summing
      /\ held[t] \in Sessions
  BY TurnTypes DEF MemoryKept, TurnsOK, MemoryInv
<1>1. /\ conf' = conf /\ held' = held /\ owned' = owned /\ written' = written /\ retired' = retired
      /\ pc[t] \in {"open", "summing"}
      /\ \/ pc' = [pc EXCEPT ![t] = "done"]
         \/ pc' = [pc EXCEPT ![t] = "summing"] /\ "summary" \in Saves
  BY DEF MemorySaveUnchanged, StartSummary, EndTurn
<1>2. /\ \A u \in Turns \ {t} : pc'[u] = pc[u]
      /\ pc'[t] = "done" \/ (pc'[t] = "summing" /\ "summary" \in Saves)
      /\ Active(t)
  BY <1>0, <1>1 DEF TurnsOK, Active
<1>3. Saves' = Saves /\ StoreHistorical' = StoreHistorical
  BY <1>1, ConfKept
<1>4. Alone' /\ Summing' /\ Originals'
  <2>1. Alone'
    BY <1>0, <1>1, <1>2, AloneKept
  <2>2. Summing'
    BY <1>0, <1>2, <1>3 DEF Summing
  <2> QED BY <1>0, <1>1, <2>1, <2>2 DEF Originals
<1>5. \A u \in Turns : /\ Rising(held'[u].events) /\ pc'[u] \notin {"reading", "appending"}
                       /\ Flying(u) = {} /\ Flying(u)' = {} /\ (Active(u)' => Active(u))
  BY <1>0, <1>1, <1>2 DEF MemoryLog, Flying, Active
<1>6. CASE UNCHANGED memoryVars
  <2>1. stored' = stored /\ linked' = linked
    BY <1>6 DEF memoryVars
  <2>2. LogStep(stored, stored')
    BY <1>0, <1>1, <2>1, LogStays DEF MemoryLog
  <2>3. Saves # {} => \A u \in Turns : Active(u)' => CopyOf(u, stored)'
    BY <1>0, <1>1, <1>3, <1>5, <2>1 DEF MemoryLog, CopyOf
  <2>4. linked' # NoTurn => pc'[linked'] = "done"
    BY <1>0, <1>1, <1>2, <2>1 DEF MemoryLog, MemoryInv
  <2>5. MemoryLog'
    BY <1>0, <1>1, <1>3, <1>5, <2>1, <2>3, <2>4 DEF MemoryLog
  <2> QED BY <1>4, <2>2, <2>5
<1>7. CASE MemorySaveUnchanged(t)
  <2> DEFINE s == held[t]
  <2>1. /\ linked' = t /\ stored'.events = s.events /\ (StoreHistorical => stored'.hist = s.hist)
        /\ stored'.state = s.state
    <3>1. s = [events |-> s.events, hist |-> s.hist, state |-> s.state]
      BY <1>0 DEF Sessions
    <3>2. linked' = t /\ stored' = IF StoreHistorical THEN s ELSE [s EXCEPT !.hist = <<>>]
      BY <1>7 DEF MemorySaveUnchanged, MemoryUpdateSession
    <3>3. StoreHistorical \in BOOLEAN
      BY <1>0, ServiceConfTypes
    <3> HIDE DEF s
    <3> QED BY <3>1, <3>2, <3>3
  <2>2. Saves # {} /\ Single /\ pc'[t] = "done"
    <3>1. Saves # {}
      BY <1>0, <1>7 DEF MemorySaveUnchanged, Summing
    <3>2. pc'[t] = "done"
      BY <1>0, <1>7 DEF MemorySaveUnchanged, TurnsOK
    <3> QED BY <1>0, <3>1, <3>2, PromisedFacts
  <2>3. Follows(StoreHistorical, s, Lasting(ToSet(stored.events)), Ids(stored.hist),
                stored.state \ {Temp}, retired')
    <3>1. Follows(StoreHistorical, held[t], Lasting(ToSet(stored.events)) \cup Flying(t),
                  Ids(stored.hist), (stored.state \ {Temp}) \cup Flying(t), retired)
      BY <1>0, <1>2, <2>2 DEF MemoryLog, CopyOf
    <3> QED BY <1>1, <1>5, <3>1, FollowsNone
  <2>4. Rising(s.events) /\ Genuine(ToSet(s.events), owned)
    BY <1>0 DEF MemoryLog, Originals
  <2> HIDE DEF s
  <2>5. LogStep(stored, stored')
    <3>1. Rising(stored'.events) /\ ToSet(stored'.events) = ToSet(s.events)
          /\ stored'.state \ {Temp} = s.state \ {Temp} /\ retired \subseteq retired'
      BY <1>1, <2>1, <2>4
    <3> QED BY <1>1, <2>1, <2>3, <3>1, LogSaved
  <2>6. \A u \in Turns : ~Active(u)'
    <3>1. \A u \in Turns \ {t} : ~Active(u)'
      BY <1>0, <1>2, <2>2, AloneNow
    <3> QED BY <2>2, <3>1 DEF Active
  <2>7. MemoryLog'
    <3>1. Genuine(ToSet(stored'.events), owned') /\ Rising(stored'.events)
      BY <1>1, <2>1, <2>4
    <3>2. pc'[linked'] = "done"
      BY <2>1, <2>2
    <3> QED BY <1>5, <2>6, <3>1, <3>2 DEF MemoryLog
  <2> QED BY <1>4, <2>5, <2>7
<1> QED BY <1>1, <1>6, <1>7

LEMMA MemoryLogStep ==
  ASSUME MemoryKept, MemoryNext
  PROVE Alone' /\ Summing' /\ Originals' /\ MemoryLog' /\ LogStep(stored, stored')
<1>1. PICK t \in Turns :
        \/ MemoryGetSession(t) \/ AppendEvent(t) \/ MemoryCompactMidTurn(t)
        \/ MemoryFinishSummary(t) \/ MemorySaveUnchanged(t)
        \/ StartSummary(t) /\ UNCHANGED memoryVars
        \/ EndTurn(t) /\ UNCHANGED memoryVars
  BY DEF MemoryNext
<1> QED BY <1>1, MemoryGetLog, MemoryAppendLog, MemoryRewriteLog, MemoryPhaseLog

-----------------------------------------------------------------------------
(* The Redis service and the log *)

\* The append in flight has not returned.
Unwritten(t) == pc[t] \in {"reading", "appending"} => Max(owned[t]) \notin written

RedisLog ==
    /\ Genuine(ToSet(document.events), owned) /\ Rising(document.events)
    /\ \A t \in Turns : Rising(held[t].events) /\ Unwritten(t)
    /\ \A t \in Turns : pc[t] = "appending" => fetched[t] = document.state
    /\ \A t \in Turns : Active(t) => CopyOf(t, document)

RedisKept ==
    /\ TurnsOK /\ TurnsPast /\ RedisInv /\ conf.service = "redis" /\ Promised
    /\ Alone /\ Summing /\ Originals /\ RedisLog

LEMMA StrippedFacts ==
  ASSUME conf \in Configs, NEW S, NEW s \in S, \A x \in S : DOMAIN x = {"events", "hist", "state"}
  PROVE /\ Stripped(s).events = s.events /\ (StoreHistorical => Stripped(s).hist = s.hist)
        /\ Stripped(s).state = s.state
<1>1. StoreHistorical \in BOOLEAN /\ DOMAIN s = {"events", "hist", "state"}
  BY ServiceConfTypes
<1> QED BY <1>1 DEF Stripped

LEMMA RedisGetLog ==
  ASSUME RedisKept, NEW t \in Turns, RedisGetSession(t)
  PROVE Alone' /\ Summing' /\ Originals' /\ RedisLog' /\ LogStep(document, document')
<1> DEFINE v == [document EXCEPT !.events = Retained(@, 0, NumRecent)]
<1>0. /\ TurnsOK /\ TurnsPast /\ RedisInv /\ Promised /\ Alone /\ Originals /\ RedisLog
      /\ conf \in Configs /\ conf.service = "redis" /\ document \in Sessions /\ Summing
      /\ Single /\ NumRecent = 0
  BY PromisedFacts DEF RedisKept, TurnsOK, RedisInv
<1>1. /\ Hold(t, v) /\ document' = document /\ fetched' = fetched
      /\ MayBegin(t) /\ pc[t] = "idle"
  BY DEF RedisGetSession, redisVars, Hold, MayBegin
<1>2. /\ v \in Sessions /\ v.events = Retained(document.events, 0, NumRecent)
      /\ v.hist = document.hist /\ v.state = document.state
  BY <1>0, ViewFacts
<1> HIDE DEF v
<1>3. /\ conf' = conf /\ owned' = owned /\ written' = written /\ retired' = retired
      /\ held' = [held EXCEPT ![t] = v] /\ pc' = [pc EXCEPT ![t] = "open"]
  BY <1>1 DEF Hold
<1>4. /\ held'[t] = v /\ pc'[t] = "open"
      /\ \A u \in Turns \ {t} : held'[u] = held[u] /\ pc'[u] = pc[u]
  BY <1>0, <1>3, Others
<1>5. Alone'
  BY <1>0, <1>1, <1>3, <1>4, AloneKept
<1>6. Summing'
  BY <1>0, <1>3, <1>4, ConfKept DEF Summing
<1>7. v.events = document.events
  BY <1>0, <1>2 DEF Retained
<1>8. Originals'
  BY <1>0, <1>3, <1>4, <1>7 DEF Originals, RedisLog
<1>9. ASSUME NEW u \in Turns, Active(u)' PROVE CopyOf(u, document)'
  <2>2. u = t
    BY <1>0, <1>1, <1>4, <1>9, AloneNow
  <2>3. Flying(t)' = {}
    BY <1>4 DEF Flying
  <2>4. Follows(StoreHistorical, v, Lasting(ToSet(v.events)), Ids(v.hist), v.state \ {Temp}, retired')
    BY FollowsSelf
  <2>5. Follows(StoreHistorical, held'[t], Lasting(ToSet(document'.events)), Ids(document'.hist),
                document'.state \ {Temp}, retired')
    BY <1>1, <1>2, <1>4, <1>7, <2>4
  <2> QED BY <1>3, <2>2, <2>3, <2>5, CopyAtRest DEF CopyOf
<1>10. RedisLog'
  <2>1. Genuine(ToSet(document'.events), owned') /\ Rising(document'.events)
    BY <1>0, <1>1, <1>3 DEF RedisLog
  <2>2. \A u \in Turns : Rising(held'[u].events) /\ Unwritten(u)'
    BY <1>0, <1>3, <1>4, <1>7 DEF RedisLog, Unwritten
  <2>3. \A u \in Turns : pc'[u] = "appending" => fetched'[u] = document'.state
    BY <1>0, <1>1, <1>4 DEF RedisLog
  <2> QED BY <1>9, <2>1, <2>2, <2>3 DEF RedisLog
<1>11. LogStep(document, document')
  BY <1>0, <1>1, <1>3, LogStays DEF RedisLog
<1> QED BY <1>5, <1>6, <1>8, <1>10, <1>11

LEMMA RedisAppendLog ==
  ASSUME RedisKept, NEW t \in Turns, RedisAppendToCopy(t)
  PROVE Alone' /\ Summing' /\ Originals' /\ RedisLog' /\ LogStep(document, document')
<1> DEFINE e == NewEvent(t)
           w == WithEvent(held[t], e)
           h == [held EXCEPT ![t] = w]
<1>0. /\ TurnsOK /\ TurnsPast /\ RedisInv /\ Promised /\ Alone /\ Originals /\ RedisLog
      /\ conf \in Configs /\ conf.service = "redis" /\ document \in Sessions /\ Summing
      /\ Single /\ now \in Nat \ {0}
  BY PromisedFacts DEF RedisKept, TurnsOK, RedisInv
<1>1. /\ Appended(t, "reading", h) /\ document' = document /\ fetched' = fetched
      /\ written' = written /\ pc[t] = "open" /\ Active(t)
  BY DEF RedisAppendToCopy, redisVars, MayAppend, Active
<1>2. /\ conf' = conf /\ retired \subseteq retired' /\ now' = now + 1
      /\ owned' = [owned EXCEPT ![t] = owned[t] \cup {now}] /\ Max(owned'[t]) = now
      /\ \A u \in Turns \ {t} : owned'[u] = owned[u] /\ pc'[u] = pc[u]
      /\ pc'[t] = "reading" /\ held' = h /\ Genuine(ToSet(w.events), owned')
      /\ Rising(held[t].events) => Rising(w.events)
  BY <1>0, <1>1, AppendedLog
<1>3. \A L, A, D : Follows(StoreHistorical, held[t], L, A, D, retired)
         => Follows(StoreHistorical, w, L \cup {now}, A, D \cup {now}, retired')
  BY <1>0, <1>1, AppendedFollows
<1> HIDE DEF e, w
<1>4. held'[t] = w /\ \A u \in Turns \ {t} : held'[u] = held[u]
  BY <1>0, <1>2 DEF TurnsOK
<1>5. \A R : Genuine(R, owned) /\ Past(R) => Genuine(R, owned')
  BY <1>0, <1>2, OriginalsKept
<1>6. Alone'
  BY <1>0, <1>1, <1>2, AloneKept
<1>7. Summing'
  BY <1>0, <1>2, ConfKept DEF Summing
<1>8. Originals'
  <2> SUFFICES ASSUME NEW u \in Turns PROVE Genuine(ToSet(held'[u].events), owned')
    BY DEF Originals
  <2>1. CASE u = t
    BY <1>2, <1>4, <2>1
  <2>2. CASE u # t
    BY <1>0, <1>4, <1>5, <2>2 DEF Originals, TurnsPast
  <2> QED BY <2>1, <2>2
<1>9. ASSUME NEW u \in Turns, Active(u)' PROVE CopyOf(u, document)'
  <2>1. u = t
    BY <1>0, <1>1, <1>2, <1>9, AloneNow
  <2>2. Flying(t) = {} /\ Flying(t)' = {now}
    BY <1>1, <1>2 DEF Flying
  <2>3. Follows(StoreHistorical, held[t], Lasting(ToSet(document.events)) \cup Flying(t), Ids(document.hist),
                (document.state \ {Temp}) \cup Flying(t), retired)
    BY <1>0, <1>1 DEF RedisLog, CopyOf
  <2>4. Follows(StoreHistorical, held[t], Lasting(ToSet(document.events)), Ids(document.hist),
                document.state \ {Temp}, retired)
    BY <2>2, <2>3, FollowsNone
  <2>5. Follows(StoreHistorical, w, Lasting(ToSet(document.events)) \cup {now}, Ids(document.hist),
                (document.state \ {Temp}) \cup {now}, retired')
    BY <1>3, <2>4
  <2> QED BY <1>1, <1>2, <1>4, <2>1, <2>2, <2>5, ConfKept DEF CopyOf
<1>10. RedisLog'
  <2>1. Genuine(ToSet(document'.events), owned') /\ Rising(document'.events)
    BY <1>0, <1>1, <1>5 DEF RedisLog, RedisInv
  <2>2. \A u \in Turns : Rising(held'[u].events)
    BY <1>0, <1>2, <1>4 DEF RedisLog
  <2>3. ASSUME NEW u \in Turns PROVE Unwritten(u)'
    <3>1. CASE u = t
      <4>1. now \notin written
        BY <1>0 DEF TurnsPast
      <4> QED BY <1>1, <1>2, <3>1, <4>1 DEF Unwritten
    <3>2. CASE u # t
      BY <1>0, <1>1, <1>2, <3>2 DEF RedisLog, Unwritten
    <3> QED BY <3>1, <3>2
  <2>4. \A u \in Turns : pc'[u] = "appending" => fetched'[u] = document'.state
    BY <1>0, <1>1, <1>2 DEF RedisLog
  <2> QED BY <1>9, <2>1, <2>2, <2>3, <2>4 DEF RedisLog
<1>11. LogStep(document, document')
  BY <1>0, <1>1, <1>2, LogStays DEF RedisLog
<1> QED BY <1>6, <1>7, <1>8, <1>10, <1>11

LEMMA FetchLog ==
  ASSUME RedisKept, NEW t \in Turns, FetchDocument(t)
  PROVE Alone' /\ Summing' /\ Originals' /\ RedisLog' /\ LogStep(document, document')
<1>0. /\ TurnsOK /\ RedisInv /\ Alone /\ Originals /\ RedisLog /\ Summing
      /\ fetched \in [Turns -> SUBSET (0 .. now)]
  BY DEF RedisKept, RedisInv
<1>1. /\ conf' = conf /\ held' = held /\ owned' = owned /\ written' = written /\ retired' = retired
      /\ document' = document /\ pc[t] = "reading" /\ Active(t)
      /\ fetched' = [fetched EXCEPT ![t] = document.state]
      /\ pc' = [pc EXCEPT ![t] = "appending"]
  BY DEF FetchDocument, Active
<1>2. /\ pc'[t] = "appending" /\ fetched'[t] = document'.state
      /\ \A u \in Turns \ {t} : pc'[u] = pc[u] /\ fetched'[u] = fetched[u]
  BY <1>0, <1>1 DEF TurnsOK
<1>3. Alone'
  BY <1>0, <1>1, <1>2, AloneKept
<1>4. Summing'
  BY <1>0, <1>1, <1>2, ConfKept DEF Summing
<1>5. Originals'
  BY <1>0, <1>1 DEF Originals
<1>6. \A u \in Turns : Flying(u)' = Flying(u) /\ (Active(u)' => Active(u)) /\ (Unwritten(u) => Unwritten(u)')
  BY <1>1, <1>2 DEF Flying, Active, Unwritten
<1>7. \A u \in Turns : Active(u)' => CopyOf(u, document)'
  BY <1>0, <1>1, <1>6, ConfKept DEF RedisLog, CopyOf
<1>8. RedisLog'
  BY <1>0, <1>1, <1>2, <1>6, <1>7 DEF RedisLog
<1>9. LogStep(document, document')
  BY <1>0, <1>1, LogStays DEF RedisLog
<1> QED BY <1>3, <1>4, <1>5, <1>8, <1>9

LEMMA StoreLog ==
  ASSUME RedisKept, NEW t \in Turns, StoreDocument(t)
  PROVE Alone' /\ Summing' /\ Originals' /\ RedisLog' /\ LogStep(document, document')
<1> DEFINE n == RedisCurrent(t)
           x == [held[t] EXCEPT !.state = fetched[t] \cup {n}]
<1>0. /\ TurnsOK /\ TurnsPast /\ RedisInv /\ Promised /\ Alone /\ Originals /\ RedisLog
      /\ conf \in Configs /\ conf.service = "redis" /\ Summing /\ Single
      /\ held[t] \in Sessions /\ StoreHistorical \in BOOLEAN
  BY PromisedFacts, TurnTypes, ServiceConfTypes DEF RedisKept, TurnsOK, RedisInv
<1>1. /\ conf' = conf /\ held' = held /\ owned' = owned /\ retired' = retired /\ fetched' = fetched
      /\ written' = written \cup {n} /\ document' = Stripped(x)
      /\ pc[t] = "appending" /\ Active(t) /\ pc' = [pc EXCEPT ![t] = "open"]
  BY DEF StoreDocument, Active
<1>2. pc'[t] = "open" /\ \A u \in Turns \ {t} : pc'[u] = pc[u]
  BY <1>0, <1>1 DEF TurnsOK
<1>3. /\ document'.events = held[t].events /\ (StoreHistorical => document'.hist = held[t].hist)
      /\ document'.state = fetched[t] \cup {n}
  <2>1. held[t] = [events |-> held[t].events, hist |-> held[t].hist, state |-> held[t].state]
    BY <1>0, SessionFields
  <2> DEFINE y == fetched[t] \cup {n}
  <2>2. x = [held[t] EXCEPT !.state = y]
    OBVIOUS
  <2> HIDE DEF x, y
  <2>3. x = [events |-> held[t].events, hist |-> held[t].hist, state |-> y]
    BY <2>1, <2>2
  <2> QED BY <1>0, <1>1, <2>3 DEF Stripped, y
<1>4. n = Max(owned[t]) /\ n # Temp /\ n \notin written /\ Flying(t) = {n} /\ fetched[t] = document.state
  <2>1. Max(owned[t]) \in 1 .. now
    BY <1>0, <1>1, CurrentFacts DEF TurnsPast
  <2> QED BY <1>0, <1>1, <2>1 DEF RedisCurrent, Temp, RedisLog, Unwritten, Flying
<1> HIDE DEF n, x
<1>5. document'.state \ {Temp} = (document.state \ {Temp}) \cup {n}
  BY <1>3, <1>4
<1>6. Follows(StoreHistorical, held[t], Lasting(ToSet(document.events)) \cup {n}, Ids(document.hist),
              (document.state \ {Temp}) \cup {n}, retired)
  BY <1>0, <1>1, <1>4 DEF RedisLog, CopyOf
<1>7. held[t].state \ {Temp} = document'.state \ {Temp}
  BY <1>5, <1>6 DEF Follows
<1>8. /\ Follows(StoreHistorical, document', Lasting(ToSet(document.events)) \cup {n}, Ids(document.hist),
                 (document.state \ {Temp}) \cup {n}, retired)
      /\ Follows(StoreHistorical, held[t], Lasting(ToSet(document'.events)), Ids(document'.hist),
                 document'.state \ {Temp}, retired)
  <2>1. /\ ToSet(document'.events) = ToSet(held[t].events)
        /\ StoreHistorical => document'.hist = held[t].hist
        /\ document'.state \ {Temp} = held[t].state \ {Temp}
    BY <1>3, <1>7
  <2>2. Follows(StoreHistorical, document', Lasting(ToSet(document.events)) \cup {n}, Ids(document.hist),
                (document.state \ {Temp}) \cup {n}, retired)
    BY <1>6, <2>1, FollowsSaved
  <2>3. Follows(StoreHistorical, held[t], Lasting(ToSet(document'.events)), Ids(document'.hist),
                document'.state \ {Temp}, retired)
    <3> DEFINE L == Lasting(ToSet(document.events)) \cup {n}
               D == (document.state \ {Temp}) \cup {n}
    <3>1. Follows(StoreHistorical, held[t], L, Ids(document.hist), D, retired)
      BY <1>6
    <3> HIDE DEF L, D
    <3> QED BY <2>1, <3>1, FollowsSaved
  <2> QED BY <2>2, <2>3
<1>9. Rising(document'.events) /\ Genuine(ToSet(document'.events), owned')
  BY <1>0, <1>1, <1>3 DEF RedisLog, Originals
<1>10. LogStep(document, document')
  BY <1>1, <1>4, <1>8, <1>9 DEF LogStep
<1>11. Alone'
  BY <1>0, <1>1, <1>2, AloneKept
<1>12. Summing'
  BY <1>0, <1>1, <1>2, ConfKept DEF Summing
<1>13. Originals'
  BY <1>0, <1>1 DEF Originals
<1>14. \A u \in Turns \ {t} : ~Active(u)'
  BY <1>0, <1>1, <1>2, AloneNow
<1>15. CopyOf(t, document)'
  <2>1. Flying(t)' = {}
    BY <1>2 DEF Flying
  <2> QED BY <1>1, <1>8, <2>1, CopyAtRest DEF CopyOf
<1>16. RedisLog'
  <2>1. \A u \in Turns : Rising(held'[u].events)
    BY <1>0, <1>1 DEF RedisLog
  <2>2. \A u \in Turns : pc'[u] \notin {"reading", "appending"}
    BY <1>2, <1>14 DEF Active
  <2> QED BY <1>9, <1>14, <1>15, <2>1, <2>2 DEF RedisLog, Unwritten
<1> QED BY <1>10, <1>11, <1>12, <1>13, <1>16

\* A summary or a save replaces the document by the turn's session.
LEMMA RedisSaveLog ==
  ASSUME RedisKept, NEW t \in Turns, Active(t), NEW s, NEW S, s \in S,
         \A x \in S : DOMAIN x = {"events", "hist", "state"},
         document' = Stripped(s), fetched' = fetched, held'[t] = s,
         \A u \in Turns \ {t} : held'[u] = held[u] /\ pc'[u] = pc[u],
         pc'[t] \in {"open", "done"},
         conf' = conf, owned' = owned, written' = written, retired \subseteq retired',
         Genuine(ToSet(s.events), owned'), Rising(s.events),
         Follows(StoreHistorical, s, Lasting(ToSet(document.events)), Ids(document.hist),
                 document.state \ {Temp}, retired')
  PROVE Alone' /\ Summing' /\ Originals' /\ RedisLog' /\ LogStep(document, document')
<1>0. /\ TurnsOK /\ TurnsPast /\ RedisInv /\ Promised /\ Alone /\ Originals /\ RedisLog
      /\ conf \in Configs /\ conf.service = "redis" /\ Summing /\ Single
  BY PromisedFacts DEF RedisKept, TurnsOK
<1>1. /\ document'.events = s.events /\ (StoreHistorical => document'.hist = s.hist)
      /\ document'.state = s.state
  BY <1>0, StrippedFacts
<1>2. /\ LogStep(document, document')
      /\ Follows(StoreHistorical, s, Lasting(ToSet(document'.events)), Ids(document'.hist),
                 document'.state \ {Temp}, retired')
  <2>1. /\ Rising(document'.events) /\ ToSet(document'.events) = ToSet(s.events)
        /\ document'.state \ {Temp} = s.state \ {Temp}
    BY <1>1
  <2> QED BY <1>1, <2>1, LogSaved
<1>3. Alone'
  BY <1>0, AloneKept
<1>4. Summing'
  BY <1>0, ConfKept DEF Summing
<1>5. Originals'
  BY <1>0 DEF Originals
<1>6. \A u \in Turns \ {t} : ~Active(u)'
  BY <1>0, AloneNow
<1>7. CopyOf(t, document)'
  <2>1. Flying(t)' = {}
    BY DEF Flying
  <2> QED BY <1>2, <2>1, CopyAtRest DEF CopyOf
<1>8. RedisLog'
  <2>1. \A u \in Turns : Rising(held'[u].events)
    BY <1>0 DEF RedisLog
  <2>2. \A u \in Turns : pc'[u] \notin {"reading", "appending"}
    BY <1>6 DEF Active
  <2> QED BY <1>1, <1>6, <1>7, <2>1, <2>2 DEF RedisLog, Unwritten
<1> QED BY <1>2, <1>3, <1>4, <1>5, <1>8

LEMMA RedisRewriteLog ==
  ASSUME RedisKept, NEW t \in Turns,
         RedisCompactMidTurn(t) \/ RedisFinishSummary(t) \/ RedisSaveUnchanged(t)
  PROVE Alone' /\ Summing' /\ Originals' /\ RedisLog' /\ LogStep(document, document')
<1>0. /\ TurnsOK /\ TurnsPast /\ Originals /\ RedisLog /\ held[t] \in Sessions
      /\ \A x \in Sessions : DOMAIN x = {"events", "hist", "state"}
      /\ \A x \in Sessions' : DOMAIN x = {"events", "hist", "state"}
  BY TurnTypes DEF RedisKept, Sessions
<1>1. ASSUME pc[t] \in {"open", "summing"}
      PROVE /\ Active(t)
            /\ Follows(StoreHistorical, held[t], Lasting(ToSet(document.events)), Ids(document.hist),
                       document.state \ {Temp}, retired)
  <2>1. Active(t) /\ Flying(t) = {}
    BY <1>1 DEF Active, Flying
  <2>2. Follows(StoreHistorical, held[t], Lasting(ToSet(document.events)) \cup Flying(t), Ids(document.hist),
                (document.state \ {Temp}) \cup Flying(t), retired)
    BY <1>0, <2>1 DEF RedisLog, CopyOf
  <2> QED BY <2>1, <2>2, FollowsNone
<1>2. CASE RedisCompactMidTurn(t) \/ RedisFinishSummary(t)
  <2>1. PICK s : Rewrites(t, s) /\ document' = Stripped(s) /\ fetched' = fetched
    BY <1>2 DEF RedisCompactMidTurn, RedisFinishSummary, Rewrites, RedisUpdateSession
  <2>2. /\ conf' = conf /\ s \in Sessions' /\ held'[t] = s /\ \A u \in Turns \ {t} : held'[u] = held[u]
        /\ owned' = owned /\ written' = written /\ retired \subseteq retired'
        /\ \A u \in Turns \ {t} : pc'[u] = pc[u]
        /\ pc[t] \in {"open", "summing"} /\ pc'[t] \in {"open", "done"}
    BY <1>0, <2>1, RewriteFacts
  <2>3. /\ Genuine(ToSet(s.events), owned') /\ (Rising(held[t].events) => Rising(s.events))
        /\ \A L, A, D : Follows(StoreHistorical, held[t], L, A, D, retired)
                          => Follows(StoreHistorical, s, L, A, D, retired')
    BY <1>0, <2>1, RewrittenLog
  <2>4. Active(t) /\ Rising(s.events)
        /\ Follows(StoreHistorical, s, Lasting(ToSet(document.events)), Ids(document.hist),
                   document.state \ {Temp}, retired')
    BY <1>0, <1>1, <2>2, <2>3 DEF RedisLog
  <2> QED BY <1>0, <2>1, <2>2, <2>3, <2>4, RedisSaveLog
<1>3. CASE RedisSaveUnchanged(t)
  <2>1. /\ conf' = conf /\ held' = held /\ owned' = owned /\ written' = written /\ retired' = retired
        /\ document' = Stripped(held[t]) /\ fetched' = fetched
        /\ pc[t] \in {"open", "summing"} /\ pc' = [pc EXCEPT ![t] = "done"]
    BY <1>3 DEF RedisSaveUnchanged, RedisUpdateSession
  <2>2. pc'[t] = "done" /\ \A u \in Turns \ {t} : held'[u] = held[u] /\ pc'[u] = pc[u]
    BY <1>0, <2>1 DEF TurnsOK
  <2>3. Genuine(ToSet(held[t].events), owned') /\ Rising(held[t].events) /\ retired \subseteq retired'
    BY <1>0, <2>1 DEF RedisLog, Originals
  <2>4. Active(t)
        /\ Follows(StoreHistorical, held[t], Lasting(ToSet(document.events)), Ids(document.hist),
                   document.state \ {Temp}, retired')
    BY <1>1, <2>1
  <2> DEFINE s == held[t]
  <2>5. /\ s \in Sessions /\ document' = Stripped(s) /\ held'[t] = s
        /\ Genuine(ToSet(s.events), owned') /\ Rising(s.events)
        /\ Follows(StoreHistorical, s, Lasting(ToSet(document.events)), Ids(document.hist),
                   document.state \ {Temp}, retired')
    BY <1>0, <2>1, <2>3, <2>4
  <2> HIDE DEF s
  <2> QED BY <1>0, <2>1, <2>2, <2>3, <2>4, <2>5, RedisSaveLog
<1> QED BY <1>2, <1>3

LEMMA RedisPhaseLog ==
  ASSUME RedisKept, NEW t \in Turns, StartSummary(t) \/ EndTurn(t), UNCHANGED redisVars
  PROVE Alone' /\ Summing' /\ Originals' /\ RedisLog' /\ LogStep(document, document')
<1>0. /\ TurnsOK /\ Alone /\ Originals /\ RedisLog /\ Summing
  BY DEF RedisKept
<1>1. /\ conf' = conf /\ held' = held /\ owned' = owned /\ written' = written /\ retired' = retired
      /\ document' = document /\ fetched' = fetched /\ pc[t] = "open" /\ Active(t)
      /\ \/ pc' = [pc EXCEPT ![t] = "done"]
         \/ pc' = [pc EXCEPT ![t] = "summing"] /\ "summary" \in Saves
  BY DEF StartSummary, EndTurn, redisVars, Active
<1>2. /\ \A u \in Turns \ {t} : pc'[u] = pc[u]
      /\ pc'[t] = "done" \/ (pc'[t] = "summing" /\ "summary" \in Saves)
  BY <1>0, <1>1 DEF TurnsOK
<1>3. Alone'
  BY <1>0, <1>1, <1>2, AloneKept
<1>4. Summing'
  BY <1>0, <1>1, <1>2, ConfKept DEF Summing
<1>5. Originals'
  BY <1>0, <1>1 DEF Originals
<1>6. \A u \in Turns : Flying(u)' = Flying(u) /\ (Active(u)' => Active(u)) /\ (Unwritten(u) => Unwritten(u)')
  BY <1>1, <1>2 DEF Flying, Active, Unwritten
<1>7. \A u \in Turns : Active(u)' => CopyOf(u, document)'
  BY <1>0, <1>1, <1>6, ConfKept DEF RedisLog, CopyOf
<1>8. RedisLog'
  BY <1>0, <1>1, <1>2, <1>6, <1>7 DEF RedisLog
<1>9. LogStep(document, document')
  BY <1>0, <1>1, LogStays DEF RedisLog
<1> QED BY <1>3, <1>4, <1>5, <1>8, <1>9

LEMMA RedisLogStep ==
  ASSUME RedisKept, RedisNext
  PROVE Alone' /\ Summing' /\ Originals' /\ RedisLog' /\ LogStep(document, document')
<1>1. PICK t \in Turns :
        \/ RedisGetSession(t) \/ RedisCompactMidTurn(t) \/ RedisFinishSummary(t)
        \/ RedisAppendToCopy(t) \/ FetchDocument(t) \/ StoreDocument(t) \/ RedisSaveUnchanged(t)
        \/ StartSummary(t) /\ UNCHANGED redisVars
        \/ EndTurn(t) /\ UNCHANGED redisVars
  BY DEF RedisNext
<1> QED BY <1>1, RedisGetLog, RedisAppendLog, FetchLog, StoreLog, RedisRewriteLog, RedisPhaseLog

-----------------------------------------------------------------------------
(* The SQL service and the log *)

\* What an append of t has dropped from the window is retired, and archived in
\* its copy.
Archives(t) ==
    IF pc[t] = "appending" THEN
        /\ dropped[t] \subseteq retired /\ (MaxEvents = 0 => dropped[t] = {})
        /\ Lasting(ToSet(held[t].events)) \cap dropped[t] = {}
        /\ StoreHistorical => dropped[t] \subseteq Ids(held[t].hist)
    ELSE dropped[t] = {}

\* Nobody but the turn commits anything.
Private == Single /\ ~conf.peeks

SqlLog ==
    /\ Genuine(rows, owned)
    /\ \A t \in Turns : Unwritten(t) /\ Archives(t)
    /\ Private => touched = {}
    /\ Private /\ StoreHistorical =>
          \A t \in Turns : Active(t) => Ids(hist) \subseteq Ids(held[t].hist)
    /\ Saves # {} => \A t \in Turns : Active(t) => CopyOf(t, SqlStored)

SqlKept ==
    /\ TurnsOK /\ TurnsPast /\ SqlTypes /\ SqlApart /\ conf.service = "sql" /\ Promised
    /\ Alone /\ Summing /\ Originals /\ SqlLog

LEMMA SqlStoredNow ==
  ASSUME SqlTypes, SqlApart, Genuine(rows, owned)
  PROVE /\ SqlStored.hist = hist /\ SqlStored.state = state /\ ToSet(SqlStored.events) = rows
        /\ Rising(SqlStored.events) /\ SqlStored.events = InTimeOrder(rows)
<1>1. \A e \in EventSet : e.at \in Nat
  BY DEF EventSet
<1>2. Rising(InTimeOrder(rows)) /\ ToSet(InTimeOrder(rows)) = rows
  BY <1>1, RisingRows DEF SqlTypes, SqlApart
<1> QED BY <1>2 DEF SqlStored

LEMMA SqlStoredNext ==
  ASSUME SqlTypes', SqlApart', Genuine(rows', owned')
  PROVE /\ SqlStored'.hist = hist' /\ SqlStored'.state = state' /\ ToSet(SqlStored'.events) = rows'
        /\ Rising(SqlStored'.events)
<1>1. \A e \in EventSet' : e.at \in Nat
  BY DEF EventSet
<1>2. rows' \subseteq EventSet' /\ IsFiniteSet(rows') /\ OneAtATime(rows')
  BY DEF SqlTypes, SqlApart
<1>3. Rising(InTimeOrder(rows')) /\ ToSet(InTimeOrder(rows')) = rows'
  BY <1>1, <1>2, RisingRows
<1>4. SqlStored' = [events |-> InTimeOrder(rows'), hist |-> hist', state |-> state']
  BY DEF SqlStored
<1> QED BY <1>3, <1>4

\* A commit by the only turn marks no other.
LEMMA PrivateTouch ==
  ASSUME SqlKept, NEW t \in Turns, MayBegin(t) \/ Active(t), \A u \in Turns \ {t} : pc'[u] = pc[u],
         Touch(t), conf' = conf
  PROVE Private' => touched' = {}
<1> SUFFICES ASSUME Private' PROVE touched' = {}
  OBVIOUS
<1>1. Private
  BY DEF Private, Single, Overlap, Deferred
<1>2. \A u \in Turns \ {t} : ~Active(u)
  BY <1>1, AloneNow DEF SqlKept, Private
<1>3. touched = {}
  BY <1>1 DEF SqlKept, SqlLog
<1> QED BY <1>2, <1>3 DEF Touch, Active

LEMMA PrivateFacts ==
  ASSUME SqlKept
  PROVE /\ Saves # {} => Single /\ NumRecent = 0 /\ Private
        /\ ~Private => Saves = {} /\ (MaxEvents = 0 \/ ~StoreHistorical)
BY PromisedFacts DEF SqlKept, TurnsOK, Private

LEMMA SqlGetLog ==
  ASSUME SqlKept, SqlTypes', SqlApart', NEW t \in Turns, SqlGetSession(t)
  PROVE Alone' /\ Summing' /\ Originals' /\ SqlLog' /\ LogStep(SqlStored, SqlStored')
<1> DEFINE q == SqlStored.events
           g == Retained(MostRecent(q, NumRecent), 0, NumRecent)
           v == [SqlStored EXCEPT !.events = g]
<1>0. /\ TurnsOK /\ TurnsPast /\ SqlTypes /\ SqlApart /\ Promised /\ Alone /\ Originals /\ SqlLog
      /\ conf \in Configs /\ conf.service = "sql" /\ Summing /\ NumRecent \in Nat /\ now \in Nat
  BY ServiceConfTypes DEF SqlKept, TurnsOK
<1>1. /\ Hold(t, v) /\ Touch(t) /\ MayBegin(t) /\ pc[t] = "idle"
      /\ rows' = rows /\ hist' = hist /\ state' = state /\ dropped' = dropped
  BY DEF SqlGetSession, dataVars, Hold, MayBegin
<1>2. /\ ToSet(q) = rows /\ q \in Seq(EventSet)
      /\ SqlStored = [events |-> q, hist |-> hist, state |-> state]
      /\ Rising(q)
  <2>1. SqlStored \in Sessions /\ ToSet(q) = rows
        /\ SqlStored = [events |-> q, hist |-> hist, state |-> state]
    BY <1>0, SqlStoredFacts DEF SqlApart
  <2>2. Rising(q)
    BY <1>0, SqlStoredNow DEF SqlLog
  <2> QED BY <2>1, <2>2, SessionFields
<1> HIDE DEF q
<1>3. g \in Seq(EventSet) /\ Sublist(g, q) /\ (NumRecent = 0 => g = q)
  BY <1>0, <1>2, RecentView
<1> HIDE DEF g
<1>4. v = [events |-> g, hist |-> hist, state |-> state]
  BY <1>2
<1> HIDE DEF v
<1>5. /\ conf' = conf /\ owned' = owned /\ written' = written /\ retired' = retired
      /\ held' = [held EXCEPT ![t] = v] /\ pc' = [pc EXCEPT ![t] = "open"]
  BY <1>1 DEF Hold
<1>6. /\ held'[t] = v /\ pc'[t] = "open"
      /\ \A u \in Turns \ {t} : held'[u] = held[u] /\ pc'[u] = pc[u]
  BY <1>0, <1>5, Others
<1>7. Alone'
  BY <1>0, <1>1, <1>5, <1>6, AloneKept
<1>8. Summing'
  BY <1>0, <1>5, <1>6, ConfKept DEF Summing
<1>9. Genuine(ToSet(v.events), owned)
  <2>1. ToSet(g) \subseteq ToSet(q)
    BY <1>2, <1>3, SublistElements
  <2>2. Genuine(rows, owned) /\ ToSet(v.events) \subseteq rows
    BY <1>0, <1>2, <1>4, <2>1 DEF SqlLog
  <2> QED BY <2>2, GenuineLess
<1>10. Originals'
  BY <1>0, <1>5, <1>6, <1>9 DEF Originals
<1>11. SqlStored' = SqlStored
  BY <1>1 DEF SqlStored
<1>12. ASSUME Saves # {}, NEW u \in Turns, Active(u)' PROVE CopyOf(u, SqlStored)'
  <2>1. Single /\ NumRecent = 0
    BY <1>12, PrivateFacts
  <2>2. u = t
    BY <1>0, <1>1, <1>6, <1>12, <2>1, AloneNow
  <2>3. v = SqlStored
    BY <1>2, <1>3, <1>4, <2>1
  <2>4. Flying(t)' = {}
    BY <1>6 DEF Flying
  <2>5. Follows(StoreHistorical, v, Lasting(ToSet(v.events)), Ids(v.hist), v.state \ {Temp}, retired')
    BY FollowsSelf
  <2>6. Follows(StoreHistorical, held'[t], Lasting(ToSet(SqlStored'.events)), Ids(SqlStored'.hist),
                SqlStored'.state \ {Temp}, retired')
    BY <1>6, <1>11, <2>3, <2>5
  <2> QED BY <1>5, <2>2, <2>4, <2>6, CopyAtRest DEF CopyOf
<1>13. SqlLog'
  <2>1. Genuine(rows', owned')
    BY <1>0, <1>1, <1>5 DEF SqlLog
  <2>2. \A u \in Turns : Unwritten(u)' /\ Archives(u)'
    <3> SUFFICES ASSUME NEW u \in Turns PROVE Unwritten(u)' /\ Archives(u)'
      OBVIOUS
    <3>1. Unwritten(u) /\ Archives(u)
      BY <1>0 DEF SqlLog
    <3>2. CASE u = t
      BY <1>1, <1>6, <3>1, <3>2 DEF Unwritten, Archives
    <3>3. CASE u # t
      BY <1>1, <1>5, <1>6, <3>1, <3>3, ConfKept DEF Unwritten, Archives
    <3> QED BY <3>2, <3>3
  <2>3. Private' => touched' = {}
    BY <1>1, <1>5, <1>6, PrivateTouch
  <2>4. ASSUME Private', NEW u \in Turns, Active(u)' PROVE Ids(hist') \subseteq Ids(held'[u].hist)
    <3>1. Single
      BY <1>5, <2>4, ConfKept DEF Private
    <3>2. u = t
      BY <1>0, <1>1, <1>6, <2>4, <3>1, AloneNow
    <3> QED BY <1>1, <1>4, <1>6, <3>2
  <2>5. Saves' # {} => \A u \in Turns : Active(u)' => CopyOf(u, SqlStored)'
    BY <1>5, <1>12, ConfKept
  <2> QED BY <2>1, <2>2, <2>3, <2>4, <2>5 DEF SqlLog
<1>14. LogStep(SqlStored, SqlStored')
  <2>1. Rising(SqlStored.events) /\ retired \subseteq retired'
    BY <1>2, <1>5 DEF q
  <2> QED BY <1>5, <1>11, <2>1, LogStays
<1> QED BY <1>7, <1>8, <1>10, <1>13, <1>14
LEMMA SqlAppendLog ==
  ASSUME SqlKept, SqlTypes', SqlApart', NEW t \in Turns, SqlAppendToCopy(t)
  PROVE Alone' /\ Summing' /\ Originals' /\ SqlLog' /\ LogStep(SqlStored, SqlStored')
<1> DEFINE e == NewEvent(t)
           w == WithEvent(held[t], e)
           h == [held EXCEPT ![t] = w]
           all == Append(held[t].events, e)
           out == Dropped(all, Retained(all, 0, MaxEvents))
<1>0. /\ TurnsOK /\ TurnsPast /\ SqlTypes /\ SqlApart /\ Promised /\ Alone /\ Originals /\ SqlLog
      /\ conf \in Configs /\ conf.service = "sql" /\ Summing /\ now \in Nat \ {0}
      /\ held[t] \in Sessions /\ held[t].events \in Seq(EventSet)
  BY TurnTypes DEF SqlKept, TurnsOK
<1>1. /\ Appended(t, "appending", h) /\ rows' = rows /\ hist' = hist /\ state' = state
      /\ written' = written /\ pc[t] = "open" /\ Active(t) /\ touched' = touched \ {t}
      /\ dropped' = [dropped EXCEPT ![t] = Ids(Dropped(all, w.events))]
  BY DEF SqlAppendToCopy, dataVars, MayAppend, Active
<1>2. /\ conf' = conf /\ retired \subseteq retired' /\ now' = now + 1
      /\ owned' = [owned EXCEPT ![t] = owned[t] \cup {now}] /\ Max(owned'[t]) = now
      /\ \A u \in Turns \ {t} : owned'[u] = owned[u] /\ pc'[u] = pc[u]
      /\ pc'[t] = "appending" /\ held' = h /\ Genuine(ToSet(w.events), owned')
      /\ e \in EventSet' /\ e.id = now /\ e.at = now /\ e.kind # "summary" /\ e.id \in 1 .. now'
      /\ owned'[t] = owned[t] \cup {now}
  BY <1>0, <1>1, AppendedLog
<1>3. \A L, A, D : Follows(StoreHistorical, held[t], L, A, D, retired)
         => Follows(StoreHistorical, w, L \cup {now}, A, D \cup {now}, retired')
  BY <1>0, <1>1, AppendedFollows
<1>4. retired' = retired \cup Ids(out)
  BY <1>1 DEF Appended
<1> HIDE DEF e
<1>5. /\ all \in Seq(EventSet') /\ out \in Seq(EventSet')
      /\ w.events = Retained(all, 0, MaxEvents) /\ (MaxEvents = 0 => w.events = all)
      /\ ToSet(all) = ToSet(held[t].events) \cup {e} /\ ToSet(w.events) \subseteq ToSet(all)
      /\ ToSet(out) = ToSet(all) \ ToSet(w.events)
      /\ Ids(held[t].hist) \subseteq Ids(w.hist)
      /\ StoreHistorical => Ids(out) \subseteq Ids(w.hist)
  <2>1. /\ all \in Seq(EventSet') /\ out \in Seq(EventSet')
        /\ w.events = Retained(all, 0, MaxEvents) /\ (MaxEvents = 0 => w.events = all)
    BY <1>0, <1>2, WithEventFacts
  <2>2. /\ ToSet(all) = ToSet(held[t].events) \cup {e} /\ ToSet(w.events) \subseteq ToSet(all)
        /\ ToSet(out) = ToSet(all) \ ToSet(w.events)
    <3> DEFINE s == held[t]
    <3>1. /\ s \in Sessions /\ conf \in Configs /\ now \in Nat \ {0} /\ now' = now + 1
          /\ e \in EventSet' /\ e.id \in 1 .. now'
      BY <1>0, <1>2
    <3> HIDE DEF s
    <3>2. LET b == Append(s.events, e)
              x == WithEvent(s, e)
              c == Dropped(b, Retained(b, 0, MaxEvents))
          IN /\ ToSet(b) = ToSet(s.events) \cup {e} /\ ToSet(x.events) \subseteq ToSet(b)
             /\ ToSet(c) = ToSet(b) \ ToSet(x.events)
      BY <3>1, WithEventFacts
    <3> QED BY <3>2 DEF s
  <2>3. /\ Ids(held[t].hist) \subseteq Ids(w.hist)
        /\ IF StoreHistorical THEN Ids(out) \subseteq Ids(w.hist) ELSE w.hist = held[t].hist
    BY <1>0, <1>2, WithEventFacts
  <2> HIDE DEF w, all, out
  <2> QED BY <2>1, <2>2, <2>3
<1>6. dropped'[t] = Ids(out) /\ \A u \in Turns \ {t} : dropped'[u] = dropped[u]
  <2>1. dropped' = [dropped EXCEPT ![t] = Ids(out)]
    BY <1>1, <1>5
  <2> QED BY <1>0, <2>1 DEF SqlTypes
<1>7. Spread(all)
  <2>1. \A d \in ToSet(held[t].events) : d.at # e.at
    BY <1>0, <1>2 DEF TurnsPast, Past
  <2>2. held[t].events \in Seq(EventSet')
    BY <1>0, <1>2, SessionsGrow
  <2> QED BY <1>0, <1>2, <2>1, <2>2, SpreadAppend DEF SqlApart
<1> HIDE DEF w, all, out
<1>8. held'[t] = w /\ \A u \in Turns \ {t} : held'[u] = held[u]
  BY <1>0, <1>2 DEF TurnsOK
<1>9. \A R : Genuine(R, owned) /\ Past(R) => Genuine(R, owned')
  BY <1>0, <1>2, OriginalsKept
<1>10. Alone'
  BY <1>0, <1>1, <1>2, AloneKept
<1>11. Summing'
  BY <1>0, <1>2, ConfKept DEF Summing
<1>12. Originals'
  <2> SUFFICES ASSUME NEW u \in Turns PROVE Genuine(ToSet(held'[u].events), owned')
    BY DEF Originals
  <2>1. CASE u = t
    BY <1>2, <1>8, <2>1
  <2>2. CASE u # t
    BY <1>0, <1>8, <1>9, <2>2 DEF Originals, TurnsPast
  <2> QED BY <2>1, <2>2
\* No other event has the id of one that the window has dropped.
<1>13. Lasting(ToSet(w.events)) \cap Ids(out) = {}
  <2> SUFFICES ASSUME NEW x \in ToSet(w.events), x.kind # "summary", NEW y \in ToSet(out), x.id = y.id
               PROVE FALSE
    <3>1. Ids(out) = {y.id : y \in ToSet(out)}
      BY <1>5, ToSetFacts
    <3> QED BY <3>1 DEF Lasting
  <2>1. /\ x.at = x.id /\ \E u \in Turns : x.id \in owned'[u]
    BY <1>2 DEF Genuine
  <2>2. Genuine(ToSet(all), owned')
    <3>1. Genuine(ToSet(held[t].events), owned')
      BY <1>0, <1>9 DEF Originals, TurnsPast
    <3>2. e.at = e.id /\ \E u \in Turns : e.id \in owned'[u]
      BY <1>2
    <3>3. \A z \in ToSet(all) : z \in ToSet(held[t].events) \/ z = e
      BY <1>5
    <3> QED BY <1>2, <3>1, <3>2, <3>3, GenuineMore
  <2>3. y \in ToSet(all) /\ x \in ToSet(all) /\ y \notin ToSet(w.events)
    BY <1>5
  <2>4. y.kind # "summary" /\ y.at = y.id
    BY <2>1, <2>2, <2>3 DEF Genuine
  <2>5. OneAtATime(ToSet(all))
    BY <1>5, <1>7, SpreadSet
  <2> QED BY <2>1, <2>3, <2>4, <2>5 DEF OneAtATime
<1>14. SqlStored' = SqlStored
  BY <1>1 DEF SqlStored
<1>15. ASSUME Saves # {}, NEW u \in Turns, Active(u)' PROVE CopyOf(u, SqlStored)'
  <2>0. Single
    BY <1>15, PrivateFacts
  <2>1. u = t
    BY <1>0, <1>1, <1>2, <1>15, <2>0, AloneNow
  <2>2. Flying(t) = {} /\ Flying(t)' = {now}
    BY <1>1, <1>2 DEF Flying
  <2>3. Follows(StoreHistorical, held[t], Lasting(ToSet(SqlStored.events)) \cup Flying(t), Ids(SqlStored.hist),
                (SqlStored.state \ {Temp}) \cup Flying(t), retired)
    BY <1>0, <1>1, <1>15 DEF SqlLog, CopyOf
  <2>4. Follows(StoreHistorical, held[t], Lasting(ToSet(SqlStored.events)), Ids(SqlStored.hist),
                SqlStored.state \ {Temp}, retired)
    BY <2>2, <2>3, FollowsNone
  <2>5. Follows(StoreHistorical, w, Lasting(ToSet(SqlStored.events)) \cup {now}, Ids(SqlStored.hist),
                (SqlStored.state \ {Temp}) \cup {now}, retired')
    BY <1>3, <2>4
  <2> QED BY <1>2, <1>8, <1>14, <2>1, <2>2, <2>5, ConfKept DEF CopyOf
<1>16. SqlLog'
  <2>1. Genuine(rows', owned')
    BY <1>0, <1>1, <1>9 DEF SqlLog, SqlTypes
  <2>2. ASSUME NEW u \in Turns PROVE Unwritten(u)'
    <3>1. CASE u = t
      <4>1. now \notin written
        BY <1>0 DEF TurnsPast
      <4> QED BY <1>1, <1>2, <3>1, <4>1 DEF Unwritten
    <3>2. CASE u # t
      BY <1>0, <1>1, <1>2, <3>2 DEF SqlLog, Unwritten
    <3> QED BY <3>1, <3>2
  <2>3. ASSUME NEW u \in Turns PROVE Archives(u)'
    <3>1. CASE u = t
      <4>1. Ids(out) \subseteq retired'
        BY <1>4
      <4>2. ASSUME MaxEvents = 0 PROVE Ids(out) = {}
        <5>1. ToSet(out) = {}
          BY <1>5, <4>2
        <5>2. Ids(out) = {y.id : y \in ToSet(out)}
          BY <1>5, ToSetFacts
        <5> QED BY <5>1, <5>2
      <4>3. /\ pc'[t] = "appending" /\ dropped'[t] = Ids(out) /\ held'[t] = w
            /\ StoreHistorical' = StoreHistorical /\ MaxEvents' = MaxEvents
        BY <1>2, <1>6, <1>8, ConfKept
      <4> QED BY <1>5, <1>13, <3>1, <4>1, <4>2, <4>3 DEF Archives
    <3>2. CASE u # t
      <4>1. Archives(u)
        BY <1>0 DEF SqlLog
      <4>2. /\ pc'[u] = pc[u] /\ dropped'[u] = dropped[u] /\ held'[u] = held[u]
            /\ StoreHistorical' = StoreHistorical /\ MaxEvents' = MaxEvents
        BY <1>2, <1>6, <1>8, <3>2, ConfKept
      <4> QED BY <1>2, <3>2, <4>1, <4>2 DEF Archives
    <3> QED BY <3>1, <3>2
  <2>4. Private' => touched' = {}
    BY <1>0, <1>1, <1>2, ConfKept DEF SqlLog, Private
  <2>5. ASSUME Private', StoreHistorical', NEW u \in Turns, Active(u)'
        PROVE Ids(hist') \subseteq Ids(held'[u].hist)
    <3>1. Private /\ StoreHistorical /\ Single
      BY <1>2, <2>5, ConfKept DEF Private
    <3>2. u = t
      BY <1>0, <1>1, <1>2, <2>5, <3>1, AloneNow
    <3>3. Ids(hist) \subseteq Ids(held[t].hist)
      BY <1>0, <1>1, <3>1 DEF SqlLog
    <3> QED BY <1>1, <1>5, <1>8, <3>2, <3>3
  <2>6. Saves' # {} => \A u \in Turns : Active(u)' => CopyOf(u, SqlStored)'
    BY <1>2, <1>15, ConfKept
  <2> QED BY <2>1, <2>2, <2>3, <2>4, <2>5, <2>6 DEF SqlLog
<1>17. LogStep(SqlStored, SqlStored')
  <2>1. Rising(SqlStored.events)
    BY <1>0, SqlStoredNow DEF SqlLog
  <2> QED BY <1>1, <1>2, <1>14, <2>1, LogStays
<1> QED BY <1>10, <1>11, <1>12, <1>16, <1>17

\* The rows that the window has not dropped.
LEMMA LastingRows ==
  ASSUME NEW R, NEW e, e.kind # "summary", NEW Q
  PROVE Lasting({r \in R \cup {e} : r.id \notin Q}) = (Lasting(R) \cup {e.id}) \ Q
BY DEF Lasting

\* The event that a turn is appending, and the copy it goes on with.
LEMMA AppendRowFacts ==
  ASSUME SqlKept, NEW t \in Turns, AppendRow(t)
  PROVE /\ UNCHANGED <<conf, now, owned, retired>> /\ Touch(t)
        /\ pc[t] = "appending" /\ Active(t) /\ pc'[t] = "open"
        /\ \A u \in Turns \ {t} : pc'[u] = pc[u] /\ held'[u] = held[u] /\ dropped'[u] = dropped[u]
        /\ dropped'[t] = {} /\ Max(owned[t]) \in owned[t] /\ Max(owned[t]) # Temp
        /\ written' = written \cup {Max(owned[t])} /\ Max(owned[t]) \notin written
        /\ state' = state \cup {Max(owned[t])}
        /\ Lasting(rows') = (Lasting(rows) \cup {Max(owned[t])}) \ dropped[t]
        /\ Genuine(rows', owned') /\ Genuine(ToSet(held'[t].events), owned')
        /\ Private => held'[t] = held[t]
        /\ StoreHistorical /\ dropped[t] # {} /\ Private => hist' = held[t].hist
        /\ dropped[t] = {} => hist' = hist
<1> DEFINE e == SqlCurrent(t)
           n == Max(owned[t])
<1>0. /\ TurnsOK /\ TurnsPast /\ SqlTypes /\ SqlApart /\ Originals /\ SqlLog /\ now \in Nat
  BY DEF SqlKept, TurnsOK
<1>1. /\ pc[t] = "appending" /\ pc' = [pc EXCEPT ![t] = "open"]
      /\ written' = written \cup {e.id} /\ Touch(t) /\ dropped' = [dropped EXCEPT ![t] = {}]
      /\ UNCHANGED <<conf, count, now, owned, retired>>
  BY DEF AppendRow
<1>2. e.id = n /\ e.at = n /\ e.kind # "summary" /\ n \in owned[t] /\ n # Temp /\ n \notin written
  <2>1. owned[t] # {} /\ owned[t] \subseteq 1 .. now - 1
    BY <1>0, <1>1 DEF TurnsPast
  <2>2. n \in owned[t] /\ n \in 1 .. now - 1
    BY <1>0, <2>1, CurrentFacts
  <2>3. n \notin written
    BY <1>0, <1>1 DEF SqlLog, Unwritten
  <2> QED BY <1>0, <2>2, <2>3 DEF SqlCurrent, Temp
<1>3. PICK s \in {SqlStored, held[t]} : \E h :
        /\ Store(t, s, e) /\ held' = [held EXCEPT ![t] = h]
        /\ \/ s = held[t] /\ h = s
           \/ t \in touched /\ s = SqlStored /\ h = [s EXCEPT !.state = @ \cup {e.id}]
  BY <1>0, AppendRowCases
<1> HIDE DEF e, n
<1>4. PICK h :
        /\ Store(t, s, e) /\ held' = [held EXCEPT ![t] = h]
        /\ \/ s = held[t] /\ h = s
           \/ t \in touched /\ s = SqlStored /\ h = [s EXCEPT !.state = @ \cup {e.id}]
  BY <1>3
<1>5. /\ rows' = {r \in rows \cup {e} : r.id \notin dropped[t]}
      /\ hist' = IF dropped[t] # {} /\ StoreHistorical THEN s.hist ELSE hist
      /\ state' = state \cup {e.id}
  BY <1>4 DEF Store
<1>6. /\ held'[t] = h /\ pc'[t] = "open" /\ dropped'[t] = {}
      /\ \A u \in Turns \ {t} : pc'[u] = pc[u] /\ held'[u] = held[u] /\ dropped'[u] = dropped[u]
  BY <1>0, <1>1, <1>4 DEF TurnsOK, SqlTypes
<1>7. Genuine(rows', owned')
  <2>1. \E u \in Turns : e.id \in owned[u]
    BY <1>2
  <2>2. \A x \in rows' : x \in rows \/ x = e
    BY <1>5
  <2> QED BY <1>0, <1>1, <1>2, <2>1, <2>2, GenuineMore DEF SqlLog
<1>8. /\ SqlStored = [events |-> SqlStored.events, hist |-> hist, state |-> state]
      /\ ToSet(SqlStored.events) = rows
  BY <1>0, SqlStoredFacts DEF SqlApart
<1>9. Genuine(ToSet(h.events), owned')
  <2>1. CASE h = held[t]
    BY <1>0, <1>1, <2>1 DEF Originals
  <2>2. CASE s = SqlStored /\ h = [s EXCEPT !.state = @ \cup {e.id}]
    <3>1. h.events = SqlStored.events
      BY <1>8, <2>2
    <3> QED BY <1>0, <1>1, <1>8, <3>1 DEF SqlLog
  <2> QED BY <1>4, <2>1, <2>2
<1>10. Private => s = held[t] /\ h = held[t]
  BY <1>0, <1>4 DEF SqlLog
<1>11. Lasting(rows') = (Lasting(rows) \cup {n}) \ dropped[t]
  BY <1>2, <1>5, LastingRows
<1>12. /\ StoreHistorical /\ dropped[t] # {} /\ Private => hist' = held[t].hist
       /\ dropped[t] = {} => hist' = hist
  BY <1>5, <1>10
<1> QED BY <1>1, <1>2, <1>5, <1>6, <1>7, <1>9, <1>10, <1>11, <1>12 DEF n, Active

LEMMA AppendRowLog ==
  ASSUME SqlKept, SqlTypes', SqlApart', NEW t \in Turns, AppendRow(t)
  PROVE Alone' /\ Summing' /\ Originals' /\ SqlLog' /\ LogStep(SqlStored, SqlStored')
<1> DEFINE n == Max(owned[t])
           L == Lasting(rows)
           K == Lasting(rows')
           D == dropped[t]
<1>0. /\ TurnsOK /\ TurnsPast /\ SqlTypes /\ SqlApart /\ Promised /\ Alone /\ Originals /\ SqlLog
      /\ Summing /\ conf.service = "sql"
  BY DEF SqlKept
<1>1. /\ conf' = conf /\ owned' = owned /\ retired' = retired /\ Touch(t)
      /\ pc[t] = "appending" /\ Active(t) /\ pc'[t] = "open"
      /\ \A u \in Turns \ {t} : pc'[u] = pc[u] /\ held'[u] = held[u] /\ dropped'[u] = dropped[u]
      /\ dropped'[t] = {} /\ n \in owned[t] /\ n # Temp
      /\ written' = written \cup {n} /\ n \notin written /\ state' = state \cup {n}
      /\ K = (L \cup {n}) \ D
      /\ Genuine(rows', owned') /\ Genuine(ToSet(held'[t].events), owned')
      /\ Private => held'[t] = held[t]
      /\ StoreHistorical /\ D # {} /\ Private => hist' = held[t].hist
      /\ D = {} => hist' = hist
  BY AppendRowFacts
<1>2. /\ D \subseteq retired /\ (MaxEvents = 0 => D = {})
      /\ Lasting(ToSet(held[t].events)) \cap D = {}
      /\ StoreHistorical => D \subseteq Ids(held[t].hist)
  BY <1>0, <1>1 DEF SqlLog, Archives
<1>3. /\ SqlStored'.hist = hist' /\ SqlStored'.state = state' /\ ToSet(SqlStored'.events) = rows'
      /\ Rising(SqlStored'.events)
  BY <1>1, SqlStoredNext
<1>4. /\ SqlStored.hist = hist /\ SqlStored.state = state /\ ToSet(SqlStored.events) = rows
  BY <1>0, SqlStoredNow DEF SqlLog
<1> HIDE DEF n, D
<1>5. ASSUME StoreHistorical PROVE D \cup Ids(hist) \subseteq Ids(hist')
  <2>1. CASE D = {}
    BY <1>1, <2>1
  <2>2. CASE D # {}
    <3>1. Private
      BY <1>2, <1>5, <2>2, PrivateFacts
    <3>2. Ids(hist) \subseteq Ids(held[t].hist)
      BY <1>0, <1>1, <1>5, <3>1 DEF SqlLog
    <3> QED BY <1>1, <1>2, <1>5, <2>2, <3>1, <3>2
  <2> QED BY <2>1, <2>2
<1>6. SqlStored'.state \ {Temp} = (SqlStored.state \ {Temp}) \cup {n}
  BY <1>1, <1>3, <1>4
<1>7. LogStep(SqlStored, SqlStored')
  <2>1. Follows(StoreHistorical, SqlStored', L \cup {n}, Ids(hist), (state \ {Temp}) \cup {n}, retired')
    <3>1. (L \cup {n}) \ K \subseteq D
      BY <1>1
    <3>2. StoreHistorical => ((L \cup {n}) \ K) \cup Ids(hist) \subseteq Ids(hist')
      BY <1>5, <3>1
    <3>3. K \subseteq L \cup {n} /\ (L \cup {n}) \ K \subseteq retired'
      BY <1>1, <1>2, <3>1
    <3> QED BY <1>3, <1>4, <1>6, <3>2, <3>3 DEF Follows
  <2> QED BY <1>1, <1>3, <1>4, <2>1 DEF LogStep
<1>8. Alone'
  BY <1>0, <1>1, AloneKept
<1>9. Summing'
  BY <1>0, <1>1, ConfKept DEF Summing
<1>10. Originals'
  BY <1>0, <1>1 DEF Originals
<1>11. ASSUME Saves # {}, NEW u \in Turns, Active(u)' PROVE CopyOf(u, SqlStored)'
  <2>0. Single /\ Private
    BY <1>11, PrivateFacts
  <2>1. u = t /\ held'[t] = held[t]
    BY <1>0, <1>1, <1>11, <2>0, AloneNow
  <2>2. Flying(t) = {n} /\ Flying(t)' = {}
    BY <1>1 DEF Flying, n
  <2>3. Follows(StoreHistorical, held[t], L \cup {n}, Ids(hist), (state \ {Temp}) \cup {n}, retired)
    BY <1>0, <1>1, <1>4, <1>11, <2>2 DEF SqlLog, CopyOf
  <2> DEFINE M == Lasting(ToSet(held[t].events))
  <2>4. /\ M \subseteq L \cup {n} /\ (L \cup {n}) \ M \subseteq retired
        /\ StoreHistorical => ((L \cup {n}) \ M) \cup Ids(hist) \subseteq Ids(held[t].hist)
        /\ held[t].state \ {Temp} = (state \ {Temp}) \cup {n}
    BY <2>3 DEF Follows
  <2>5. M \cap D = {}
    BY <1>2
  <2>6. StoreHistorical => Ids(hist') \subseteq Ids(held[t].hist)
    BY <1>1, <2>0, <2>4
  <2>7. held[t].state \ {Temp} = state' \ {Temp}
    BY <1>3, <1>4, <1>6, <2>4
  <2>8. Follows(StoreHistorical, held[t], K, Ids(hist'), state' \ {Temp}, retired')
    <3> HIDE DEF M, K, L
    <3>1. /\ M \subseteq K /\ K \ M \subseteq retired'
          /\ StoreHistorical => (K \ M) \cup Ids(hist') \subseteq Ids(held[t].hist)
      BY <1>1, <2>4, <2>5, <2>6
    <3> QED BY <2>7, <3>1 DEF Follows, M
  <2>9. Follows(StoreHistorical, held'[t], Lasting(ToSet(SqlStored'.events)), Ids(SqlStored'.hist),
                SqlStored'.state \ {Temp}, retired')
    BY <1>3, <2>1, <2>8
  <2> QED BY <1>1, <2>1, <2>2, <2>9, CopyAtRest DEF CopyOf
<1>12. SqlLog'
  <2>1. ASSUME NEW u \in Turns PROVE Unwritten(u)'
    <3>1. CASE u = t
      BY <1>1, <3>1 DEF Unwritten
    <3>2. CASE u # t
      <4> SUFFICES ASSUME pc[u] \in {"reading", "appending"} PROVE Max(owned[u]) \notin written'
        BY <1>1, <3>2 DEF Unwritten
      <4>1. Max(owned[u]) \notin written
        BY <1>0 DEF SqlLog, Unwritten
      <4>2. Max(owned[u]) \in owned[u]
        BY <1>0, CurrentFacts DEF TurnsPast, TurnsOK
      <4>3. owned[u] \cap owned[t] = {}
        BY <1>0, <3>2 DEF SqlApart
      <4> QED BY <1>1, <4>1, <4>2, <4>3
    <3> QED BY <3>1, <3>2
  <2>2. ASSUME NEW u \in Turns PROVE Archives(u)'
    <3>1. CASE u = t
      BY <1>1, <3>1 DEF Archives
    <3>2. CASE u # t
      <4>1. Archives(u)
        BY <1>0 DEF SqlLog
      <4> QED BY <1>1, <3>2, <4>1, ConfKept DEF Archives
    <3> QED BY <3>1, <3>2
  <2>3. Private' => touched' = {}
    BY <1>1, PrivateTouch
  <2>4. ASSUME Private', StoreHistorical', NEW u \in Turns, Active(u)'
        PROVE Ids(hist') \subseteq Ids(held'[u].hist)
    <3>1. Private /\ StoreHistorical /\ Single
      BY <1>1, <2>4, ConfKept DEF Private
    <3>2. u = t
      BY <1>0, <1>1, <2>4, <3>1, AloneNow
    <3>3. Ids(hist) \subseteq Ids(held[t].hist)
      BY <1>0, <1>1, <3>1 DEF SqlLog
    <3> QED BY <1>1, <3>1, <3>2, <3>3
  <2>5. Saves' # {} => \A u \in Turns : Active(u)' => CopyOf(u, SqlStored)'
    BY <1>1, <1>11, ConfKept
  <2> QED BY <1>1, <2>1, <2>2, <2>3, <2>4, <2>5 DEF SqlLog
<1> QED BY <1>7, <1>8, <1>9, <1>10, <1>12

\* A summary or a save replaces the rows by the events of the turn.
LEMMA SqlSaveLog ==
  ASSUME SqlKept, SqlTypes', SqlApart', NEW t \in Turns, Active(t), NEW s, Saves # {},
         SqlUpdateSession(t, s), held'[t] = s,
         \A u \in Turns \ {t} : held'[u] = held[u] /\ pc'[u] = pc[u],
         pc[t] \in {"open", "summing"}, pc'[t] \in {"open", "done"},
         conf' = conf, owned' = owned, written' = written, retired \subseteq retired',
         Genuine(ToSet(s.events), owned'),
         Follows(StoreHistorical, s, Lasting(ToSet(SqlStored.events)), Ids(SqlStored.hist),
                 SqlStored.state \ {Temp}, retired')
  PROVE Alone' /\ Summing' /\ Originals' /\ SqlLog' /\ LogStep(SqlStored, SqlStored')
<1>0. /\ TurnsOK /\ TurnsPast /\ SqlTypes /\ SqlApart /\ Promised /\ Alone /\ Originals /\ SqlLog
      /\ Summing /\ Single
  BY PrivateFacts DEF SqlKept
<1>1. /\ rows' = ToSet(s.events) /\ hist' = IF StoreHistorical THEN s.hist ELSE <<>>
      /\ state' = s.state /\ Touch(t) /\ dropped' = dropped
  BY DEF SqlUpdateSession
<1>2. /\ SqlStored'.hist = hist' /\ SqlStored'.state = state' /\ ToSet(SqlStored'.events) = rows'
      /\ Rising(SqlStored'.events)
  BY <1>1, SqlStoredNext
<1>3. /\ LogStep(SqlStored, SqlStored')
      /\ Follows(StoreHistorical, s, Lasting(ToSet(SqlStored'.events)), Ids(SqlStored'.hist),
                 SqlStored'.state \ {Temp}, retired')
  <2>1. /\ ToSet(SqlStored'.events) = ToSet(s.events)
        /\ StoreHistorical => SqlStored'.hist = s.hist
        /\ SqlStored'.state \ {Temp} = s.state \ {Temp}
    BY <1>1, <1>2
  <2> QED BY <1>2, <2>1, LogSaved
<1>4. Alone'
  BY <1>0, AloneKept
<1>5. Summing'
  BY <1>0, ConfKept DEF Summing
<1>6. Originals'
  BY <1>0 DEF Originals
<1>7. \A u \in Turns \ {t} : ~Active(u)'
  BY <1>0, AloneNow
<1>8. CopyOf(t, SqlStored)'
  <2>1. Flying(t)' = {}
    BY DEF Flying
  <2> QED BY <1>3, <2>1, CopyAtRest DEF CopyOf
<1>9. SqlLog'
  <2>1. \A u \in Turns : pc'[u] \notin {"reading", "appending"}
    BY <1>7 DEF Active
  <2>2. ASSUME NEW u \in Turns PROVE Archives(u)'
    <3>1. Archives(u)
      BY <1>0 DEF SqlLog
    <3>2. pc[u] # "appending"
      BY <2>1
    <3> QED BY <1>1, <2>1, <3>1, <3>2 DEF Archives
  <2>3. Private' => touched' = {}
    BY <1>1, PrivateTouch
  <2>4. StoreHistorical' => \A u \in Turns : Active(u)' => Ids(hist') \subseteq Ids(held'[u].hist)
    <3>1. StoreHistorical' => hist' = s.hist
      BY <1>1, ConfKept
    <3> QED BY <1>7, <3>1
  <2> QED BY <1>1, <1>7, <1>8, <2>1, <2>2, <2>3, <2>4 DEF SqlLog, Unwritten
<1> QED BY <1>3, <1>4, <1>5, <1>6, <1>9

LEMMA SqlRewriteLog ==
  ASSUME SqlKept, SqlTypes', SqlApart', NEW t \in Turns,
         SqlCompactMidTurn(t) \/ SqlFinishSummary(t) \/ SqlSaveUnchanged(t)
  PROVE Alone' /\ Summing' /\ Originals' /\ SqlLog' /\ LogStep(SqlStored, SqlStored')
<1>0. /\ TurnsOK /\ TurnsPast /\ Originals /\ SqlLog /\ Summing
  BY DEF SqlKept
<1>1. pc[t] \in {"open", "summing"} /\ Saves # {}
  BY <1>0 DEF SqlCompactMidTurn, SqlFinishSummary, SqlSaveUnchanged, MayCompact, Summing
<1>2. /\ Active(t)
      /\ Follows(StoreHistorical, held[t], Lasting(ToSet(SqlStored.events)), Ids(SqlStored.hist),
                 SqlStored.state \ {Temp}, retired)
  <2>1. Active(t) /\ Flying(t) = {}
    BY <1>1 DEF Active, Flying
  <2>2. Follows(StoreHistorical, held[t], Lasting(ToSet(SqlStored.events)) \cup Flying(t), Ids(SqlStored.hist),
                (SqlStored.state \ {Temp}) \cup Flying(t), retired)
    BY <1>0, <1>1, <2>1 DEF SqlLog, CopyOf
  <2> QED BY <2>1, <2>2, FollowsNone
<1>3. CASE SqlCompactMidTurn(t) \/ SqlFinishSummary(t)
  <2>1. PICK s : Rewrites(t, s) /\ SqlUpdateSession(t, s)
    BY <1>3 DEF SqlCompactMidTurn, SqlFinishSummary, Rewrites
  <2>2. /\ conf' = conf /\ held'[t] = s /\ \A u \in Turns \ {t} : held'[u] = held[u]
        /\ owned' = owned /\ written' = written /\ retired \subseteq retired'
        /\ \A u \in Turns \ {t} : pc'[u] = pc[u]
        /\ pc'[t] \in {"open", "done"}
    BY <1>0, <2>1, RewriteFacts
  <2>3. /\ Genuine(ToSet(s.events), owned')
        /\ \A L, A, D : Follows(StoreHistorical, held[t], L, A, D, retired)
                          => Follows(StoreHistorical, s, L, A, D, retired')
    BY <1>0, <2>1, RewrittenLog
  <2>4. Follows(StoreHistorical, s, Lasting(ToSet(SqlStored.events)), Ids(SqlStored.hist),
                SqlStored.state \ {Temp}, retired')
    BY <1>2, <2>3
  <2> QED BY <1>1, <1>2, <2>1, <2>2, <2>3, <2>4, SqlSaveLog
<1>4. CASE SqlSaveUnchanged(t)
  <2>1. /\ conf' = conf /\ held' = held /\ owned' = owned /\ written' = written /\ retired' = retired
        /\ SqlUpdateSession(t, held[t]) /\ pc' = [pc EXCEPT ![t] = "done"]
    BY <1>4 DEF SqlSaveUnchanged
  <2>2. pc'[t] = "done" /\ \A u \in Turns \ {t} : held'[u] = held[u] /\ pc'[u] = pc[u]
    BY <1>0, <2>1 DEF TurnsOK
  <2> DEFINE s == held[t]
  <2>3. /\ SqlUpdateSession(t, s) /\ held'[t] = s /\ Genuine(ToSet(s.events), owned')
        /\ Follows(StoreHistorical, s, Lasting(ToSet(SqlStored.events)), Ids(SqlStored.hist),
                   SqlStored.state \ {Temp}, retired')
    BY <1>0, <1>2, <2>1 DEF Originals
  <2> HIDE DEF s
  <2> QED BY <1>1, <1>2, <2>1, <2>2, <2>3, SqlSaveLog
<1> QED BY <1>3, <1>4

LEMMA SqlPhaseLog ==
  ASSUME SqlKept, NEW t \in Turns, StartSummary(t) \/ EndTurn(t),
         UNCHANGED <<dataVars, touched, dropped>>
  PROVE Alone' /\ Summing' /\ Originals' /\ SqlLog' /\ LogStep(SqlStored, SqlStored')
<1>0. /\ TurnsOK /\ Alone /\ Originals /\ SqlLog /\ Summing /\ SqlTypes /\ SqlApart
  BY DEF SqlKept
<1>1. /\ conf' = conf /\ held' = held /\ owned' = owned /\ written' = written /\ retired' = retired
      /\ rows' = rows /\ hist' = hist /\ state' = state /\ touched' = touched /\ dropped' = dropped
      /\ pc[t] = "open" /\ Active(t)
      /\ \/ pc' = [pc EXCEPT ![t] = "done"]
         \/ pc' = [pc EXCEPT ![t] = "summing"] /\ "summary" \in Saves
  BY DEF StartSummary, EndTurn, dataVars, Active
<1>2. /\ \A u \in Turns \ {t} : pc'[u] = pc[u]
      /\ pc'[t] = "done" \/ (pc'[t] = "summing" /\ "summary" \in Saves)
  BY <1>0, <1>1 DEF TurnsOK
<1>3. Alone'
  BY <1>0, <1>1, <1>2, AloneKept
<1>4. Summing'
  BY <1>0, <1>1, <1>2, ConfKept DEF Summing
<1>5. Originals'
  BY <1>0, <1>1 DEF Originals
<1>6. SqlStored' = SqlStored
  BY <1>1 DEF SqlStored
<1>7. \A u \in Turns :
        /\ Flying(u)' = Flying(u) /\ (Active(u)' => Active(u)) /\ (Unwritten(u) => Unwritten(u)')
  BY <1>1, <1>2 DEF Flying, Active, Unwritten
<1>8. \A u \in Turns : Archives(u) => Archives(u)'
  BY <1>1, <1>2, ConfKept DEF Archives
<1>9. Saves' # {} => \A u \in Turns : Active(u)' => CopyOf(u, SqlStored)'
  BY <1>0, <1>1, <1>6, <1>7, ConfKept DEF SqlLog, CopyOf
<1>10. Private' /\ StoreHistorical' => Private /\ StoreHistorical
  BY <1>1, ConfKept DEF Private
<1>11. Private' => Private
  BY <1>1, ConfKept DEF Private
<1>12. SqlLog'
  BY <1>0, <1>1, <1>7, <1>8, <1>9, <1>10, <1>11 DEF SqlLog
<1>13. LogStep(SqlStored, SqlStored')
  <2>1. Rising(SqlStored.events)
    BY <1>0, SqlStoredNow DEF SqlLog
  <2> QED BY <1>1, <1>6, <2>1, LogStays
<1> QED BY <1>3, <1>4, <1>5, <1>12, <1>13

LEMMA PeekLog ==
  ASSUME SqlKept, Peek
  PROVE Alone' /\ Summing' /\ Originals' /\ SqlLog' /\ LogStep(SqlStored, SqlStored')
<1>0. /\ Alone /\ Originals /\ SqlLog /\ Summing /\ SqlTypes /\ SqlApart
  BY DEF SqlKept
<1>1. /\ conf' = conf /\ held' = held /\ owned' = owned /\ written' = written /\ retired' = retired
      /\ pc' = pc /\ rows' = rows /\ hist' = hist /\ state' = state /\ dropped' = dropped
      /\ conf.peeks
  BY DEF Peek, turnVars, dataVars
<1>2. ~Private' /\ Saves' = {}
  <2>1. ~Private
    BY <1>1 DEF Private
  <2> QED BY <1>1, <2>1, PrivateFacts, ConfKept DEF Private
<1>3. SqlStored' = SqlStored
  BY <1>1 DEF SqlStored
<1>4. Alone' /\ Summing' /\ Originals'
  BY <1>0, <1>1, ConfKept DEF Alone, Active, Summing, Originals
<1>5. SqlLog'
  BY <1>0, <1>1, <1>2, ConfKept DEF SqlLog, Unwritten, Archives
<1>6. LogStep(SqlStored, SqlStored')
  <2>1. Rising(SqlStored.events)
    BY <1>0, SqlStoredNow DEF SqlLog
  <2> QED BY <1>1, <1>3, <2>1, LogStays
<1> QED BY <1>4, <1>5, <1>6

LEMMA SqlLogStep ==
  ASSUME SqlKept, SqlTypes', SqlApart', SqlNext
  PROVE Alone' /\ Summing' /\ Originals' /\ SqlLog' /\ LogStep(SqlStored, SqlStored')
<1>1. CASE Peek
  BY <1>1, PeekLog
<1>2. ASSUME NEW t \in Turns,
             \/ SqlGetSession(t) \/ SqlAppendToCopy(t) \/ AppendRow(t)
             \/ SqlCompactMidTurn(t) \/ SqlFinishSummary(t) \/ SqlSaveUnchanged(t)
             \/ StartSummary(t) /\ UNCHANGED <<dataVars, touched, dropped>>
             \/ EndTurn(t) /\ UNCHANGED <<dataVars, touched, dropped>>
      PROVE Alone' /\ Summing' /\ Originals' /\ SqlLog' /\ LogStep(SqlStored, SqlStored')
  BY <1>2, SqlGetLog, SqlAppendLog, AppendRowLog, SqlRewriteLog, SqlPhaseLog
<1> QED BY <1>1, <1>2 DEF SqlNext

-----------------------------------------------------------------------------
(* Every service implements the log *)

\* Where the log is promised: turns do not mix, and each service is the log.
LogInv ==
    Promised =>
        /\ Alone /\ Summing /\ Originals
        /\ conf.service = "memory" => MemoryLog
        /\ conf.service = "redis" => RedisLog
        /\ conf.service = "sql" => SqlLog

\* The log that a list of events is.
LogOf(s) == [i \in DOMAIN s |-> IF s[i].kind = "summary" THEN 0 ELSE s[i].id]

LEMMA LogOfFacts ==
  ASSUME NEW s, \A i \in DOMAIN s : s[i].id # 0
  PROVE /\ DOMAIN LogOf(s) = DOMAIN s
        /\ {LogOf(s)[i] : i \in DOMAIN LogOf(s)} \ {0} = Lasting(ToSet(s))
        /\ Rising(s) => \A i, j \in DOMAIN LogOf(s) :
              i < j /\ 0 \notin {LogOf(s)[i], LogOf(s)[j]} => LogOf(s)[i] < LogOf(s)[j]
<1> DEFINE l == LogOf(s)
<1>1. /\ DOMAIN l = DOMAIN s
      /\ \A i \in DOMAIN s : l[i] = IF s[i].kind = "summary" THEN 0 ELSE s[i].id
  BY DEF LogOf
<1> HIDE DEF l
<1>2. {l[i] : i \in DOMAIN l} \ {0} = Lasting(ToSet(s))
  <2>1. ASSUME NEW x \in {l[i] : i \in DOMAIN l} \ {0} PROVE x \in Lasting(ToSet(s))
    <3>1. PICK i \in DOMAIN s : x = l[i] /\ x # 0
      BY <1>1
    <3> QED BY <1>1, <3>1 DEF Lasting, ToSet
  <2>2. ASSUME NEW x \in Lasting(ToSet(s)) PROVE x \in {l[i] : i \in DOMAIN l} \ {0}
    <3>1. PICK i \in DOMAIN s : s[i].kind # "summary" /\ x = s[i].id
      BY DEF Lasting, ToSet
    <3> QED BY <1>1, <3>1
  <2> QED BY <2>1, <2>2
<1>3. ASSUME Rising(s), NEW i \in DOMAIN l, NEW j \in DOMAIN l, i < j, 0 \notin {l[i], l[j]}
      PROVE l[i] < l[j]
  BY <1>1, <1>3 DEF Rising
<1> QED BY <1>1, <1>2, <1>3 DEF l

\* A step of a service's log, in the terms of SessionLog.
LEMMA LogStepped ==
  ASSUME LogStep(Stored, Stored'), conf' = conf,
         \A i \in DOMAIN Stored.events : Stored.events[i].id # 0,
         \A i \in DOMAIN Stored'.events : Stored'.events[i].id # 0
  PROVE Log!LogNext
<1> DEFINE s == Stored
           r == Stored'
           S == Lasting(ToSet(s.events))
           R == Lasting(ToSet(r.events))
<1>1. /\ retired \subseteq retired' /\ Rising(r.events)
      /\ \/ /\ written' = written
            /\ Follows(StoreHistorical, r, S, Ids(s.hist), s.state \ {Temp}, retired')
         \/ \E id : /\ id \notin written /\ written' = written \cup {id}
                    /\ Follows(StoreHistorical, r, S \cup {id}, Ids(s.hist),
                               (s.state \ {Temp}) \cup {id}, retired')
  BY DEF LogStep
<1>2. /\ Log!InLog(LogOf(s.events)) = S /\ Log!InLog(LogOf(r.events)) = R
      /\ Log!InOrder(LogOf(r.events))
  BY <1>1, LogOfFacts DEF Log!InLog, Log!InOrder
<1>3. StoreHistorical' = StoreHistorical
  BY ConfKept
<1>4. CASE /\ written' = written
           /\ Follows(StoreHistorical, r, S, Ids(s.hist), s.state \ {Temp}, retired')
  <2>1. /\ R \subseteq S /\ S \ R \subseteq retired' /\ r.state \ {Temp} = s.state \ {Temp}
        /\ StoreHistorical => (S \ R) \cup Ids(s.hist) \subseteq Ids(r.hist)
    BY <1>4 DEF Follows
  <2> HIDE DEF S, R
  <2>2. Log!Trimmed(Log!InLog(LogOf(s.events)))
    BY <1>1, <1>2, <1>3, <2>1 DEF Log!Trimmed, LogOf
  <2> QED BY <1>4, <2>1, <2>2 DEF Log!LogNext, Log!LogRetire, LogOf
<1>5. ASSUME NEW id, id \notin written, written' = written \cup {id},
             Follows(StoreHistorical, r, S \cup {id}, Ids(s.hist), (s.state \ {Temp}) \cup {id}, retired')
      PROVE Log!LogNext
  <2>1. /\ R \subseteq S \cup {id} /\ (S \cup {id}) \ R \subseteq retired'
        /\ r.state \ {Temp} = (s.state \ {Temp}) \cup {id}
        /\ StoreHistorical => ((S \cup {id}) \ R) \cup Ids(s.hist) \subseteq Ids(r.hist)
    BY <1>5 DEF Follows
  <2> HIDE DEF S, R
  <2>2. Log!Trimmed(Log!InLog(LogOf(s.events)) \cup {id})
    BY <1>1, <1>2, <1>3, <2>1 DEF Log!Trimmed, LogOf
  <2>3. Log!LogAppend(id)
    BY <1>5, <2>1, <2>2 DEF Log!LogAppend, LogOf
  <2> QED BY <1>5, <2>3 DEF Log!LogNext
<1> QED BY <1>1, <1>4, <1>5

\* What a service stores has ids.
LEMMA StoredIds ==
  ASSUME ServicesInv
  PROVE Stored \in Sessions /\ \A i \in DOMAIN Stored.events : Stored.events[i].id # 0
<1>1. conf.service \in {"memory", "redis", "sql"} /\ now \in Nat
  BY ConfigsAssumption DEF ServicesInv, TurnsOK
<1>2. stored \in Sessions /\ document \in Sessions
  BY DEF ServicesInv, MemoryInv, RedisInv
<1>3. conf.service = "sql" => SqlStored \in Sessions
  BY <1>1, SqlStoredFacts DEF ServicesInv, SqlApart
<1>4. Stored \in Sessions
  BY <1>1, <1>2, <1>3 DEF Stored
<1>5. Stored.events \in Seq(EventSet)
  BY <1>4, SessionFields
<1>6. \A e \in EventSet : e.id # 0
  BY <1>1 DEF EventSet
<1> QED BY <1>4, <1>5, <1>6

LEMMA StoredIdsNext ==
  ASSUME ServicesInv'
  PROVE \A i \in DOMAIN Stored'.events : Stored'.events[i].id # 0
<1>1. conf'.service \in {"memory", "redis", "sql"} /\ now' \in Nat
  BY ConfigsAssumption DEF ServicesInv, TurnsOK
<1>2. stored' \in Sessions' /\ document' \in Sessions'
  BY DEF ServicesInv, MemoryInv, RedisInv
<1>3. conf'.service = "sql" => SqlStored' \in Sessions'
  <2> SUFFICES ASSUME conf'.service = "sql" PROVE SqlStored' \in Sessions'
    OBVIOUS
  <2>1. /\ rows' \subseteq EventSet' /\ IsFiniteSet(rows') /\ hist' \in Seq(EventSet')
        /\ state' \subseteq 0 .. now' /\ OneAtATime(rows')
    BY DEF ServicesInv, SqlTypes, SqlApart
  <2>2. \A e \in EventSet' : e.at \in Nat
    BY <1>1 DEF EventSet
  <2>3. InTimeOrder(rows') \in Seq(EventSet')
    BY <2>1, <2>2, InTimeOrderFacts
  <2> QED BY <2>1, <2>3 DEF SqlStored, Sessions
<1>4. Stored' \in Sessions'
  BY <1>1, <1>2, <1>3 DEF Stored
<1>5. Stored'.events \in Seq(EventSet')
  BY <1>4 DEF Sessions
<1>6. \A e \in EventSet' : e.id # 0
  BY <1>1 DEF EventSet
<1> QED BY <1>5, <1>6

LEMMA LogInitially == Init => LogInv /\ (Promised => Log!LogInit)
<1> SUFFICES ASSUME Init PROVE LogInv /\ Log!LogInit
  OBVIOUS
<1>1. /\ conf \in Configs /\ now = 1 /\ written = {} /\ retired = {}
      /\ pc = [t \in Turns |-> "idle"] /\ held = [t \in Turns |-> Empty]
      /\ owned = [t \in Turns |-> {}]
      /\ stored = Empty /\ linked = NoTurn
      /\ document = Empty /\ fetched = [t \in Turns |-> {}]
      /\ rows = {} /\ hist = <<>> /\ state = {} /\ touched = {} /\ dropped = [t \in Turns |-> {}]
  BY DEF Init, MemoryInit, RedisInit, SqlInit, TurnsInit
<1>2. Empty.events = <<>> /\ Empty.hist = <<>> /\ Empty.state = {} /\ ToSet(Empty.events) = {}
  BY DEF Empty, ToSet
<1>3. conf.service \in {"memory", "redis", "sql"} /\ StoreHistorical \in BOOLEAN
  BY <1>1, ConfigsAssumption, ServiceConfTypes
<1>4. \A t \in Turns : ~Active(t) /\ Unwritten(t) /\ Archives(t)
  BY <1>1 DEF Active, Unwritten, Archives
<1>5. \A o : Genuine({}, o)
  BY DEF Genuine
<1>6. Rising(<<>>)
  BY DEF Rising
<1>7. LogInv
  <2>1. Alone /\ Summing /\ Originals
    BY <1>1, <1>2, <1>4, <1>5 DEF Alone, Summing, Originals
  <2>2. MemoryLog
    BY <1>1, <1>2, <1>4, <1>5, <1>6, NoTurnAssumption DEF MemoryLog
  <2>3. RedisLog
    BY <1>1, <1>2, <1>4, <1>5, <1>6 DEF RedisLog
  <2>4. SqlLog
    BY <1>1, <1>4, <1>5 DEF SqlLog
  <2> QED BY <2>1, <2>2, <2>3, <2>4 DEF LogInv
<1>8. Stored.events = <<>> /\ Stored.hist = <<>> /\ Stored.state = {}
  <2>1. InTimeOrder({}) = <<>>
    <3>1. Cardinality({}) = 0
      BY FS_EmptySet
    <3>2. 1 .. Cardinality({}) = {}
      BY <3>1
    <3> QED BY <3>2 DEF InTimeOrder
  <2>2. SqlStored = [events |-> <<>>, hist |-> <<>>, state |-> {}]
    BY <1>1, <2>1 DEF SqlStored
  <2> QED BY <1>1, <1>2, <1>3, <2>2 DEF Stored
<1>9. Log!LogInit
  <2>1. DOMAIN Stored.events = {} /\ Ids(Stored.hist) = {} /\ Stored.state \ {Temp} = {}
    BY <1>8 DEF Ids
  <2> QED BY <1>1, <1>3, <2>1 DEF Log!LogInit
<1> QED BY <1>7, <1>9

LEMMA ServicesLogStep ==
  ServicesInv /\ ServicesInv' /\ LogInv /\ [Next]_vars
    => LogInv' /\ [Promised => Log!LogNext]_(Log!logVars)
<1> SUFFICES ASSUME ServicesInv, ServicesInv', LogInv, [Next]_vars
             PROVE LogInv' /\ ((Promised => Log!LogNext) \/ UNCHANGED Log!logVars)
  OBVIOUS
<1>1. /\ TurnsOK /\ TurnsPast /\ MemoryInv /\ RedisInv /\ SqlTypes /\ SqlTypes'
      /\ conf.service = "sql" => SqlApart
      /\ conf'.service = "sql" => SqlApart'
  BY DEF ServicesInv
<1>2. \A i \in DOMAIN Stored.events : Stored.events[i].id # 0
  BY StoredIds
<1>3. \A i \in DOMAIN Stored'.events : Stored'.events[i].id # 0
  BY StoredIdsNext
<1>4. CASE UNCHANGED vars
  <2>1. /\ UNCHANGED <<conf, pc, held, count, now, owned, written, retired>>
        /\ stored' = stored /\ linked' = linked /\ link' = link
        /\ document' = document /\ fetched' = fetched
        /\ rows' = rows /\ hist' = hist /\ state' = state /\ touched' = touched /\ dropped' = dropped
    BY <1>4 DEF vars, turnVars, memoryVars, redisVars, sqlVars
  <2>2. SqlStored' = SqlStored /\ Stored' = Stored
    BY <2>1 DEF SqlStored, Stored
  <2>3. UNCHANGED Log!logVars
    BY <2>1, <2>2 DEF Log!logVars, StoreHistorical
  <2>4. /\ Alone' = Alone /\ Summing' = Summing /\ Originals' = Originals /\ Promised' = Promised
    BY <2>1 DEF Alone, Summing, Originals, Promised, Single, Active, Overlap, Deferred, Saves,
                NumRecent, MaxEvents, StoreHistorical
  <2>5. \A t \in Turns : /\ Active(t)' = Active(t) /\ Flying(t)' = Flying(t)
                        /\ Unwritten(t)' = Unwritten(t) /\ Archives(t)' = Archives(t)
    BY <2>1 DEF Active, Flying, Unwritten, Archives, StoreHistorical, MaxEvents
  <2>6. Saves' = Saves /\ StoreHistorical' = StoreHistorical /\ (Private' <=> Private)
    BY <2>1, ConfKept DEF Private
  <2>7. MemoryLog => MemoryLog'
    BY <2>1, <2>5, <2>6 DEF MemoryLog, CopyOf
  <2>8. RedisLog => RedisLog'
    BY <2>1, <2>5, <2>6 DEF RedisLog, CopyOf
  <2>9. SqlLog => SqlLog'
    BY <2>1, <2>2, <2>5, <2>6 DEF SqlLog, CopyOf
  <2> QED BY <2>1, <2>3, <2>4, <2>7, <2>8, <2>9 DEF LogInv
<1>5. CASE ~Promised /\ Next
  <2>1. conf' = conf
    BY <1>1, <1>5, MemoryStep, RedisStep, SqlStep DEF Next, ServicesInv
  <2> QED BY <1>5, <2>1, ConfKept DEF LogInv
<1>6. CASE Promised /\ conf.service = "memory" /\ MemoryNext
  <2>1. MemoryKept
    BY <1>1, <1>6 DEF MemoryKept, LogInv
  <2>2. Alone' /\ Summing' /\ Originals' /\ MemoryLog' /\ LogStep(stored, stored')
    BY <1>6, <2>1, MemoryLogStep
  <2>3. conf' = conf
    BY <1>1, <1>6, MemoryStep DEF ServicesInv
  <2>4. LogStep(Stored, Stored')
    BY <1>6, <2>2, <2>3 DEF Stored
  <2>5. Log!LogNext
    BY <1>2, <1>3, <2>3, <2>4, LogStepped
  <2> QED BY <1>6, <2>2, <2>3, <2>5 DEF LogInv
<1>7. CASE Promised /\ conf.service = "redis" /\ RedisNext
  <2>1. RedisKept
    BY <1>1, <1>7 DEF RedisKept, LogInv
  <2>2. Alone' /\ Summing' /\ Originals' /\ RedisLog' /\ LogStep(document, document')
    BY <1>7, <2>1, RedisLogStep
  <2>3. conf' = conf
    BY <1>1, <1>7, RedisStep DEF ServicesInv
  <2>4. LogStep(Stored, Stored')
    BY <1>7, <2>2, <2>3 DEF Stored
  <2>5. Log!LogNext
    BY <1>2, <1>3, <2>3, <2>4, LogStepped
  <2> QED BY <1>7, <2>2, <2>3, <2>5 DEF LogInv
<1>8. CASE Promised /\ conf.service = "sql" /\ SqlNext
  <2>1. SqlKept
    BY <1>1, <1>8 DEF SqlKept, LogInv
  <2>2. conf' = conf
    BY <1>1, <1>8, SqlStep
  <2>3. SqlApart'
    BY <1>1, <1>8, <2>2
  <2>4. Alone' /\ Summing' /\ Originals' /\ SqlLog' /\ LogStep(SqlStored, SqlStored')
    BY <1>1, <1>8, <2>1, <2>3, SqlLogStep
  <2>5. LogStep(Stored, Stored')
    BY <1>8, <2>2, <2>4 DEF Stored
  <2>6. Log!LogNext
    BY <1>2, <1>3, <2>2, <2>5, LogStepped
  <2> QED BY <1>8, <2>2, <2>4, <2>6 DEF LogInv
<1> QED BY <1>4, <1>5, <1>6, <1>7, <1>8 DEF Next

\* Every session service implements the log in the deployments that promise
\* it: through windows, summaries, compactions, saves after cancellations,
\* stale copies and (where promised) overlapping turns, it stores every
\* appended event once and in order with its state delta until a rule retires
\* it, archives what it retires, and brings nothing back.
THEOREM ServicesImplementLog == Spec => ImplementsLog
<1>1. Init => (Promised => Log!LogInit)
  BY LogInitially
<1>2. Init => LogInv
  BY LogInitially
<1>3. ServicesInv /\ ServicesInv' /\ LogInv /\ [Next]_vars => LogInv'
  BY ServicesLogStep
<1>4. ServicesInv /\ ServicesInv' /\ LogInv /\ [Next]_vars => [Promised => Log!LogNext]_(Log!logVars)
  BY ServicesLogStep
<1> QED BY <1>1, <1>2, <1>3, <1>4, ServicesInvariant, PTL DEF Spec, ImplementsLog
=============================================================================
