------------------------------ MODULE Induction ------------------------------
(***************************************************************************)
(* Induction over natural numbers and sequences, in the form that a set    *)
(* closed under the next step contains everything, and what it says of the *)
(* operators on sequences that the models use.                             *)
(***************************************************************************)
EXTENDS Integers, SequencesExt, SequenceTheorems, WellFoundedInduction, TLAPS

LEMMA LeastMember ==
  ASSUME NEW S \in SUBSET Nat, S # {}
  PROVE  Min(S) \in S /\ \A y \in S : Min(S) <= y
<1> DEFINE R == OpToRel(<, Nat)
<1>1. IsWellFoundedOn(R, Nat)
  BY NatLessThanWellFounded
<1> HIDE DEF R
<1>2. PICK x \in S : \A y \in S : ~ (<<y, x>> \in R)
  BY <1>1, WFMin
<1>3. \A y \in S : x <= y
  <2> SUFFICES ASSUME NEW y \in S, y < x PROVE FALSE
    OBVIOUS
  <2>1. <<y, x>> \in R
    BY DEF R, OpToRel
  <2> QED BY <1>2, <2>1
<1> QED BY <1>2, <1>3 DEF Min

\* A set with 0 and each number after one of its own has every number.
LEMMA NatSetInduction ==
  ASSUME NEW S, 0 \in S, \A n \in Nat : n \in S => n + 1 \in S
  PROVE  \A n \in Nat : n \in S
<1> SUFFICES ASSUME NEW n \in Nat, n \notin S PROVE FALSE
  OBVIOUS
<1> DEFINE F == {m \in Nat : m \notin S}
           m == Min(F)
<1>1. F \in SUBSET Nat /\ F # {}
  OBVIOUS
<1>2. m \in F /\ \A y \in F : m <= y
  <2> HIDE DEF F
  <2> QED BY <1>1, LeastMember
<1> HIDE DEF m
<1>3. m \in Nat /\ m \notin S /\ m # 0
  BY <1>2
<1>4. m - 1 \in Nat /\ m - 1 \notin F
  BY <1>2, <1>3
<1> QED BY <1>3, <1>4

LEMMA SeqInduction ==
  ASSUME NEW T, NEW S, <<>> \in S,
         \A s \in Seq(T), e \in T : s \in S => Append(s, e) \in S
  PROVE  \A s \in Seq(T) : s \in S
<1> DEFINE N == {n \in Nat : \A s \in Seq(T) : Len(s) = n => s \in S}
<1>1. 0 \in N
  OBVIOUS
<1>2. ASSUME NEW n \in Nat, n \in N PROVE n + 1 \in N
  <2> SUFFICES ASSUME NEW s \in Seq(T), Len(s) = n + 1 PROVE s \in S
    OBVIOUS
  <2> DEFINE f == SubSeq(s, 1, n)
  <2>1. f \in Seq(T) /\ Len(f) = n /\ s[n + 1] \in T /\ s = Append(f, s[n + 1])
    OBVIOUS
  <2>2. f \in S
    BY <1>2, <2>1
  <2> HIDE DEF f
  <2> QED BY <2>1, <2>2
<1> HIDE DEF N
<1>3. \A n \in Nat : n \in N
  BY <1>1, <1>2, NatSetInduction
<1> QED BY <1>3, LenProperties DEF N

LEMMA FrontAndLast ==
  ASSUME NEW T, NEW s \in Seq(T), s # <<>>
  PROVE  /\ Front(s) \in Seq(T) /\ Last(s) \in T /\ Len(s) \in Nat \ {0}
         /\ Len(Front(s)) = Len(s) - 1
         /\ \A i \in 1..(Len(s) - 1) : Front(s)[i] = s[i]
         /\ s = Append(Front(s), Last(s))
<1>1. Len(s) \in Nat \ {0} /\ s[Len(s)] \in T
  OBVIOUS
<1>2. SubSeq(s, 1, Len(s) - 1) \in Seq(T) /\ Len(SubSeq(s, 1, Len(s) - 1)) = Len(s) - 1
  OBVIOUS
<1>3. \A i \in 1..(Len(s) - 1) : SubSeq(s, 1, Len(s) - 1)[i] = s[i]
  OBVIOUS
<1>4. s = Append(SubSeq(s, 1, Len(s) - 1), s[Len(s)])
  OBVIOUS
<1> QED BY <1>1, <1>2, <1>3, <1>4 DEF Front, Last

LEMMA LastOfAppend ==
  ASSUME NEW T, NEW s \in Seq(T), NEW e \in T
  PROVE  Front(Append(s, e)) = s /\ Last(Append(s, e)) = e
<1>1. Append(s, e)[Len(Append(s, e))] = e
  BY AppendProperties
<1>2. SubSeq(Append(s, e), 1, Len(Append(s, e)) - 1) = s
  OBVIOUS
<1> QED BY <1>1, <1>2 DEF Front, Last

LEMMA SumOfParts ==
  ASSUME NEW n \in Nat, NEW k \in 0..n
  PROVE  k + (n - k) = n
OBVIOUS

LEMMA SplitSeq ==
  ASSUME NEW T, NEW s \in Seq(T), NEW k \in 0..Len(s),
         NEW a, a = SubSeq(s, 1, k), NEW b, b = SubSeq(s, k + 1, Len(s))
  PROVE  /\ a \in Seq(T) /\ Len(a) = k /\ \A i \in 1..k : a[i] = s[i]
         /\ b \in Seq(T) /\ Len(b) = Len(s) - k
         /\ \A i \in 1..(Len(s) - k) : b[i] = s[k + i]
         /\ s = a \o b
<1> DEFINE n == Len(s)
<1>0. n \in Nat /\ k \in 0..n /\ a = SubSeq(s, 1, k) /\ b = SubSeq(s, k + 1, n) /\ n = Len(s)
  BY LenProperties
<1>1. \A i \in 1..n : s[i] \in T
  BY ElementOfSeq
<1> HIDE DEF n
<1>2. a \in Seq(T) /\ Len(a) = k /\ \A i \in 1..k : a[i] = s[i]
  <2>1. 1 \in Int /\ k \in Int /\ \A i \in 1..k : s[i] \in T
    BY <1>0, <1>1
  <2>2. /\ a \in Seq(T) /\ Len(a) = (IF 1 <= k THEN k - 1 + 1 ELSE 0)
        /\ \A i \in 1..(k - 1 + 1) : a[i] = s[1 + i - 1]
    BY <1>0, <2>1, SubSeqProperties
  <2> QED BY <1>0, <2>2
<1>3. b \in Seq(T) /\ Len(b) = n - k /\ \A i \in 1..(n - k) : b[i] = s[k + i]
  <2>1. k + 1 \in Int /\ n \in Int /\ \A i \in (k + 1)..n : s[i] \in T
    BY <1>0, <1>1
  <2>2. /\ b \in Seq(T) /\ Len(b) = (IF k + 1 <= n THEN n - (k + 1) + 1 ELSE 0)
        /\ \A i \in 1..(n - (k + 1) + 1) : b[i] = s[(k + 1) + i - 1]
    BY <1>0, <2>1, SubSeqProperties
  <2>3. n - (k + 1) + 1 = n - k
    BY <1>0
  <2>4. \A i \in 1..(n - k) : (k + 1) + i - 1 = k + i
    BY <1>0
  <2> QED BY <1>0, <2>2, <2>3, <2>4
<1>4. /\ a \o b \in Seq(T) /\ Len(a \o b) = n
      /\ \A i \in 1..n : (a \o b)[i] = IF i <= k THEN a[i] ELSE b[i - k]
  <2>0. a \in Seq(T) /\ b \in Seq(T)
    BY <1>2, <1>3
  <2>1. a \o b \in Seq(T) /\ Len(a \o b) = Len(a) + Len(b)
    BY <2>0, ConcatProperties
  <2>2. \A i \in 1..(Len(a) + Len(b)) :
          (a \o b)[i] = IF i <= Len(a) THEN a[i] ELSE b[i - Len(a)]
    BY <2>0, ConcatProperties
  <2>3. Len(a) = k /\ Len(a) + Len(b) = n
    <3>1. Len(a) = k /\ Len(b) = n - k
      BY <1>2, <1>3
    <3>2. k + (n - k) = n
      BY <1>0, SumOfParts
    <3> QED BY <3>1, <3>2, Zenon
  <2> QED BY <2>1, <2>2, <2>3
<1>5. \A i \in 1..n : (a \o b)[i] = s[i]
  <2> SUFFICES ASSUME NEW i \in 1..n PROVE (a \o b)[i] = s[i]
    OBVIOUS
  <2>0. (a \o b)[i] = IF i <= k THEN a[i] ELSE b[i - k]
    BY <1>4
  <2>1. CASE i <= k
    <3>1. i \in 1..k
      BY <1>0, <2>1
    <3> QED BY <1>2, <2>0, <2>1, <3>1
  <2>2. CASE ~(i <= k)
    <3>1. i - k \in 1..(n - k) /\ k + (i - k) = i
      BY <1>0, <2>2
    <3>2. b[i - k] = s[k + (i - k)]
      BY <1>3, <3>1
    <3> QED BY <2>0, <2>2, <3>1, <3>2
  <2> QED BY <2>1, <2>2
<1>6. s = a \o b
  BY <1>0, <1>4, <1>5, SeqEqual
<1> QED BY <1>0, <1>2, <1>3, <1>6

-----------------------------------------------------------------------------
(***************************************************************************)
(* FlattenSeq of the community modules.                                    *)
(***************************************************************************)

\* The function FlattenSeq is defined by.
Flattens(h, ss, n) ==
  h = [i \in 1..n |-> IF i = 1 THEN ss[i] ELSE h[i - 1] \o ss[i]]

LEMMA FlattensAt ==
  ASSUME NEW h, NEW ss, NEW n \in Nat, Flattens(h, ss, n), NEW i \in 1..n
  PROVE  h[i] = IF i = 1 THEN ss[i] ELSE h[i - 1] \o ss[i]
<1> DEFINE g == [j \in 1..n |-> IF j = 1 THEN ss[j] ELSE h[j - 1] \o ss[j]]
<1>1. g[i] = IF i = 1 THEN ss[i] ELSE h[i - 1] \o ss[i]
  OBVIOUS
<1>2. h = g
  BY Zenon DEF Flattens
<1> HIDE DEF g
<1> QED BY <1>1, <1>2

LEMMA FlattensExists ==
  ASSUME NEW ss
  PROVE  \A n \in Nat : \E h : Flattens(h, ss, n)
<1> DEFINE N == {n \in Nat : \E h : Flattens(h, ss, n)}
<1>1. 0 \in N
  <2>1. Flattens([i \in {} |-> {}], ss, 0)
    BY DEF Flattens
  <2> QED BY <2>1
<1>2. ASSUME NEW n \in Nat, n \in N PROVE n + 1 \in N
  <2>1. PICK h : Flattens(h, ss, n)
    BY <1>2
  <2> DEFINE g == [i \in 1..(n + 1) |-> IF i = 1 THEN ss[i] ELSE h[i - 1] \o ss[i]]
  <2>2. \A i \in 1..n : g[i] = h[i]
    BY <2>1, FlattensAt
  <2>3. \A i \in 1..(n + 1) :
          g[i] = IF i = 1 THEN ss[i] ELSE g[i - 1] \o ss[i]
    <3> SUFFICES ASSUME NEW i \in 1..(n + 1), i # 1 PROVE g[i] = g[i - 1] \o ss[i]
      OBVIOUS
    <3>1. i - 1 \in 1..n
      OBVIOUS
    <3>2. g[i - 1] = h[i - 1]
      BY <2>2, <3>1
    <3>3. g[i] = h[i - 1] \o ss[i]
      OBVIOUS
    <3> QED BY <3>2, <3>3
  <2>4. g = [i \in 1..(n + 1) |-> IF i = 1 THEN ss[i] ELSE g[i - 1] \o ss[i]]
    <3>1. g = [i \in 1..(n + 1) |-> g[i]]
      OBVIOUS
    <3> HIDE DEF g
    <3> QED BY <2>3, <3>1
  <2> HIDE DEF g
  <2>5. Flattens(g, ss, n + 1)
    BY <2>4, Zenon DEF Flattens
  <2> QED BY <2>5
<1> HIDE DEF N
<1>3. \A n \in Nat : n \in N
  BY <1>1, <1>2, NatSetInduction
<1> QED BY <1>3 DEF N

\* Longer sequences with the same beginning are flattened alike up to there.
LEMMA FlattensAgree ==
  ASSUME NEW n \in Nat, NEW m \in Nat, n <= m, NEW g, NEW h, NEW ss, NEW tt,
         Flattens(g, ss, n), Flattens(h, tt, m), \A i \in 1..n : ss[i] = tt[i]
  PROVE  \A i \in 1..n : g[i] = h[i]
<1> DEFINE N == {k \in Nat : k \in 1..n => g[k] = h[k]}
<1>1. 0 \in N
  OBVIOUS
<1>2. ASSUME NEW k \in Nat, k \in N PROVE k + 1 \in N
  <2> SUFFICES ASSUME k + 1 \in 1..n PROVE g[k + 1] = h[k + 1]
    OBVIOUS
  <2>1. k + 1 \in 1..m
    OBVIOUS
  <2>2. g[k + 1] = IF k + 1 = 1 THEN ss[k + 1] ELSE g[(k + 1) - 1] \o ss[k + 1]
    BY FlattensAt
  <2>3. h[k + 1] = IF k + 1 = 1 THEN tt[k + 1] ELSE h[(k + 1) - 1] \o tt[k + 1]
    BY <2>1, FlattensAt
  <2>4. k # 0 => g[k] = h[k]
    BY <1>2
  <2>5. (k + 1) - 1 = k
    OBVIOUS
  <2> QED BY <2>2, <2>3, <2>4, <2>5
<1> HIDE DEF N
<1>3. \A k \in Nat : k \in N
  BY <1>1, <1>2, NatSetInduction
<1> QED BY <1>3 DEF N

LEMMA FlattenIs ==
  ASSUME NEW T, NEW ss \in Seq(T), ss # <<>>
  PROVE  \E h : Flattens(h, ss, Len(ss)) /\ FlattenSeq(ss) = h[Len(ss)]
<1> DEFINE R(h) == h = [i \in 1..Len(ss) |-> IF i = 1 THEN ss[i] ELSE h[i - 1] \o ss[i]]
           C == CHOOSE h : R(h)
<1>1. \E h : R(h)
  <2>1. Len(ss) \in Nat
    OBVIOUS
  <2> QED BY <2>1, FlattensExists, Zenon DEF Flattens
<1>2. R(C)
  BY <1>1, Zenon
<1>3. Len(ss) # 0
  OBVIOUS
<1>4. FlattenSeq(ss) = C[Len(ss)]
  BY <1>3, Zenon DEF FlattenSeq
<1> HIDE DEF C
<1> QED BY <1>2, <1>4, Zenon DEF Flattens

LEMMA FlattenEmpty == FlattenSeq(<<>>) = <<>>
<1>1. Len(<<>>) = 0
  OBVIOUS
<1> QED BY <1>1, Zenon DEF FlattenSeq

LEMMA FlattenAppend ==
  ASSUME NEW T, NEW ss \in Seq(Seq(T)), NEW s \in Seq(T)
  PROVE  FlattenSeq(Append(ss, s)) = FlattenSeq(ss) \o s
<1> DEFINE tt == Append(ss, s)
           n == Len(ss)
<1>1. tt \in Seq(Seq(T)) /\ tt # <<>> /\ Len(tt) = n + 1 /\ tt[n + 1] = s /\ n \in Nat
      /\ \A i \in 1..n : ss[i] = tt[i]
  <2> DEFINE U == Seq(T)
  <2>1. ss \in Seq(U) /\ s \in U
    OBVIOUS
  <2> HIDE DEF U
  <2> QED BY <2>1, AppendProperties, LenProperties DEF U
<1> HIDE DEF tt, n
<1>2. PICK h : Flattens(h, tt, n + 1) /\ FlattenSeq(tt) = h[n + 1]
  BY <1>1, FlattenIs
<1>3. h[n + 1] = IF n + 1 = 1 THEN tt[n + 1] ELSE h[(n + 1) - 1] \o tt[n + 1]
  BY <1>1, <1>2, FlattensAt
<1>4. CASE n = 0
  <2>1. ss = <<>>
    BY <1>4 DEF n
  <2>2. FlattenSeq(ss) = <<>>
    BY <2>1, FlattenEmpty
  <2>3. FlattenSeq(tt) = s
    BY <1>1, <1>2, <1>3, <1>4
  <2> QED BY <2>2, <2>3 DEF tt
<1>5. CASE n # 0
  <2>1. ss # <<>>
    BY <1>5 DEF n
  <2>2. PICK g : Flattens(g, ss, n) /\ FlattenSeq(ss) = g[n]
    BY <2>1, FlattenIs DEF n
  <2>3. g[n] = h[n]
    BY <1>1, <1>2, <1>5, <2>2, FlattensAgree
  <2>4. h[n + 1] = h[n] \o s
    BY <1>1, <1>3, <1>5
  <2> QED BY <1>2, <2>2, <2>3, <2>4 DEF tt
<1> QED BY <1>4, <1>5

LEMMA FlattenTyped ==
  ASSUME NEW T
  PROVE  \A ss \in Seq(Seq(T)) : FlattenSeq(ss) \in Seq(T)
<1> DEFINE U == Seq(T)
           S == {ss \in Seq(U) : FlattenSeq(ss) \in U}
<1>1. <<>> \in S
  <2>1. <<>> \in U
    OBVIOUS
  <2> HIDE DEF U
  <2> QED BY <2>1, FlattenEmpty
<1>2. ASSUME NEW ss \in Seq(U), NEW s \in U, ss \in S PROVE Append(ss, s) \in S
  <2>1. FlattenSeq(Append(ss, s)) = FlattenSeq(ss) \o s
    BY FlattenAppend
  <2>2. Append(ss, s) \in Seq(U)
    <3> HIDE DEF U
    <3> QED BY AppendProperties
  <2>3. FlattenSeq(ss) \o s \in U
    BY <1>2, ConcatProperties
  <2> HIDE DEF U
  <2> QED BY <2>1, <2>2, <2>3
<1> HIDE DEF U, S
<1>3. \A ss \in Seq(U) : ss \in S
  BY <1>1, <1>2, SeqInduction
<1> QED BY <1>3 DEF U, S

LEMMA FlattenSingle ==
  ASSUME NEW T, NEW s \in Seq(T)
  PROVE  FlattenSeq(<<s>>) = s
<1> DEFINE U == Seq(T)
<1>1. <<>> \in Seq(U) /\ <<s>> = Append(<<>>, s)
  OBVIOUS
<1>2. FlattenSeq(<<s>>) = <<>> \o s
  BY <1>1, FlattenAppend, FlattenEmpty
<1> QED BY <1>2, ConcatEmptySeq

LEMMA FlattenConcat ==
  ASSUME NEW T, NEW ss \in Seq(Seq(T))
  PROVE  \A tt \in Seq(Seq(T)) : FlattenSeq(ss \o tt) = FlattenSeq(ss) \o FlattenSeq(tt)
<1> DEFINE U == Seq(T)
           S == {tt \in Seq(U) : FlattenSeq(ss \o tt) = FlattenSeq(ss) \o FlattenSeq(tt)}
<1>0. FlattenSeq(ss) \in Seq(T) /\ ss \in Seq(U)
  BY FlattenTyped
<1>1. <<>> \in S
  <2>1. ss \o <<>> = ss /\ <<>> \in Seq(U)
    <3> HIDE DEF U
    <3> QED BY <1>0, ConcatEmptySeq
  <2>2. FlattenSeq(ss) \o <<>> = FlattenSeq(ss)
    BY <1>0, ConcatEmptySeq
  <2> QED BY <2>1, <2>2, FlattenEmpty
<1>2. ASSUME NEW tt \in Seq(U), NEW s \in U, tt \in S PROVE Append(tt, s) \in S
  <2>1. /\ Append(tt, s) \in Seq(U) /\ ss \o tt \in Seq(U)
        /\ ss \o Append(tt, s) = Append(ss \o tt, s)
    <3> HIDE DEF U
    <3>1. Append(tt, s) \in Seq(U) /\ ss \o tt \in Seq(U)
      BY <1>0, AppendProperties, ConcatProperties
    <3>2. <<s>> \in Seq(U) /\ Append(tt, s) = tt \o <<s>> /\ Append(ss \o tt, s) = (ss \o tt) \o <<s>>
      BY <3>1, AppendIsConcat
    <3>3. ss \o (tt \o <<s>>) = (ss \o tt) \o <<s>>
      BY <1>0, <3>2, ConcatAssociative
    <3> QED BY <3>1, <3>2, <3>3
  <2>2. FlattenSeq(Append(tt, s)) = FlattenSeq(tt) \o s
    BY FlattenAppend
  <2>3. FlattenSeq(Append(ss \o tt, s)) = FlattenSeq(ss \o tt) \o s
    BY <2>1, FlattenAppend
  <2>4. FlattenSeq(tt) \in Seq(T) /\ s \in Seq(T)
    BY FlattenTyped
  <2>5. (FlattenSeq(ss) \o FlattenSeq(tt)) \o s = FlattenSeq(ss) \o (FlattenSeq(tt) \o s)
    BY <1>0, <2>4, ConcatAssociative
  <2> HIDE DEF U
  <2> QED BY <1>2, <2>1, <2>2, <2>3, <2>5
<1> HIDE DEF U, S
<1>3. \A tt \in Seq(U) : tt \in S
  BY <1>1, <1>2, SeqInduction
<1> QED BY <1>3 DEF U, S

LEMMA ToSetConcat ==
  ASSUME NEW T, NEW s \in Seq(T), NEW t \in Seq(T)
  PROVE  ToSet(s \o t) = ToSet(s) \cup ToSet(t)
<1>1. /\ Len(s) \in Nat /\ Len(t) \in Nat /\ DOMAIN s = 1..Len(s) /\ DOMAIN t = 1..Len(t)
      /\ s \o t \in Seq(T)
  BY ConcatProperties, LenProperties
<1>2. DOMAIN (s \o t) = 1..(Len(s) + Len(t))
  BY <1>1, ConcatProperties, LenProperties
<1>3. \A i \in 1..(Len(s) + Len(t)) :
        (s \o t)[i] = IF i <= Len(s) THEN s[i] ELSE t[i - Len(s)]
  BY ConcatProperties
<1>4. ASSUME NEW x \in ToSet(s \o t) PROVE x \in ToSet(s) \cup ToSet(t)
  <2>1. PICK i \in 1..(Len(s) + Len(t)) : x = (s \o t)[i]
    BY <1>2 DEF ToSet
  <2>2. i <= Len(s) => i \in DOMAIN s
    BY <1>1
  <2>3. ~(i <= Len(s)) => i - Len(s) \in DOMAIN t
    BY <1>1
  <2> QED BY <1>3, <2>1, <2>2, <2>3 DEF ToSet
<1>5. ASSUME NEW x \in ToSet(s) PROVE x \in ToSet(s \o t)
  <2>1. PICK i \in 1..Len(s) : x = s[i]
    BY <1>1 DEF ToSet
  <2>2. i \in 1..(Len(s) + Len(t)) /\ i <= Len(s)
    BY <1>1
  <2> QED BY <1>2, <1>3, <2>1, <2>2 DEF ToSet
<1>6. ASSUME NEW x \in ToSet(t) PROVE x \in ToSet(s \o t)
  <2>1. PICK i \in 1..Len(t) : x = t[i]
    BY <1>1 DEF ToSet
  <2>2. /\ Len(s) + i \in 1..(Len(s) + Len(t)) /\ ~(Len(s) + i <= Len(s))
        /\ (Len(s) + i) - Len(s) = i
    BY <1>1
  <2> QED BY <1>2, <1>3, <2>1, <2>2 DEF ToSet
<1> QED BY <1>4, <1>5, <1>6

LEMMA FlattenToSet ==
  ASSUME NEW T
  PROVE  \A ss \in Seq(Seq(T)) :
           ToSet(FlattenSeq(ss)) = UNION {ToSet(ss[i]) : i \in 1..Len(ss)}
<1> DEFINE U == Seq(T)
           Sets(ss) == UNION {ToSet(ss[i]) : i \in 1..Len(ss)}
           S == {ss \in Seq(U) : ToSet(FlattenSeq(ss)) = Sets(ss)}
<1>1. <<>> \in S
  BY FlattenEmpty DEF ToSet
<1>2. ASSUME NEW ss \in Seq(U), NEW s \in U, ss \in S PROVE Append(ss, s) \in S
  <2>1. FlattenSeq(Append(ss, s)) = FlattenSeq(ss) \o s
    BY FlattenAppend
  <2>2. FlattenSeq(ss) \in Seq(T)
    BY FlattenTyped
  <2>3. ToSet(FlattenSeq(ss) \o s) = ToSet(FlattenSeq(ss)) \cup ToSet(s)
    BY <2>2, ToSetConcat
  <2>4. Append(ss, s) \in Seq(U) /\ Sets(Append(ss, s)) = Sets(ss) \cup ToSet(s)
    <3> HIDE DEF U
    <3> DEFINE tt == Append(ss, s)
               n == Len(ss)
    <3>1. /\ n \in Nat /\ tt \in Seq(U) /\ Len(tt) = n + 1 /\ tt[n + 1] = s
          /\ \A i \in 1..n : tt[i] = ss[i]
      BY AppendProperties, LenProperties
    <3>2. \A i \in 1..(n + 1) : i \in 1..n \/ i = n + 1
      BY <3>1
    <3>3. \A i \in 1..n : i \in 1..(n + 1)
      BY <3>1
    <3>4. n + 1 \in 1..(n + 1)
      BY <3>1
    <3> HIDE DEF tt, n
    <3>5. Sets(tt) = (UNION {ToSet(ss[i]) : i \in 1..n}) \cup ToSet(s)
      BY <3>1, <3>2, <3>3, <3>4
    <3> QED BY <3>1, <3>5 DEF tt, n
  <2> HIDE DEF U, Sets
  <2> QED BY <1>2, <2>1, <2>3, <2>4
<1> HIDE DEF U, S
<1>3. \A ss \in Seq(U) : ss \in S
  BY <1>1, <1>2, SeqInduction
<1> QED BY <1>3 DEF U, S

-----------------------------------------------------------------------------
(***************************************************************************)
(* FoldLeft of the community modules.                                      *)
(***************************************************************************)

LEMMA GreatestMember ==
  ASSUME NEW n \in Nat, NEW S \in SUBSET (0..n), S # {}
  PROVE  Max(S) \in S /\ \A y \in S : y <= Max(S)
<1> DEFINE T == {n - x : x \in S}
<1>0. \A x \in S : x \in Nat /\ x <= n
  OBVIOUS
<1>1. T \in SUBSET Nat /\ T # {}
  <2>1. \A x \in S : n - x \in Nat
    BY <1>0
  <2> QED BY <2>1
<1>2. Min(T) \in T /\ \A y \in T : Min(T) <= y
  <2> HIDE DEF T
  <2> QED BY <1>1, LeastMember
<1>3. PICK x \in S : Min(T) = n - x
  BY <1>2
<1>4. \A y \in S : x >= y
  <2> SUFFICES ASSUME NEW y \in S PROVE x >= y
    OBVIOUS
  <2>1. n - x <= n - y
    BY <1>2, <1>3
  <2> QED BY <1>0, <2>1
<1>5. Max(S) \in S /\ \A y \in S : Max(S) >= y
  BY <1>4 DEF Max
<1> QED BY <1>5

\* The function a fold over s is defined by.
FoldsTo(h, F, base, s, n) ==
  h = [x \in SUBSET (1..n) |->
         IF x = {} THEN base ELSE F[<<h[x \ {Max(x)}], s[Max(x)]>>]]

LEMMA FoldsAt ==
  ASSUME NEW h, NEW F, NEW base, NEW s, NEW n \in Nat, FoldsTo(h, F, base, s, n)
  PROVE  /\ h[{}] = base
         /\ \A x \in SUBSET (1..n) : x # {} => h[x] = F[<<h[x \ {Max(x)}], s[Max(x)]>>]
<1> DEFINE g == [y \in SUBSET (1..n) |->
                   IF y = {} THEN base ELSE F[<<h[y \ {Max(y)}], s[Max(y)]>>]]
<1>1. g[{}] = base
  OBVIOUS
<1>2. \A x \in SUBSET (1..n) : x # {} => g[x] = F[<<h[x \ {Max(x)}], s[Max(x)]>>]
  OBVIOUS
<1>3. h = g
  BY Zenon DEF FoldsTo
<1> HIDE DEF g
<1> QED BY <1>1, <1>2, <1>3

LEMMA FoldExtends ==
  ASSUME NEW A, NEW B, NEW F \in [A \X B -> A], NEW base, NEW s, NEW n \in Nat,
         s[n + 1] \in B,
         NEW h \in [SUBSET (1..n) -> A], FoldsTo(h, F, base, s, n)
  PROVE  \E g \in [SUBSET (1..(n + 1)) -> A] : FoldsTo(g, F, base, s, n + 1)
<1>a. /\ h[{}] = base
      /\ \A x \in SUBSET (1..n) : x # {} => h[x] = F[<<h[x \ {Max(x)}], s[Max(x)]>>]
  <2> DEFINE k == [y \in SUBSET (1..n) |->
                     IF y = {} THEN base ELSE F[<<h[y \ {Max(y)}], s[Max(y)]>>]]
  <2>1. k[{}] = base
    OBVIOUS
  <2>2. \A x \in SUBSET (1..n) : x # {} => k[x] = F[<<h[x \ {Max(x)}], s[Max(x)]>>]
    OBVIOUS
  <2>3. h = k
    BY Zenon DEF FoldsTo
  <2> HIDE DEF k
  <2> QED BY <2>1, <2>2, <2>3
<1> DEFINE g == [x \in SUBSET (1..(n + 1)) |->
                   IF n + 1 \in x THEN F[<<h[x \ {n + 1}], s[n + 1]>>] ELSE h[x]]
<1>1. \A x \in SUBSET (1..(n + 1)) : n + 1 \notin x => x \in SUBSET (1..n)
  OBVIOUS
<1>2. \A x \in SUBSET (1..(n + 1)) : x \ {n + 1} \in SUBSET (1..n)
  OBVIOUS
<1>3. g \in [SUBSET (1..(n + 1)) -> A]
  BY <1>1, <1>2
<1>4. \A x \in SUBSET (1..n) : x \in SUBSET (1..(n + 1)) /\ g[x] = h[x]
  OBVIOUS
<1>5. ASSUME NEW x \in SUBSET (1..(n + 1))
      PROVE  g[x] = IF x = {} THEN base ELSE F[<<g[x \ {Max(x)}], s[Max(x)]>>]
  <2>1. CASE n + 1 \in x
    <3>1. n + 1 \in Nat /\ x # {} /\ x \in SUBSET (0..(n + 1))
      BY <2>1
    <3>2. Max(x) \in x /\ \A y \in x : y <= Max(x)
      BY <3>1, GreatestMember
    <3>3. Max(x) \in 1..(n + 1)
      BY <3>2
    <3>4. Max(x) = n + 1
      BY <2>1, <3>2, <3>3
    <3>5. g[x \ {n + 1}] = h[x \ {n + 1}]
      BY <1>2, <1>4
    <3>6. g[x] = F[<<h[x \ {n + 1}], s[n + 1]>>]
      BY <2>1
    <3> HIDE DEF g
    <3> QED BY <3>1, <3>4, <3>5, <3>6
  <2>2. CASE n + 1 \notin x
    <3>1. x \in SUBSET (1..n) /\ g[x] = h[x]
      BY <1>1, <1>4, <2>2
    <3> HIDE DEF g
    <3>2. h[x] = IF x = {} THEN base ELSE F[<<h[x \ {Max(x)}], s[Max(x)]>>]
      BY <1>a, <3>1
    <3>3. x \ {Max(x)} \in SUBSET (1..n)
      BY <3>1
    <3>4. g[x \ {Max(x)}] = h[x \ {Max(x)}]
      BY <1>4, <3>3
    <3> QED BY <3>1, <3>2, <3>4
  <2> QED BY <2>1, <2>2
<1>6. g = [x \in SUBSET (1..(n + 1)) |-> g[x]]
  OBVIOUS
<1> HIDE DEF g
<1>7. FoldsTo(g, F, base, s, n + 1)
  BY <1>5, <1>6 DEF FoldsTo
<1> QED BY <1>3, <1>7

IsFold(h, A, F, base, s, n) ==
  /\ h \in [SUBSET (1..n) -> A]
  /\ FoldsTo(h, F, base, s, n)
  /\ h[{}] = base
  /\ \A x \in SUBSET (1..n) : x # {} => h[x] = F[<<h[x \ {Max(x)}], s[Max(x)]>>]

LEMMA FoldExists ==
  ASSUME NEW A, NEW B, NEW F \in [A \X B -> A], NEW base \in A, NEW s \in Seq(B)
  PROVE  \E h : IsFold(h, A, F, base, s, Len(s))
<1> DEFINE m == Len(s)
           Folds(n) == \E h \in [SUBSET (1..n) -> A] : FoldsTo(h, F, base, s, n)
           N == {n \in Nat : n <= m => Folds(n)}
<1>0. m \in Nat
  OBVIOUS
<1>1. 0 \in N
  <2> DEFINE h == [x \in SUBSET (1..0) |-> base]
  <2>1. \A x \in SUBSET (1..0) : x = {}
    OBVIOUS
  <2>2. h \in [SUBSET (1..0) -> A] /\ FoldsTo(h, F, base, s, 0)
    BY <2>1 DEF FoldsTo
  <2>3. Folds(0)
    BY <2>2
  <2> HIDE DEF Folds
  <2> QED BY <2>3
<1>2. ASSUME NEW n \in Nat, n \in N PROVE n + 1 \in N
  <2> SUFFICES ASSUME n + 1 <= m PROVE Folds(n + 1)
    <3>1. n + 1 \in Nat
      OBVIOUS
    <3> HIDE DEF Folds, m
    <3> QED BY <3>1
  <2>1. Folds(n)
    <3> HIDE DEF Folds, m
    <3> QED BY <1>0, <1>2
  <2>2. s[n + 1] \in B
    OBVIOUS
  <2>3. PICK h \in [SUBSET (1..n) -> A] : FoldsTo(h, F, base, s, n)
    BY <2>1
  <2>4. \E g \in [SUBSET (1..(n + 1)) -> A] : FoldsTo(g, F, base, s, n + 1)
    BY <2>2, <2>3, FoldExtends
  <2> QED BY <2>4
<1> HIDE DEF N, m
<1>3. m \in N
  BY <1>0, <1>1, <1>2, NatSetInduction
<1>4. Folds(m)
  <2> HIDE DEF Folds
  <2> QED BY <1>0, <1>3 DEF N
<1>5. PICK h \in [SUBSET (1..m) -> A] : FoldsTo(h, F, base, s, m)
  BY <1>4
<1> DEFINE k == [x \in SUBSET (1..m) |->
                   IF x = {} THEN base ELSE F[<<h[x \ {Max(x)}], s[Max(x)]>>]]
<1>6. /\ k[{}] = base
      /\ \A x \in SUBSET (1..m) : x # {} => k[x] = F[<<h[x \ {Max(x)}], s[Max(x)]>>]
  OBVIOUS
<1>7. h = k
  BY <1>5, Zenon DEF FoldsTo
<1> HIDE DEF k
<1>8. /\ h[{}] = base
      /\ \A x \in SUBSET (1..m) : x # {} => h[x] = F[<<h[x \ {Max(x)}], s[Max(x)]>>]
  BY <1>6, <1>7
<1>9. IsFold(h, A, F, base, s, m)
  BY <1>5, <1>8 DEF IsFold
<1> QED BY <1>9 DEF m

\* The fold up to k is the fold up to k - 1, and one step.
LEMMA FoldsNext ==
  ASSUME NEW h, NEW F, NEW base, NEW s, NEW n \in Nat, FoldsTo(h, F, base, s, n),
         NEW k \in Nat, k < n
  PROVE  /\ h[{}] = base
         /\ h[1..(k + 1)] = F[<<h[1..k], s[k + 1]>>]
<1>1. 1..(k + 1) \in SUBSET (1..n) /\ 1..(k + 1) # {} /\ 1..(k + 1) \in SUBSET (0..(k + 1))
  OBVIOUS
<1> DEFINE m == Max(1..(k + 1))
<1>2. m \in 1..(k + 1) /\ \A y \in 1..(k + 1) : y <= m
  <2>1. k + 1 \in Nat
    OBVIOUS
  <2> QED BY <1>1, <2>1, GreatestMember
<1>3. m = k + 1
  <2> HIDE DEF m
  <2>1. k + 1 \in 1..(k + 1)
    OBVIOUS
  <2>2. k + 1 <= m /\ m <= k + 1 /\ m \in Int
    BY <1>2, <2>1
  <2> QED BY <2>2
<1>4. (1..(k + 1)) \ {k + 1} = 1..k
  OBVIOUS
<1> HIDE DEF m
<1>5. h[1..(k + 1)] = F[<<h[(1..(k + 1)) \ {m}], s[m]>>]
  <2> DEFINE x == 1..(k + 1)
  <2>1. x \in SUBSET (1..n) /\ x # {} /\ m = Max(x)
    BY <1>1 DEF m
  <2> HIDE DEF x
  <2>2. \A y \in SUBSET (1..n) : y # {} => h[y] = F[<<h[y \ {Max(y)}], s[Max(y)]>>]
    BY FoldsAt
  <2>3. h[x] = F[<<h[x \ {Max(x)}], s[Max(x)]>>]
    BY <2>1, <2>2
  <2> QED BY <2>1, <2>3 DEF x
<1>6. h[{}] = base
  BY FoldsAt
<1> QED BY <1>3, <1>4, <1>5, <1>6

LEMMA FoldAgrees ==
  ASSUME NEW F, NEW base, NEW n \in Nat, NEW m \in Nat, n <= m, NEW g, NEW h,
         NEW s, NEW t, FoldsTo(g, F, base, s, n), FoldsTo(h, F, base, t, m),
         \A i \in 1..n : s[i] = t[i]
  PROVE  g[1..n] = h[1..n]
<1> DEFINE N == {k \in Nat : k <= n => g[1..k] = h[1..k]}
<1>1. 0 \in N
  <2>1. 1..0 = {}
    OBVIOUS
  <2>2. g[{}] = base
    BY FoldsAt
  <2>3. h[{}] = base
    BY FoldsAt
  <2> QED BY <2>1, <2>2, <2>3
<1>2. ASSUME NEW k \in Nat, k \in N PROVE k + 1 \in N
  <2> SUFFICES ASSUME k + 1 <= n PROVE g[1..(k + 1)] = h[1..(k + 1)]
    OBVIOUS
  <2>1. g[1..k] = h[1..k] /\ s[k + 1] = t[k + 1]
    BY <1>2
  <2>2. g[1..(k + 1)] = F[<<g[1..k], s[k + 1]>>]
    BY FoldsNext
  <2>3. h[1..(k + 1)] = F[<<h[1..k], t[k + 1]>>]
    BY FoldsNext
  <2> QED BY <2>1, <2>2, <2>3
<1> HIDE DEF N
<1>3. n \in N
  BY <1>1, <1>2, NatSetInduction
<1> QED BY <1>3 DEF N

LEMMA FoldAppends ==
  ASSUME NEW B, NEW s \in Seq(B), NEW e \in B, NEW F, NEW base, NEW g, NEW h,
         FoldsTo(g, F, base, s, Len(s)),
         FoldsTo(h, F, base, Append(s, e), Len(Append(s, e)))
  PROVE  h[1..Len(Append(s, e))] = F[<<g[1..Len(s)], e>>]
<1> DEFINE n == Len(s)
           t == Append(s, e)
<1>1. /\ n \in Nat /\ Len(t) = n + 1 /\ t[n + 1] = e /\ \A i \in 1..n : s[i] = t[i]
  BY AppendProperties, LenProperties
<1> HIDE DEF t, n
<1>2. FoldsTo(g, F, base, s, n) /\ FoldsTo(h, F, base, t, n + 1)
  BY <1>1 DEF n, t
<1>3. g[1..n] = h[1..n]
  <2>1. n + 1 \in Nat /\ n <= n + 1
    BY <1>1
  <2> QED BY <1>1, <1>2, <2>1, FoldAgrees
<1>4. h[1..(n + 1)] = F[<<h[1..n], t[n + 1]>>]
  BY <1>1, <1>2, FoldsNext
<1> QED BY <1>1, <1>3, <1>4 DEF n, t
=============================================================================
