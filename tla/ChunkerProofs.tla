---------------------------- MODULE ChunkerProofs ----------------------------
(***************************************************************************)
(* Proofs about Chunker.  The parser's blocks stand one after another in   *)
(* the lines read (Reading); the pieces of a block are cut from it (Cuts); *)
(* a chunk is made of whole pieces under one heading (Packs, Chain); what  *)
(* is merged stays in order and in size (Kept, Merges).                    *)
(***************************************************************************)
EXTENDS Chunker, Induction

-----------------------------------------------------------------------------
(***************************************************************************)
(* The data.                                                               *)
(***************************************************************************)

\* What the parser and the chunker handle: atoms, lines of atoms, texts of lines.
Atom == [line: Nat, part: Nat, kind: Kinds, tokens: Nat, gap: Nat, ends: BOOLEAN]

LineT == Seq(Atom)

TextT == Seq(LineT)

PathT == Seq(Titles)

BlockT == [text: TextT, heading_path: PathT, is_table: BOOLEAN]

ChunkT == [ordinal: Nat, heading_path: PathT, text: TextT, body: LineT]

-----------------------------------------------------------------------------
(***************************************************************************)
(* The size of a text.                                                     *)
(***************************************************************************)

Plus == [p \in Nat \X Atom |-> p[1] + p[2].tokens]

\* The atoms alone, as a fold: one step adds one atom.
LEMMA PlusTyped == 0 \in Nat /\ Plus \in [Nat \X Atom -> Nat]
<1>1. \A p \in Nat \X Atom : p[1] + p[2].tokens \in Nat
  BY DEF Atom
<1> QED BY <1>1 DEF Plus

\* TokensOf is the value at its whole length of a function on prefixes.
LEMMA TokensFold ==
  ASSUME NEW s \in Seq(Atom)
  PROVE  \E h : IsFold(h, Nat, Plus, 0, s, Len(s)) /\ TokensOf(s) = h[1..Len(s)]
<1> DEFINE n == Len(s)
           R(it) == it = [x \in SUBSET (DOMAIN s) |->
                            IF x = {} THEN 0
                            ELSE it[x \ {Max(x)}] + s[Max(x)].tokens]
           C == CHOOSE it : R(it)
<1>1. n \in Nat /\ n = Len(s) /\ DOMAIN s = 1..n /\ \A i \in 1..n : s[i] \in Atom
  BY LenProperties
<1> HIDE DEF n
<1>2. 0 \in Nat /\ Plus \in [Nat \X Atom -> Nat]
  BY PlusTyped
<1>3. PICK h : IsFold(h, Nat, Plus, 0, s, Len(s))
  BY <1>2, FoldExists
<1>4. /\ h \in [SUBSET (1..n) -> Nat]
      /\ FoldsTo(h, Plus, 0, s, n)
      /\ h[{}] = 0
      /\ \A x \in SUBSET (1..n) :
            x # {} => h[x] = Plus[<<h[x \ {Max(x)}], s[Max(x)]>>]
  BY <1>1, <1>3, Zenon DEF IsFold
<1>5. \A x \in SUBSET (1..n) :
        x # {} => Max(x) \in 1..n /\ x \ {Max(x)} \in SUBSET (1..n)
  <2> SUFFICES ASSUME NEW x \in SUBSET (1..n), x # {} PROVE Max(x) \in x
    OBVIOUS
  <2>1. x \in SUBSET (0..n)
    BY <1>1
  <2> QED BY <1>1, <2>1, GreatestMember
<1>6. \A a \in Nat, b \in Atom : Plus[<<a, b>>] = a + b.tokens
  BY DEF Plus
<1>7. \A x \in SUBSET (1..n) :
        h[x] = IF x = {} THEN 0 ELSE h[x \ {Max(x)}] + s[Max(x)].tokens
  <2> SUFFICES ASSUME NEW x \in SUBSET (1..n), x # {}
               PROVE  h[x] = h[x \ {Max(x)}] + s[Max(x)].tokens
    BY <1>4
  <2>1. h[x \ {Max(x)}] \in Nat /\ s[Max(x)] \in Atom
    BY <1>1, <1>4, <1>5
  <2> QED BY <1>4, <1>6, <2>1
<1>8. R(h)
  <2>1. h = [x \in SUBSET (1..n) |-> h[x]]
    BY <1>4
  <2>2. h = [x \in SUBSET (1..n) |->
              IF x = {} THEN 0 ELSE h[x \ {Max(x)}] + s[Max(x)].tokens]
    BY <1>7, <2>1
  <2> QED BY <1>1, <2>2, Zenon
<1>9. R(C)
  BY <1>8, Zenon
<1>10. TokensOf(s) = C[DOMAIN s]
  BY Zenon DEF TokensOf, FoldLeft, MapThenFoldSet
<1> HIDE DEF C
<1> DEFINE G == [p \in (Nat \X Atom) \cup {<<C[x], s[i]>> : x \in SUBSET (1..n), i \in 1..n} |->
                   p[1] + p[2].tokens]
<1>11. \A x \in SUBSET (1..n) :
         C[x] = IF x = {} THEN 0 ELSE C[x \ {Max(x)}] + s[Max(x)].tokens
  <2> DEFINE D == [x \in SUBSET (1..n) |->
                     IF x = {} THEN 0 ELSE C[x \ {Max(x)}] + s[Max(x)].tokens]
  <2>1. \A x \in SUBSET (1..n) :
         D[x] = IF x = {} THEN 0 ELSE C[x \ {Max(x)}] + s[Max(x)].tokens
    OBVIOUS
  <2>2. C = D
    BY <1>1, <1>9, Zenon
  <2> HIDE DEF D
  <2> QED BY <2>1, <2>2
<1>12. C = [x \in SUBSET (1..n) |-> C[x]]
  <2> DEFINE D == [x \in SUBSET (1..n) |->
                     IF x = {} THEN 0 ELSE C[x \ {Max(x)}] + s[Max(x)].tokens]
  <2>1. C = D
    BY <1>1, <1>9, Zenon
  <2>2. D = [x \in SUBSET (1..n) |-> D[x]]
    OBVIOUS
  <2> HIDE DEF D
  <2> QED BY <2>1, <2>2
<1>13. \A x \in SUBSET (1..n), i \in 1..n : G[<<C[x], s[i]>>] = C[x] + s[i].tokens
  OBVIOUS
<1>14. \A a \in Nat, b \in Atom : G[<<a, b>>] = a + b.tokens
  OBVIOUS
<1> HIDE DEF G
<1>15. FoldsTo(C, G, 0, s, n)
  <2>1. \A x \in SUBSET (1..n) :
          C[x] = IF x = {} THEN 0 ELSE G[<<C[x \ {Max(x)}], s[Max(x)]>>]
    BY <1>5, <1>11, <1>13
  <2> QED BY <1>12, <2>1 DEF FoldsTo
<1>16. FoldsTo(h, G, 0, s, n)
  <2>1. \A x \in SUBSET (1..n) :
          h[x] = IF x = {} THEN 0 ELSE G[<<h[x \ {Max(x)}], s[Max(x)]>>]
    <3> SUFFICES ASSUME NEW x \in SUBSET (1..n), x # {}
                 PROVE  h[x] = G[<<h[x \ {Max(x)}], s[Max(x)]>>]
      BY <1>7
    <3>1. h[x \ {Max(x)}] \in Nat /\ s[Max(x)] \in Atom
      BY <1>1, <1>4, <1>5
    <3> QED BY <1>7, <1>14, <3>1
  <2>2. h = [x \in SUBSET (1..n) |-> h[x]]
    BY <1>4
  <2> QED BY <2>1, <2>2 DEF FoldsTo
<1>17. C[1..n] = h[1..n]
  <2>1. n <= n /\ \A i \in 1..n : s[i] = s[i]
    BY <1>1
  <2> QED BY <1>1, <1>15, <1>16, <2>1, FoldAgrees
<1> QED BY <1>1, <1>3, <1>10, <1>17

\* So the size of an empty text is 0, an atom adds its own, and sizes add up.
LEMMA TokensTyped ==
  ASSUME NEW s \in Seq(Atom)
  PROVE  TokensOf(s) \in Nat
<1>1. PICK h : IsFold(h, Nat, Plus, 0, s, Len(s)) /\ TokensOf(s) = h[1..Len(s)]
  BY TokensFold
<1>2. 1..Len(s) \in SUBSET (1..Len(s)) /\ h \in [SUBSET (1..Len(s)) -> Nat]
  BY <1>1, Zenon DEF IsFold
<1> QED BY <1>1, <1>2, Zenon

LEMMA TokensEmpty ==
  TokensOf(<<>>) = 0
<1>1. <<>> \in Seq(Atom) /\ 1..Len(<<>>) = {}
  OBVIOUS
<1>2. PICK h : IsFold(h, Nat, Plus, 0, <<>>, Len(<<>>)) /\ TokensOf(<<>>) = h[1..Len(<<>>)]
  BY <1>1, TokensFold
<1>3. h[{}] = 0
  BY <1>2, Zenon DEF IsFold
<1> QED BY <1>1, <1>2, <1>3, Zenon

LEMMA TokensAppend ==
  ASSUME NEW s \in Seq(Atom), NEW e \in Atom
  PROVE  TokensOf(Append(s, e)) = TokensOf(s) + e.tokens
<1> DEFINE t == Append(s, e)
<1>1. t \in Seq(Atom)
  BY AppendProperties
<1>2. PICK h : IsFold(h, Nat, Plus, 0, s, Len(s)) /\ TokensOf(s) = h[1..Len(s)]
  BY TokensFold
<1>3. PICK g : IsFold(g, Nat, Plus, 0, t, Len(t)) /\ TokensOf(t) = g[1..Len(t)]
  <2> HIDE DEF t
  <2> QED BY <1>1, TokensFold
<1>4. FoldsTo(h, Plus, 0, s, Len(s)) /\ FoldsTo(g, Plus, 0, t, Len(t))
  BY <1>2, <1>3, Zenon DEF IsFold
<1>5. g[1..Len(t)] = Plus[<<h[1..Len(s)], e>>]
  BY <1>4, FoldAppends
<1>6. TokensOf(s) \in Nat
  BY TokensTyped
<1>7. \A a \in Nat, b \in Atom : Plus[<<a, b>>] = a + b.tokens
  BY DEF Plus
<1>8. Plus[<<TokensOf(s), e>>] = TokensOf(s) + e.tokens
  BY <1>6, <1>7, Zenon
<1> HIDE DEF t
<1>9. TokensOf(t) = TokensOf(s) + e.tokens
  BY <1>2, <1>3, <1>5, <1>8, Zenon
<1> QED BY <1>9, Zenon DEF t

LEMMA TokensConcat ==
  ASSUME NEW s \in LineT
  PROVE  \A t \in LineT : TokensOf(s \o t) = TokensOf(s) + TokensOf(t)
<1> DEFINE S == {t \in LineT : TokensOf(s \o t) = TokensOf(s) + TokensOf(t)}
<1>0. s \in Seq(Atom) /\ TokensOf(s) \in Nat
  BY TokensTyped DEF LineT
<1>1. <<>> \in S
  <2>1. <<>> \in LineT
    BY DEF LineT
  <2>2. s \o <<>> = s
    BY <1>0, ConcatEmptySeq
  <2> QED BY <1>0, <2>1, <2>2, TokensEmpty
<1>2. ASSUME NEW t \in Seq(Atom), NEW e \in Atom, t \in S PROVE Append(t, e) \in S
  <2>1. /\ Append(t, e) \in Seq(Atom) /\ s \o t \in Seq(Atom)
        /\ s \o Append(t, e) = Append(s \o t, e)
    <3>1. Append(t, e) \in Seq(Atom) /\ s \o t \in Seq(Atom)
      BY <1>0, AppendProperties, ConcatProperties
    <3>2. <<e>> \in Seq(Atom) /\ Append(t, e) = t \o <<e>> /\ Append(s \o t, e) = (s \o t) \o <<e>>
      BY <3>1, AppendIsConcat
    <3>3. s \o (t \o <<e>>) = (s \o t) \o <<e>>
      BY <1>0, <3>2, ConcatAssociative
    <3> QED BY <3>1, <3>2, <3>3
  <2>2. TokensOf(Append(t, e)) = TokensOf(t) + e.tokens
    BY TokensAppend
  <2>3. TokensOf(Append(s \o t, e)) = TokensOf(s \o t) + e.tokens
    BY <2>1, TokensAppend
  <2>4. TokensOf(t) \in Nat /\ e.tokens \in Nat
    BY TokensTyped DEF Atom
  <2>5. TokensOf(s \o t) = TokensOf(s) + TokensOf(t)
    BY <1>2
  <2>6. TokensOf(s \o Append(t, e)) = TokensOf(s) + TokensOf(Append(t, e))
    BY <1>0, <2>1, <2>2, <2>3, <2>4, <2>5
  <2> QED BY <2>1, <2>6 DEF LineT
<1> HIDE DEF S
<1>3. \A t \in Seq(Atom) : t \in S
  BY <1>1, <1>2, SeqInduction
<1> QED BY <1>3 DEF S, LineT

\* One atom more, as count_tokens counts it (chunker.py:63-68).
CountOne(n, a) == IF n = 0 THEN a.tokens ELSE n + a.gap + a.tokens

Counting == [p \in Nat \X Atom |-> CountOne(p[1], p[2])]

LEMMA CountingTyped == 0 \in Nat /\ Counting \in [Nat \X Atom -> Nat]
<1>1. \A p \in Nat \X Atom : CountOne(p[1], p[2]) \in Nat
  BY DEF Atom, CountOne
<1> QED BY <1>1 DEF Counting

LEMMA CountFold ==
  ASSUME NEW s \in Seq(Atom)
  PROVE  \E h : /\ IsFold(h, Nat, Counting, 0, s, Len(s))
                /\ CountTokens(s) = h[1..Len(s)]
<1> DEFINE n == Len(s)
           R(it) == it = [x \in SUBSET (DOMAIN s) |->
                            IF x = {} THEN 0
                            ELSE CountOne(it[x \ {Max(x)}], s[Max(x)])]
           C == CHOOSE it : R(it)
<1>1. n \in Nat /\ n = Len(s) /\ DOMAIN s = 1..n /\ \A i \in 1..n : s[i] \in Atom
  BY LenProperties
<1> HIDE DEF n
<1>2. 0 \in Nat /\ Counting \in [Nat \X Atom -> Nat]
  BY CountingTyped
<1>3. PICK h : IsFold(h, Nat, Counting, 0, s, Len(s))
  BY <1>2, FoldExists
<1>4. /\ h \in [SUBSET (1..n) -> Nat]
      /\ FoldsTo(h, Counting, 0, s, n)
      /\ h[{}] = 0
      /\ \A x \in SUBSET (1..n) :
            x # {} => h[x] = Counting[<<h[x \ {Max(x)}], s[Max(x)]>>]
  BY <1>1, <1>3, Zenon DEF IsFold
<1>5. \A x \in SUBSET (1..n) :
        x # {} => Max(x) \in 1..n /\ x \ {Max(x)} \in SUBSET (1..n)
  <2> SUFFICES ASSUME NEW x \in SUBSET (1..n), x # {} PROVE Max(x) \in x
    OBVIOUS
  <2>1. x \in SUBSET (0..n)
    BY <1>1
  <2> QED BY <1>1, <2>1, GreatestMember
<1>6. \A a \in Nat, b \in Atom : Counting[<<a, b>>] = CountOne(a, b)
  BY DEF Counting
<1>7. \A x \in SUBSET (1..n) :
        h[x] = IF x = {} THEN 0 ELSE CountOne(h[x \ {Max(x)}], s[Max(x)])
  <2> SUFFICES ASSUME NEW x \in SUBSET (1..n), x # {}
               PROVE  h[x] = CountOne(h[x \ {Max(x)}], s[Max(x)])
    BY <1>4
  <2>1. h[x \ {Max(x)}] \in Nat /\ s[Max(x)] \in Atom
    BY <1>1, <1>4, <1>5
  <2> QED BY <1>4, <1>6, <2>1
<1>8. R(h)
  <2>1. h = [x \in SUBSET (1..n) |-> h[x]]
    BY <1>4
  <2>2. h = [x \in SUBSET (1..n) |->
              IF x = {} THEN 0 ELSE CountOne(h[x \ {Max(x)}], s[Max(x)])]
    BY <1>7, <2>1
  <2> QED BY <1>1, <2>2, Zenon
<1>9. R(C)
  BY <1>8, Zenon
<1>10. CountTokens(s) = C[DOMAIN s]
  BY Zenon DEF CountTokens, CountOne, FoldLeft, MapThenFoldSet
<1> HIDE DEF C
<1> DEFINE G == [p \in (Nat \X Atom) \cup {<<C[x], s[i]>> : x \in SUBSET (1..n), i \in 1..n} |->
                   CountOne(p[1], p[2])]
<1>11. \A x \in SUBSET (1..n) :
         C[x] = IF x = {} THEN 0 ELSE CountOne(C[x \ {Max(x)}], s[Max(x)])
  <2> DEFINE D == [x \in SUBSET (1..n) |->
                     IF x = {} THEN 0 ELSE CountOne(C[x \ {Max(x)}], s[Max(x)])]
  <2>1. \A x \in SUBSET (1..n) :
         D[x] = IF x = {} THEN 0 ELSE CountOne(C[x \ {Max(x)}], s[Max(x)])
    OBVIOUS
  <2>2. C = D
    BY <1>1, <1>9, Zenon
  <2> HIDE DEF D
  <2> QED BY <2>1, <2>2
<1>12. C = [x \in SUBSET (1..n) |-> C[x]]
  <2> DEFINE D == [x \in SUBSET (1..n) |->
                     IF x = {} THEN 0 ELSE CountOne(C[x \ {Max(x)}], s[Max(x)])]
  <2>1. C = D
    BY <1>1, <1>9, Zenon
  <2>2. D = [x \in SUBSET (1..n) |-> D[x]]
    OBVIOUS
  <2> HIDE DEF D
  <2> QED BY <2>1, <2>2
<1>13. \A x \in SUBSET (1..n), i \in 1..n : G[<<C[x], s[i]>>] = CountOne(C[x], s[i])
  OBVIOUS
<1>14. \A a \in Nat, b \in Atom : G[<<a, b>>] = CountOne(a, b)
  OBVIOUS
<1> HIDE DEF G
<1>15. FoldsTo(C, G, 0, s, n)
  <2>1. \A x \in SUBSET (1..n) :
          C[x] = IF x = {} THEN 0 ELSE G[<<C[x \ {Max(x)}], s[Max(x)]>>]
    BY <1>5, <1>11, <1>13
  <2> QED BY <1>12, <2>1 DEF FoldsTo
<1>16. FoldsTo(h, G, 0, s, n)
  <2>1. \A x \in SUBSET (1..n) :
          h[x] = IF x = {} THEN 0 ELSE G[<<h[x \ {Max(x)}], s[Max(x)]>>]
    <3> SUFFICES ASSUME NEW x \in SUBSET (1..n), x # {}
                 PROVE  h[x] = G[<<h[x \ {Max(x)}], s[Max(x)]>>]
      BY <1>7
    <3>1. h[x \ {Max(x)}] \in Nat /\ s[Max(x)] \in Atom
      BY <1>1, <1>4, <1>5
    <3> QED BY <1>7, <1>14, <3>1
  <2>2. h = [x \in SUBSET (1..n) |-> h[x]]
    BY <1>4
  <2> QED BY <2>1, <2>2 DEF FoldsTo
<1>17. C[1..n] = h[1..n]
  <2>1. n <= n /\ \A i \in 1..n : s[i] = s[i]
    BY <1>1
  <2> QED BY <1>1, <1>15, <1>16, <2>1, FoldAgrees
<1> QED BY <1>1, <1>3, <1>10, <1>17

LEMMA CountTyped ==
  ASSUME NEW s \in Seq(Atom)
  PROVE  CountTokens(s) \in Nat
<1>1. PICK h : IsFold(h, Nat, Counting, 0, s, Len(s)) /\ CountTokens(s) = h[1..Len(s)]
  BY CountFold
<1>2. 1..Len(s) \in SUBSET (1..Len(s)) /\ h \in [SUBSET (1..Len(s)) -> Nat]
  BY <1>1, Zenon DEF IsFold
<1> QED BY <1>1, <1>2, Zenon

LEMMA CountEmpty ==
  CountTokens(<<>>) = 0
<1>1. <<>> \in Seq(Atom) /\ 1..Len(<<>>) = {}
  OBVIOUS
<1>2. PICK h : IsFold(h, Nat, Counting, 0, <<>>, Len(<<>>)) /\ CountTokens(<<>>) = h[1..Len(<<>>)]
  BY <1>1, CountFold
<1>3. h[{}] = 0
  BY <1>2, Zenon DEF IsFold
<1> QED BY <1>1, <1>2, <1>3, Zenon

LEMMA CountAppend ==
  ASSUME NEW s \in Seq(Atom), NEW e \in Atom
  PROVE  CountTokens(Append(s, e)) = CountOne(CountTokens(s), e)
<1> DEFINE t == Append(s, e)
<1>1. t \in Seq(Atom)
  BY AppendProperties
<1>2. PICK h : IsFold(h, Nat, Counting, 0, s, Len(s)) /\ CountTokens(s) = h[1..Len(s)]
  BY CountFold
<1>3. PICK g : IsFold(g, Nat, Counting, 0, t, Len(t)) /\ CountTokens(t) = g[1..Len(t)]
  <2> HIDE DEF t
  <2> QED BY <1>1, CountFold
<1>4. FoldsTo(h, Counting, 0, s, Len(s)) /\ FoldsTo(g, Counting, 0, t, Len(t))
  BY <1>2, <1>3, Zenon DEF IsFold
<1>5. g[1..Len(t)] = Counting[<<h[1..Len(s)], e>>]
  BY <1>4, FoldAppends
<1>6. CountTokens(s) \in Nat
  BY CountTyped
<1>7. \A a \in Nat, b \in Atom : Counting[<<a, b>>] = CountOne(a, b)
  BY DEF Counting
<1>8. Counting[<<CountTokens(s), e>>] = CountOne(CountTokens(s), e)
  BY <1>6, <1>7, Zenon
<1> HIDE DEF t
<1>9. CountTokens(t) = CountOne(CountTokens(s), e)
  BY <1>2, <1>3, <1>5, <1>8, Zenon
<1> QED BY <1>9, Zenon DEF t

\* What joins the atoms never costs less than nothing.
LEMMA CountAtLeast ==
  \A s \in LineT : TokensOf(s) <= CountTokens(s)
<1> DEFINE S == {s \in LineT : TokensOf(s) <= CountTokens(s)}
<1>1. <<>> \in S
  <2>1. <<>> \in LineT
    BY DEF LineT
  <2> QED BY <2>1, TokensEmpty, CountEmpty
<1>2. ASSUME NEW s \in Seq(Atom), NEW e \in Atom, s \in S PROVE Append(s, e) \in S
  <2>1. Append(s, e) \in LineT
    BY AppendProperties DEF LineT
  <2>2. TokensOf(s) \in Nat /\ CountTokens(s) \in Nat /\ e.tokens \in Nat /\ e.gap \in Nat
    BY TokensTyped, CountTyped DEF Atom
  <2>3. TokensOf(Append(s, e)) = TokensOf(s) + e.tokens
    BY TokensAppend
  <2>4. CountTokens(Append(s, e))
          = IF CountTokens(s) = 0 THEN e.tokens ELSE CountTokens(s) + e.gap + e.tokens
    BY CountAppend DEF CountOne
  <2>5. TokensOf(s) <= CountTokens(s)
    BY <1>2
  <2>6. TokensOf(Append(s, e)) <= CountTokens(Append(s, e))
    BY <2>2, <2>3, <2>4, <2>5
  <2> QED BY <2>1, <2>6
<1> HIDE DEF S
<1>3. \A s \in Seq(Atom) : s \in S
  BY <1>1, <1>2, SeqInduction
<1> QED BY <1>3 DEF S, LineT

LEMMA CountConcat ==
  ASSUME NEW s \in LineT
  PROVE  \A t \in LineT : CountTokens(s) + CountTokens(t) <= CountTokens(s \o t)
<1> DEFINE S == {t \in LineT : CountTokens(s) + CountTokens(t) <= CountTokens(s \o t)}
<1>0. s \in Seq(Atom) /\ CountTokens(s) \in Nat
  BY CountTyped DEF LineT
<1>1. <<>> \in S
  <2>1. <<>> \in LineT
    BY DEF LineT
  <2>2. s \o <<>> = s
    BY <1>0, ConcatEmptySeq
  <2> QED BY <1>0, <2>1, <2>2, CountEmpty
<1>2. ASSUME NEW t \in Seq(Atom), NEW e \in Atom, t \in S PROVE Append(t, e) \in S
  <2>1. /\ Append(t, e) \in Seq(Atom) /\ s \o t \in Seq(Atom)
        /\ s \o Append(t, e) = Append(s \o t, e)
    <3>1. Append(t, e) \in Seq(Atom) /\ s \o t \in Seq(Atom)
      BY <1>0, AppendProperties, ConcatProperties
    <3>2. <<e>> \in Seq(Atom) /\ Append(t, e) = t \o <<e>> /\ Append(s \o t, e) = (s \o t) \o <<e>>
      BY <3>1, AppendIsConcat
    <3>3. s \o (t \o <<e>>) = (s \o t) \o <<e>>
      BY <1>0, <3>2, ConcatAssociative
    <3> QED BY <3>1, <3>2, <3>3
  <2>2. CountTokens(Append(t, e))
          = IF CountTokens(t) = 0 THEN e.tokens ELSE CountTokens(t) + e.gap + e.tokens
    BY CountAppend DEF CountOne
  <2>3. CountTokens(Append(s \o t, e))
          = IF CountTokens(s \o t) = 0 THEN e.tokens
            ELSE CountTokens(s \o t) + e.gap + e.tokens
    BY <2>1, CountAppend DEF CountOne
  <2>4. /\ CountTokens(t) \in Nat /\ CountTokens(s \o t) \in Nat
        /\ e.tokens \in Nat /\ e.gap \in Nat
    BY <2>1, CountTyped DEF Atom
  <2>5. CountTokens(s) + CountTokens(t) <= CountTokens(s \o t)
    BY <1>2
  <2>6. CountTokens(s) + CountTokens(Append(t, e)) <= CountTokens(s \o Append(t, e))
    BY <1>0, <2>1, <2>2, <2>3, <2>4, <2>5
  <2> QED BY <2>1, <2>6 DEF LineT
<1> HIDE DEF S
<1>3. \A t \in Seq(Atom) : t \in S
  BY <1>1, <1>2, SeqInduction
<1> QED BY <1>3 DEF S, LineT

\* A text and its atoms.
LEMMA FlatTyped ==
  ASSUME NEW t \in TextT
  PROVE  FlattenSeq(t) \in LineT
BY FlattenTyped DEF TextT, LineT

LEMMA FlatConcat ==
  ASSUME NEW t \in TextT, NEW u \in TextT
  PROVE  t \o u \in TextT /\ FlattenSeq(t \o u) = FlattenSeq(t) \o FlattenSeq(u)
<1>1. t \in Seq(Seq(Atom)) /\ u \in Seq(Seq(Atom))
  BY DEF TextT, LineT
<1>2. FlattenSeq(t \o u) = FlattenSeq(t) \o FlattenSeq(u)
  BY <1>1, FlattenConcat
<1>3. t \o u \in TextT
  BY ConcatProperties DEF TextT
<1> QED BY <1>2, <1>3

LEMMA FlatAppend ==
  ASSUME NEW t \in TextT, NEW l \in LineT
  PROVE  Append(t, l) \in TextT /\ FlattenSeq(Append(t, l)) = FlattenSeq(t) \o l
<1>1. t \in Seq(Seq(Atom)) /\ l \in Seq(Atom)
  BY DEF TextT, LineT
<1>2. FlattenSeq(Append(t, l)) = FlattenSeq(t) \o l
  BY <1>1, FlattenAppend
<1>3. Append(t, l) \in TextT
  BY AppendProperties DEF TextT
<1> QED BY <1>2, <1>3

LEMMA FlatSingle ==
  ASSUME NEW l \in LineT
  PROVE  <<l>> \in TextT /\ FlattenSeq(<<l>>) = l
<1>1. <<l>> \in TextT
  BY DEF TextT
<1>2. FlattenSeq(<<l>>) = l
  BY FlattenSingle DEF LineT
<1> QED BY <1>1, <1>2

LEMMA FlatEmpty ==
  <<>> \in TextT /\ <<>> \in LineT /\ FlattenSeq(<<>>) = <<>>
<1>1. <<>> \in TextT /\ <<>> \in LineT
  BY DEF TextT, LineT
<1> QED BY <1>1, FlattenEmpty

\* The sums the code keeps while it goes through the parts of a text.
SumOne(n, part) == n + CountTokens(part)

Summing == [p \in Nat \X LineT |-> SumOne(p[1], p[2])]

LEMMA SummingTyped == 0 \in Nat /\ Summing \in [Nat \X LineT -> Nat]
<1>1. \A p \in Nat \X LineT : SumOne(p[1], p[2]) \in Nat
  BY CountTyped DEF SumOne, LineT
<1> QED BY <1>1 DEF Summing

LEMMA TogetherFold ==
  ASSUME NEW s \in Seq(LineT)
  PROVE  \E h : /\ IsFold(h, Nat, Summing, 0, s, Len(s))
                /\ Together(s) = h[1..Len(s)]
<1> DEFINE n == Len(s)
           R(it) == it = [x \in SUBSET (DOMAIN s) |->
                            IF x = {} THEN 0
                            ELSE SumOne(it[x \ {Max(x)}], s[Max(x)])]
           C == CHOOSE it : R(it)
<1>1. n \in Nat /\ n = Len(s) /\ DOMAIN s = 1..n /\ \A i \in 1..n : s[i] \in LineT
  BY LenProperties
<1> HIDE DEF n
<1>2. 0 \in Nat /\ Summing \in [Nat \X LineT -> Nat]
  BY SummingTyped
<1>3. PICK h : IsFold(h, Nat, Summing, 0, s, Len(s))
  BY <1>2, FoldExists
<1>4. /\ h \in [SUBSET (1..n) -> Nat]
      /\ FoldsTo(h, Summing, 0, s, n)
      /\ h[{}] = 0
      /\ \A x \in SUBSET (1..n) :
            x # {} => h[x] = Summing[<<h[x \ {Max(x)}], s[Max(x)]>>]
  BY <1>1, <1>3, Zenon DEF IsFold
<1>5. \A x \in SUBSET (1..n) :
        x # {} => Max(x) \in 1..n /\ x \ {Max(x)} \in SUBSET (1..n)
  <2> SUFFICES ASSUME NEW x \in SUBSET (1..n), x # {} PROVE Max(x) \in x
    OBVIOUS
  <2>1. x \in SUBSET (0..n)
    BY <1>1
  <2> QED BY <1>1, <2>1, GreatestMember
<1>6. \A a \in Nat, b \in LineT : Summing[<<a, b>>] = SumOne(a, b)
  BY DEF Summing
<1>7. \A x \in SUBSET (1..n) :
        h[x] = IF x = {} THEN 0 ELSE SumOne(h[x \ {Max(x)}], s[Max(x)])
  <2> SUFFICES ASSUME NEW x \in SUBSET (1..n), x # {}
               PROVE  h[x] = SumOne(h[x \ {Max(x)}], s[Max(x)])
    BY <1>4
  <2>1. h[x \ {Max(x)}] \in Nat /\ s[Max(x)] \in LineT
    BY <1>1, <1>4, <1>5
  <2> QED BY <1>4, <1>6, <2>1
<1>8. R(h)
  <2>1. h = [x \in SUBSET (1..n) |-> h[x]]
    BY <1>4
  <2>2. h = [x \in SUBSET (1..n) |->
              IF x = {} THEN 0 ELSE SumOne(h[x \ {Max(x)}], s[Max(x)])]
    BY <1>7, <2>1
  <2> QED BY <1>1, <2>2, Zenon
<1>9. R(C)
  BY <1>8, Zenon
<1>10. Together(s) = C[DOMAIN s]
  BY Zenon DEF Together, SumOne, FoldLeft, MapThenFoldSet
<1> HIDE DEF C
<1> DEFINE G == [p \in (Nat \X LineT) \cup {<<C[x], s[i]>> : x \in SUBSET (1..n), i \in 1..n} |->
                   SumOne(p[1], p[2])]
<1>11. \A x \in SUBSET (1..n) :
         C[x] = IF x = {} THEN 0 ELSE SumOne(C[x \ {Max(x)}], s[Max(x)])
  <2> DEFINE D == [x \in SUBSET (1..n) |->
                     IF x = {} THEN 0 ELSE SumOne(C[x \ {Max(x)}], s[Max(x)])]
  <2>1. \A x \in SUBSET (1..n) :
         D[x] = IF x = {} THEN 0 ELSE SumOne(C[x \ {Max(x)}], s[Max(x)])
    OBVIOUS
  <2>2. C = D
    BY <1>1, <1>9, Zenon
  <2> HIDE DEF D
  <2> QED BY <2>1, <2>2
<1>12. C = [x \in SUBSET (1..n) |-> C[x]]
  <2> DEFINE D == [x \in SUBSET (1..n) |->
                     IF x = {} THEN 0 ELSE SumOne(C[x \ {Max(x)}], s[Max(x)])]
  <2>1. C = D
    BY <1>1, <1>9, Zenon
  <2>2. D = [x \in SUBSET (1..n) |-> D[x]]
    OBVIOUS
  <2> HIDE DEF D
  <2> QED BY <2>1, <2>2
<1>13. \A x \in SUBSET (1..n), i \in 1..n : G[<<C[x], s[i]>>] = SumOne(C[x], s[i])
  OBVIOUS
<1>14. \A a \in Nat, b \in LineT : G[<<a, b>>] = SumOne(a, b)
  OBVIOUS
<1> HIDE DEF G
<1>15. FoldsTo(C, G, 0, s, n)
  <2>1. \A x \in SUBSET (1..n) :
          C[x] = IF x = {} THEN 0 ELSE G[<<C[x \ {Max(x)}], s[Max(x)]>>]
    BY <1>5, <1>11, <1>13
  <2> QED BY <1>12, <2>1 DEF FoldsTo
<1>16. FoldsTo(h, G, 0, s, n)
  <2>1. \A x \in SUBSET (1..n) :
          h[x] = IF x = {} THEN 0 ELSE G[<<h[x \ {Max(x)}], s[Max(x)]>>]
    <3> SUFFICES ASSUME NEW x \in SUBSET (1..n), x # {}
                 PROVE  h[x] = G[<<h[x \ {Max(x)}], s[Max(x)]>>]
      BY <1>7
    <3>1. h[x \ {Max(x)}] \in Nat /\ s[Max(x)] \in LineT
      BY <1>1, <1>4, <1>5
    <3> QED BY <1>7, <1>14, <3>1
  <2>2. h = [x \in SUBSET (1..n) |-> h[x]]
    BY <1>4
  <2> QED BY <2>1, <2>2 DEF FoldsTo
<1>17. C[1..n] = h[1..n]
  <2>1. n <= n /\ \A i \in 1..n : s[i] = s[i]
    BY <1>1
  <2> QED BY <1>1, <1>15, <1>16, <2>1, FoldAgrees
<1> QED BY <1>1, <1>3, <1>10, <1>17

LEMMA TogetherTyped ==
  ASSUME NEW s \in Seq(LineT)
  PROVE  Together(s) \in Nat
<1>1. PICK h : IsFold(h, Nat, Summing, 0, s, Len(s)) /\ Together(s) = h[1..Len(s)]
  BY TogetherFold
<1>2. 1..Len(s) \in SUBSET (1..Len(s)) /\ h \in [SUBSET (1..Len(s)) -> Nat]
  BY <1>1, Zenon DEF IsFold
<1> QED BY <1>1, <1>2, Zenon

LEMMA TogetherEmpty ==
  Together(<<>>) = 0
<1>1. <<>> \in Seq(LineT) /\ 1..Len(<<>>) = {}
  OBVIOUS
<1>2. PICK h : IsFold(h, Nat, Summing, 0, <<>>, Len(<<>>)) /\ Together(<<>>) = h[1..Len(<<>>)]
  BY <1>1, TogetherFold
<1>3. h[{}] = 0
  BY <1>2, Zenon DEF IsFold
<1> QED BY <1>1, <1>2, <1>3, Zenon

LEMMA TogetherAppend ==
  ASSUME NEW s \in Seq(LineT), NEW e \in LineT
  PROVE  Together(Append(s, e)) = SumOne(Together(s), e)
<1> DEFINE t == Append(s, e)
<1>1. t \in Seq(LineT)
  BY AppendProperties
<1>2. PICK h : IsFold(h, Nat, Summing, 0, s, Len(s)) /\ Together(s) = h[1..Len(s)]
  BY TogetherFold
<1>3. PICK g : IsFold(g, Nat, Summing, 0, t, Len(t)) /\ Together(t) = g[1..Len(t)]
  <2> HIDE DEF t
  <2> QED BY <1>1, TogetherFold
<1>4. FoldsTo(h, Summing, 0, s, Len(s)) /\ FoldsTo(g, Summing, 0, t, Len(t))
  BY <1>2, <1>3, Zenon DEF IsFold
<1>5. g[1..Len(t)] = Summing[<<h[1..Len(s)], e>>]
  BY <1>4, FoldAppends
<1>6. Together(s) \in Nat
  BY TogetherTyped
<1>7. \A a \in Nat, b \in LineT : Summing[<<a, b>>] = SumOne(a, b)
  BY DEF Summing
<1>8. Summing[<<Together(s), e>>] = SumOne(Together(s), e)
  BY <1>6, <1>7, Zenon
<1> HIDE DEF t
<1>9. Together(t) = SumOne(Together(s), e)
  BY <1>2, <1>3, <1>5, <1>8, Zenon
<1> QED BY <1>9, Zenon DEF t

\* A sum of parts lies between the atoms alone and the text they make.
LEMMA TogetherBetween ==
  \A t \in TextT : /\ Together(t) \in Nat
                   /\ TokensOf(FlattenSeq(t)) <= Together(t)
                   /\ Together(t) <= CountTokens(FlattenSeq(t))
<1> DEFINE Between(t) == /\ Together(t) \in Nat
                         /\ TokensOf(FlattenSeq(t)) <= Together(t)
                         /\ Together(t) <= CountTokens(FlattenSeq(t))
           S == {t \in TextT : Between(t)}
<1>1. <<>> \in S
  BY FlatEmpty, TogetherEmpty, TokensEmpty, CountEmpty
<1>2. ASSUME NEW t \in Seq(LineT), NEW e \in LineT, t \in S PROVE Append(t, e) \in S
  <2>1. t \in TextT /\ e \in Seq(Atom) /\ FlattenSeq(t) \in LineT /\ FlattenSeq(t) \in Seq(Atom)
    BY <1>2, FlatTyped DEF LineT
  <2>2. Append(t, e) \in TextT /\ FlattenSeq(Append(t, e)) = FlattenSeq(t) \o e
    BY <2>1, FlatAppend
  <2>3. Together(Append(t, e)) = Together(t) + CountTokens(e)
    BY TogetherAppend DEF SumOne
  <2>4. TokensOf(FlattenSeq(t) \o e) = TokensOf(FlattenSeq(t)) + TokensOf(e)
    BY <2>1, TokensConcat
  <2>5. CountTokens(FlattenSeq(t)) + CountTokens(e) <= CountTokens(FlattenSeq(t) \o e)
    BY <2>1, CountConcat
  <2>6. TokensOf(e) <= CountTokens(e)
    BY CountAtLeast
  <2>7. /\ TokensOf(e) \in Nat /\ TokensOf(FlattenSeq(t)) \in Nat
        /\ CountTokens(e) \in Nat /\ CountTokens(FlattenSeq(t)) \in Nat
        /\ CountTokens(FlattenSeq(t) \o e) \in Nat
    BY <2>1, TokensTyped, CountTyped, ConcatProperties
  <2>8. Between(t)
    BY <1>2
  <2>9. Between(Append(t, e))
    BY <2>2, <2>3, <2>4, <2>5, <2>6, <2>7, <2>8
  <2> QED BY <2>2, <2>9
<1> HIDE DEF S
<1>3. \A t \in Seq(LineT) : t \in S
  BY <1>1, <1>2, SeqInduction
<1> QED BY <1>3 DEF S, TextT

-----------------------------------------------------------------------------
(***************************************************************************)
(* Groups.                                                                 *)
(***************************************************************************)

GroupsT == Seq(TextT)

\* One item more, as _split_table and _split_prose take it (chunker.py:152-168).
PutItem(overhead, groups, item) ==
  IF /\ groups # <<>>
     /\ overhead + Together(Last(groups)) + CountTokens(item) <= TARGET_TOKENS
    THEN Append(Front(groups), Append(Last(groups), item))
    ELSE Append(groups, <<item>>)

Putting(overhead) == [p \in GroupsT \X LineT |-> PutItem(overhead, p[1], p[2])]

\* Packed, too, is a fold; its step is PutItem.
LEMMA PutItemTyped ==
  ASSUME NEW overhead \in Nat, NEW groups \in GroupsT, NEW item \in LineT
  PROVE  PutItem(overhead, groups, item) \in GroupsT
<1>1. <<item>> \in TextT
  BY FlatSingle
<1>2. Append(groups, <<item>>) \in GroupsT
  BY <1>1, AppendProperties DEF GroupsT
<1>3. ASSUME groups # <<>>
      PROVE  Append(Front(groups), Append(Last(groups), item)) \in GroupsT
  <2>1. Front(groups) \in GroupsT /\ Last(groups) \in TextT
    BY <1>3, FrontAndLast DEF GroupsT
  <2>2. Append(Last(groups), item) \in TextT
    BY <2>1, FlatAppend
  <2> QED BY <2>1, <2>2, AppendProperties DEF GroupsT
<1> QED BY <1>2, <1>3 DEF PutItem

LEMMA PuttingTyped ==
  ASSUME NEW overhead \in Nat
  PROVE  <<>> \in GroupsT /\ Putting(overhead) \in [GroupsT \X LineT -> GroupsT]
<1>1. <<>> \in GroupsT
  BY DEF GroupsT
<1>2. \A p \in GroupsT \X LineT : PutItem(overhead, p[1], p[2]) \in GroupsT
  BY PutItemTyped
<1> QED BY <1>1, <1>2 DEF Putting

LEMMA PackedFold ==
  ASSUME NEW overhead \in Nat, NEW s \in Seq(LineT)
  PROVE  \E h : /\ IsFold(h, GroupsT, Putting(overhead), <<>>, s, Len(s))
                /\ Packed(s, overhead) = h[1..Len(s)]
<1> DEFINE n == Len(s)
           R(it) == it = [x \in SUBSET (DOMAIN s) |->
                            IF x = {} THEN <<>>
                            ELSE PutItem(overhead, it[x \ {Max(x)}], s[Max(x)])]
           C == CHOOSE it : R(it)
<1>1. n \in Nat /\ n = Len(s) /\ DOMAIN s = 1..n /\ \A i \in 1..n : s[i] \in LineT
  BY LenProperties
<1> HIDE DEF n
<1>2. <<>> \in GroupsT /\ Putting(overhead) \in [GroupsT \X LineT -> GroupsT]
  BY PuttingTyped
<1>3. PICK h : IsFold(h, GroupsT, Putting(overhead), <<>>, s, Len(s))
  BY <1>2, FoldExists
<1>4. /\ h \in [SUBSET (1..n) -> GroupsT]
      /\ FoldsTo(h, Putting(overhead), <<>>, s, n)
      /\ h[{}] = <<>>
      /\ \A x \in SUBSET (1..n) :
            x # {} => h[x] = Putting(overhead)[<<h[x \ {Max(x)}], s[Max(x)]>>]
  BY <1>1, <1>3, Zenon DEF IsFold
<1>5. \A x \in SUBSET (1..n) :
        x # {} => Max(x) \in 1..n /\ x \ {Max(x)} \in SUBSET (1..n)
  <2> SUFFICES ASSUME NEW x \in SUBSET (1..n), x # {} PROVE Max(x) \in x
    OBVIOUS
  <2>1. x \in SUBSET (0..n)
    BY <1>1
  <2> QED BY <1>1, <2>1, GreatestMember
<1>6. \A a \in GroupsT, b \in LineT : Putting(overhead)[<<a, b>>] = PutItem(overhead, a, b)
  BY DEF Putting
<1>7. \A x \in SUBSET (1..n) :
        h[x] = IF x = {} THEN <<>> ELSE PutItem(overhead, h[x \ {Max(x)}], s[Max(x)])
  <2> SUFFICES ASSUME NEW x \in SUBSET (1..n), x # {}
               PROVE  h[x] = PutItem(overhead, h[x \ {Max(x)}], s[Max(x)])
    BY <1>4
  <2>1. h[x \ {Max(x)}] \in GroupsT /\ s[Max(x)] \in LineT
    BY <1>1, <1>4, <1>5
  <2> QED BY <1>4, <1>6, <2>1
<1>8. R(h)
  <2>1. h = [x \in SUBSET (1..n) |-> h[x]]
    BY <1>4
  <2>2. h = [x \in SUBSET (1..n) |->
              IF x = {} THEN <<>> ELSE PutItem(overhead, h[x \ {Max(x)}], s[Max(x)])]
    BY <1>7, <2>1
  <2> QED BY <1>1, <2>2, Zenon
<1>9. R(C)
  BY <1>8, Zenon
<1>10. Packed(s, overhead) = C[DOMAIN s]
  BY Zenon DEF Packed, PutItem, FoldLeft, MapThenFoldSet
<1> HIDE DEF C
<1> DEFINE G == [p \in (GroupsT \X LineT) \cup {<<C[x], s[i]>> : x \in SUBSET (1..n), i \in 1..n} |->
                   PutItem(overhead, p[1], p[2])]
<1>11. \A x \in SUBSET (1..n) :
         C[x] = IF x = {} THEN <<>> ELSE PutItem(overhead, C[x \ {Max(x)}], s[Max(x)])
  <2> DEFINE D == [x \in SUBSET (1..n) |->
                     IF x = {} THEN <<>> ELSE PutItem(overhead, C[x \ {Max(x)}], s[Max(x)])]
  <2>1. \A x \in SUBSET (1..n) :
         D[x] = IF x = {} THEN <<>> ELSE PutItem(overhead, C[x \ {Max(x)}], s[Max(x)])
    OBVIOUS
  <2>2. C = D
    BY <1>1, <1>9, Zenon
  <2> HIDE DEF D
  <2> QED BY <2>1, <2>2
<1>12. C = [x \in SUBSET (1..n) |-> C[x]]
  <2> DEFINE D == [x \in SUBSET (1..n) |->
                     IF x = {} THEN <<>> ELSE PutItem(overhead, C[x \ {Max(x)}], s[Max(x)])]
  <2>1. C = D
    BY <1>1, <1>9, Zenon
  <2>2. D = [x \in SUBSET (1..n) |-> D[x]]
    OBVIOUS
  <2> HIDE DEF D
  <2> QED BY <2>1, <2>2
<1>13. \A x \in SUBSET (1..n), i \in 1..n : G[<<C[x], s[i]>>] = PutItem(overhead, C[x], s[i])
  OBVIOUS
<1>14. \A a \in GroupsT, b \in LineT : G[<<a, b>>] = PutItem(overhead, a, b)
  OBVIOUS
<1> HIDE DEF G
<1>15. FoldsTo(C, G, <<>>, s, n)
  <2>1. \A x \in SUBSET (1..n) :
          C[x] = IF x = {} THEN <<>> ELSE G[<<C[x \ {Max(x)}], s[Max(x)]>>]
    BY <1>5, <1>11, <1>13
  <2> QED BY <1>12, <2>1 DEF FoldsTo
<1>16. FoldsTo(h, G, <<>>, s, n)
  <2>1. \A x \in SUBSET (1..n) :
          h[x] = IF x = {} THEN <<>> ELSE G[<<h[x \ {Max(x)}], s[Max(x)]>>]
    <3> SUFFICES ASSUME NEW x \in SUBSET (1..n), x # {}
                 PROVE  h[x] = G[<<h[x \ {Max(x)}], s[Max(x)]>>]
      BY <1>7
    <3>1. h[x \ {Max(x)}] \in GroupsT /\ s[Max(x)] \in LineT
      BY <1>1, <1>4, <1>5
    <3> QED BY <1>7, <1>14, <3>1
  <2>2. h = [x \in SUBSET (1..n) |-> h[x]]
    BY <1>4
  <2> QED BY <2>1, <2>2 DEF FoldsTo
<1>17. C[1..n] = h[1..n]
  <2>1. n <= n /\ \A i \in 1..n : s[i] = s[i]
    BY <1>1
  <2> QED BY <1>1, <1>15, <1>16, <2>1, FoldAgrees
<1> QED BY <1>1, <1>3, <1>10, <1>17

LEMMA PackedTyped ==
  ASSUME NEW overhead \in Nat, NEW s \in Seq(LineT)
  PROVE  Packed(s, overhead) \in GroupsT
<1>1. PICK h : IsFold(h, GroupsT, Putting(overhead), <<>>, s, Len(s)) /\ Packed(s, overhead) = h[1..Len(s)]
  BY PackedFold
<1>2. 1..Len(s) \in SUBSET (1..Len(s)) /\ h \in [SUBSET (1..Len(s)) -> GroupsT]
  BY <1>1, Zenon DEF IsFold
<1> QED BY <1>1, <1>2, Zenon

LEMMA PackedEmpty ==
  ASSUME NEW overhead \in Nat
  PROVE  Packed(<<>>, overhead) = <<>>
<1>1. <<>> \in Seq(LineT) /\ 1..Len(<<>>) = {}
  OBVIOUS
<1>2. PICK h : IsFold(h, GroupsT, Putting(overhead), <<>>, <<>>, Len(<<>>)) /\ Packed(<<>>, overhead) = h[1..Len(<<>>)]
  BY <1>1, PackedFold
<1>3. h[{}] = <<>>
  BY <1>2, Zenon DEF IsFold
<1> QED BY <1>1, <1>2, <1>3, Zenon

LEMMA PackedAppend ==
  ASSUME NEW overhead \in Nat, NEW s \in Seq(LineT), NEW e \in LineT
  PROVE  Packed(Append(s, e), overhead) = PutItem(overhead, Packed(s, overhead), e)
<1> DEFINE t == Append(s, e)
<1>1. t \in Seq(LineT)
  BY AppendProperties
<1>2. PICK h : IsFold(h, GroupsT, Putting(overhead), <<>>, s, Len(s)) /\ Packed(s, overhead) = h[1..Len(s)]
  BY PackedFold
<1>3. PICK g : IsFold(g, GroupsT, Putting(overhead), <<>>, t, Len(t)) /\ Packed(t, overhead) = g[1..Len(t)]
  <2> HIDE DEF t
  <2> QED BY <1>1, PackedFold
<1>4. FoldsTo(h, Putting(overhead), <<>>, s, Len(s)) /\ FoldsTo(g, Putting(overhead), <<>>, t, Len(t))
  BY <1>2, <1>3, Zenon DEF IsFold
<1>5. g[1..Len(t)] = Putting(overhead)[<<h[1..Len(s)], e>>]
  BY <1>4, FoldAppends
<1>6. Packed(s, overhead) \in GroupsT
  BY PackedTyped
<1>7. \A a \in GroupsT, b \in LineT : Putting(overhead)[<<a, b>>] = PutItem(overhead, a, b)
  BY DEF Putting
<1>8. Putting(overhead)[<<Packed(s, overhead), e>>] = PutItem(overhead, Packed(s, overhead), e)
  BY <1>6, <1>7, Zenon
<1> HIDE DEF t
<1>9. Packed(t, overhead) = PutItem(overhead, Packed(s, overhead), e)
  BY <1>2, <1>3, <1>5, <1>8, Zenon
<1> QED BY <1>9, Zenon DEF t

\* The items in their order, none left out and none empty; a group that does
\* not fit is one item.
Packs(groups, items, overhead) ==
  /\ groups \in GroupsT
  /\ FlattenSeq(groups) = items
  /\ \A g \in 1..Len(groups) :
        /\ groups[g] # <<>>
        /\ Len(groups[g]) = 1 \/ overhead + Together(groups[g]) <= TARGET_TOKENS

\* One item more is packed as all were before it.
LEMMA PutPacks ==
  ASSUME NEW overhead \in Nat, NEW items \in TextT, NEW item \in LineT, NEW groups,
         Packs(groups, items, overhead)
  PROVE  Packs(PutItem(overhead, groups, item), Append(items, item), overhead)
<1>0. /\ groups \in GroupsT /\ groups \in Seq(TextT) /\ groups \in Seq(Seq(LineT))
      /\ FlattenSeq(groups) = items /\ Len(groups) \in Nat
      /\ items \in Seq(LineT) /\ <<item>> \in Seq(LineT) /\ <<item>> \in TextT
  <2>1. groups \in GroupsT /\ FlattenSeq(groups) = items
    BY DEF Packs
  <2>2. groups \in Seq(TextT) /\ groups \in Seq(Seq(LineT))
    BY <2>1 DEF GroupsT, TextT
  <2>3. <<item>> \in TextT
    BY FlatSingle
  <2> QED BY <2>1, <2>2, <2>3, LenProperties DEF TextT
<1>1. \A g \in 1..Len(groups) :
        /\ groups[g] # <<>>
        /\ Len(groups[g]) = 1 \/ overhead + Together(groups[g]) <= TARGET_TOKENS
  BY DEF Packs
<1>2. Append(items, item) = items \o <<item>>
  BY <1>0, AppendIsConcat
<1>3. CASE /\ groups # <<>>
           /\ overhead + Together(Last(groups)) + CountTokens(item) <= TARGET_TOKENS
  <2> DEFINE f == Front(groups)
             l == Last(groups)
             m == Append(l, item)
             n == Len(groups)
  <2>1. /\ f \in Seq(TextT) /\ l \in TextT /\ n \in Nat \ {0} /\ Len(f) = n - 1
        /\ \A i \in 1..(n - 1) : f[i] = groups[i]
        /\ groups = Append(f, l)
    BY <1>0, <1>3, FrontAndLast
  <2>2. PutItem(overhead, groups, item) = Append(f, m)
    BY <1>3 DEF PutItem
  <2>3. m \in TextT /\ Together(m) = Together(l) + CountTokens(item) /\ m # <<>>
    <3>1. m \in TextT
      BY <2>1, FlatAppend
    <3>2. l \in Seq(LineT)
      BY <2>1 DEF TextT
    <3>3. Together(m) = Together(l) + CountTokens(item)
      BY <3>2, TogetherAppend DEF SumOne
    <3> QED BY <3>1, <3>2, <3>3, AppendProperties
  <2> HIDE DEF f, l, n
  <2>4. m = l \o <<item>>
    BY <2>1, AppendIsConcat DEF TextT
  <2>5. /\ f \in Seq(Seq(LineT)) /\ l \in Seq(LineT) /\ m \in Seq(LineT)
        /\ FlattenSeq(f) \in Seq(LineT)
    <3>1. f \in Seq(Seq(LineT)) /\ l \in Seq(LineT) /\ m \in Seq(LineT)
      BY <2>1, <2>3 DEF TextT
    <3> QED BY <3>1, FlattenTyped
  <2> HIDE DEF m
  <2>6. FlattenSeq(Append(f, m)) = items \o <<item>>
    <3>1. FlattenSeq(Append(f, m)) = FlattenSeq(f) \o m
      BY <2>5, FlattenAppend
    <3>2. FlattenSeq(Append(f, l)) = FlattenSeq(f) \o l
      BY <2>5, FlattenAppend
    <3>3. (FlattenSeq(f) \o l) \o <<item>> = FlattenSeq(f) \o (l \o <<item>>)
      <4>1. <<item>> \in Seq(LineT)
        OBVIOUS
      <4>2. FlattenSeq(f) \in Seq(LineT) /\ l \in Seq(LineT)
        BY <2>5
      <4> QED BY <4>1, <4>2, ConcatAssociative, SMTT(30)
    <3> QED BY <1>0, <2>1, <2>4, <3>1, <3>2, <3>3
  <2>7. /\ Append(f, m) \in GroupsT /\ Len(Append(f, m)) = n
        /\ Append(f, m)[n] = m /\ \A i \in 1..(n - 1) : Append(f, m)[i] = groups[i]
    <3>1. /\ Append(f, m) \in Seq(TextT) /\ Len(Append(f, m)) = Len(f) + 1
          /\ Append(f, m)[Len(f) + 1] = m /\ \A i \in 1..Len(f) : Append(f, m)[i] = f[i]
      BY <2>1, <2>3, AppendProperties
    <3> QED BY <2>1, <3>1 DEF GroupsT
  <2>8. overhead + Together(m) <= TARGET_TOKENS
    <3>1. Together(l) \in Nat /\ CountTokens(item) \in Nat
      BY <2>1, TogetherTyped, CountTyped DEF LineT, TextT
    <3>2. overhead + Together(l) + CountTokens(item) <= TARGET_TOKENS
      BY <1>3 DEF l
    <3> QED BY <2>3, <3>1, <3>2, SizesAssumption
  <2>9. \A g \in 1..n :
          /\ Append(f, m)[g] # <<>>
          /\ \/ Len(Append(f, m)[g]) = 1
             \/ overhead + Together(Append(f, m)[g]) <= TARGET_TOKENS
    <3> SUFFICES ASSUME NEW g \in 1..n
                 PROVE  /\ Append(f, m)[g] # <<>>
                        /\ \/ Len(Append(f, m)[g]) = 1
                           \/ overhead + Together(Append(f, m)[g]) <= TARGET_TOKENS
      OBVIOUS
    <3>1. CASE g = n
      BY <2>3, <2>7, <2>8, <3>1
    <3>2. CASE g # n
      <4>1. g \in 1..(n - 1) /\ g \in 1..Len(groups)
        BY <2>1, <3>2 DEF n
      <4> QED BY <1>1, <2>7, <4>1
    <3> QED BY <3>1, <3>2
  <2> QED BY <1>2, <2>2, <2>6, <2>7, <2>9 DEF Packs
<1>4. CASE ~(/\ groups # <<>>
             /\ overhead + Together(Last(groups)) + CountTokens(item) <= TARGET_TOKENS)
  <2> DEFINE u == <<item>>
             n == Len(groups)
  <2>1. PutItem(overhead, groups, item) = Append(groups, u)
    BY <1>4 DEF PutItem
  <2>2. u # <<>> /\ Len(u) = 1
    OBVIOUS
  <2>3. u \in TextT /\ u \in Seq(LineT)
    BY <1>0
  <2> HIDE DEF u
  <2>4. FlattenSeq(Append(groups, u)) = items \o u
    BY <1>0, <2>3, FlattenAppend
  <2>5. /\ Append(groups, u) \in GroupsT /\ Len(Append(groups, u)) = n + 1
        /\ Append(groups, u)[n + 1] = u /\ \A i \in 1..n : Append(groups, u)[i] = groups[i]
    BY <1>0, <2>3, AppendProperties DEF GroupsT
  <2>6. \A g \in 1..(n + 1) :
          /\ Append(groups, u)[g] # <<>>
          /\ \/ Len(Append(groups, u)[g]) = 1
             \/ overhead + Together(Append(groups, u)[g]) <= TARGET_TOKENS
    <3> SUFFICES ASSUME NEW g \in 1..(n + 1)
                 PROVE  /\ Append(groups, u)[g] # <<>>
                        /\ \/ Len(Append(groups, u)[g]) = 1
                           \/ overhead + Together(Append(groups, u)[g]) <= TARGET_TOKENS
      OBVIOUS
    <3>1. CASE g = n + 1
      BY <2>2, <2>5, <3>1
    <3>2. CASE g # n + 1
      <4>1. g \in 1..n
        BY <1>0, <3>2
      <4> QED BY <1>1, <2>5, <4>1
    <3> QED BY <3>1, <3>2
  <2> QED BY <1>2, <2>1, <2>4, <2>5, <2>6 DEF Packs, u
<1> QED BY <1>3, <1>4

\* Packing loses and reorders nothing, and only a single item may not fit.
LEMMA PackedPacks ==
  ASSUME NEW overhead \in Nat
  PROVE  \A items \in TextT : Packs(Packed(items, overhead), items, overhead)
<1> DEFINE S == {items \in TextT : Packs(Packed(items, overhead), items, overhead)}
<1>1. <<>> \in S
  <2>1. Packed(<<>>, overhead) = <<>>
    BY PackedEmpty
  <2>2. <<>> \in GroupsT /\ Len(<<>>) = 0
    BY DEF GroupsT
  <2>3. Packs(<<>>, <<>>, overhead)
    BY <2>2, FlattenEmpty DEF Packs
  <2> QED BY <2>1, <2>3, FlatEmpty
<1>2. ASSUME NEW t \in Seq(LineT), NEW e \in LineT, t \in S PROVE Append(t, e) \in S
  <2>1. Packed(Append(t, e), overhead) = PutItem(overhead, Packed(t, overhead), e)
    BY PackedAppend
  <2>2. t \in TextT /\ Packs(Packed(t, overhead), t, overhead)
    BY <1>2
  <2>3. Packs(PutItem(overhead, Packed(t, overhead), e), Append(t, e), overhead)
    BY <2>2, PutPacks
  <2>4. Append(t, e) \in TextT
    BY <2>2, FlatAppend
  <2> QED BY <2>1, <2>3, <2>4
<1> HIDE DEF S
<1>3. \A t \in Seq(LineT) : t \in S
  BY <1>1, <1>2, SeqInduction
<1> QED BY <1>3 DEF S, TextT

-----------------------------------------------------------------------------
(***************************************************************************)
(* Sentences and lines.                                                    *)
(***************************************************************************)

\* One atom more, behind the last part or in a part of its own.
CutOne(end, parts, a) ==
  IF parts # <<>> /\ Last(Last(parts)).ends # end
    THEN Append(Front(parts), Append(Last(parts), a))
    ELSE Append(parts, <<a>>)

Cutting(end) == [p \in TextT \X Atom |-> CutOne(end, p[1], p[2])]

LEMMA CutOneTyped ==
  ASSUME NEW end \in BOOLEAN, NEW parts \in TextT, NEW a \in Atom
  PROVE  CutOne(end, parts, a) \in TextT
<1>1. <<a>> \in LineT
  BY DEF LineT
<1>2. Append(parts, <<a>>) \in TextT
  BY <1>1, FlatAppend
<1>3. ASSUME parts # <<>>
      PROVE  Append(Front(parts), Append(Last(parts), a)) \in TextT
  <2>1. Front(parts) \in TextT /\ Last(parts) \in LineT
    BY <1>3, FrontAndLast DEF TextT
  <2>2. Append(Last(parts), a) \in LineT
    BY <2>1, AppendProperties DEF LineT
  <2> QED BY <2>1, <2>2, FlatAppend
<1> QED BY <1>2, <1>3 DEF CutOne

LEMMA CuttingTyped ==
  ASSUME NEW end \in BOOLEAN
  PROVE  <<>> \in TextT /\ Cutting(end) \in [TextT \X Atom -> TextT]
<1>1. \A p \in TextT \X Atom : CutOne(end, p[1], p[2]) \in TextT
  BY CutOneTyped
<1> QED BY <1>1, FlatEmpty DEF Cutting

LEMMA CutAfterFold ==
  ASSUME NEW end \in BOOLEAN, NEW s \in Seq(Atom)
  PROVE  \E h : /\ IsFold(h, TextT, Cutting(end), <<>>, s, Len(s))
                /\ CutAfter(s, end) = h[1..Len(s)]
<1> DEFINE n == Len(s)
           R(it) == it = [x \in SUBSET (DOMAIN s) |->
                            IF x = {} THEN <<>>
                            ELSE CutOne(end, it[x \ {Max(x)}], s[Max(x)])]
           C == CHOOSE it : R(it)
<1>1. n \in Nat /\ n = Len(s) /\ DOMAIN s = 1..n /\ \A i \in 1..n : s[i] \in Atom
  BY LenProperties
<1> HIDE DEF n
<1>2. <<>> \in TextT /\ Cutting(end) \in [TextT \X Atom -> TextT]
  BY CuttingTyped
<1>3. PICK h : IsFold(h, TextT, Cutting(end), <<>>, s, Len(s))
  BY <1>2, FoldExists
<1>4. /\ h \in [SUBSET (1..n) -> TextT]
      /\ FoldsTo(h, Cutting(end), <<>>, s, n)
      /\ h[{}] = <<>>
      /\ \A x \in SUBSET (1..n) :
            x # {} => h[x] = Cutting(end)[<<h[x \ {Max(x)}], s[Max(x)]>>]
  BY <1>1, <1>3, Zenon DEF IsFold
<1>5. \A x \in SUBSET (1..n) :
        x # {} => Max(x) \in 1..n /\ x \ {Max(x)} \in SUBSET (1..n)
  <2> SUFFICES ASSUME NEW x \in SUBSET (1..n), x # {} PROVE Max(x) \in x
    OBVIOUS
  <2>1. x \in SUBSET (0..n)
    BY <1>1
  <2> QED BY <1>1, <2>1, GreatestMember
<1>6. \A a \in TextT, b \in Atom : Cutting(end)[<<a, b>>] = CutOne(end, a, b)
  BY DEF Cutting
<1>7. \A x \in SUBSET (1..n) :
        h[x] = IF x = {} THEN <<>> ELSE CutOne(end, h[x \ {Max(x)}], s[Max(x)])
  <2> SUFFICES ASSUME NEW x \in SUBSET (1..n), x # {}
               PROVE  h[x] = CutOne(end, h[x \ {Max(x)}], s[Max(x)])
    BY <1>4
  <2>1. h[x \ {Max(x)}] \in TextT /\ s[Max(x)] \in Atom
    BY <1>1, <1>4, <1>5
  <2> QED BY <1>4, <1>6, <2>1
<1>8. R(h)
  <2>1. h = [x \in SUBSET (1..n) |-> h[x]]
    BY <1>4
  <2>2. h = [x \in SUBSET (1..n) |->
              IF x = {} THEN <<>> ELSE CutOne(end, h[x \ {Max(x)}], s[Max(x)])]
    BY <1>7, <2>1
  <2> QED BY <1>1, <2>2, Zenon
<1>9. R(C)
  BY <1>8, Zenon
<1>10. CutAfter(s, end) = C[DOMAIN s]
  BY Zenon DEF CutAfter, CutOne, FoldLeft, MapThenFoldSet
<1> HIDE DEF C
<1> DEFINE G == [p \in (TextT \X Atom) \cup {<<C[x], s[i]>> : x \in SUBSET (1..n), i \in 1..n} |->
                   CutOne(end, p[1], p[2])]
<1>11. \A x \in SUBSET (1..n) :
         C[x] = IF x = {} THEN <<>> ELSE CutOne(end, C[x \ {Max(x)}], s[Max(x)])
  <2> DEFINE D == [x \in SUBSET (1..n) |->
                     IF x = {} THEN <<>> ELSE CutOne(end, C[x \ {Max(x)}], s[Max(x)])]
  <2>1. \A x \in SUBSET (1..n) :
         D[x] = IF x = {} THEN <<>> ELSE CutOne(end, C[x \ {Max(x)}], s[Max(x)])
    OBVIOUS
  <2>2. C = D
    BY <1>1, <1>9, Zenon
  <2> HIDE DEF D
  <2> QED BY <2>1, <2>2
<1>12. C = [x \in SUBSET (1..n) |-> C[x]]
  <2> DEFINE D == [x \in SUBSET (1..n) |->
                     IF x = {} THEN <<>> ELSE CutOne(end, C[x \ {Max(x)}], s[Max(x)])]
  <2>1. C = D
    BY <1>1, <1>9, Zenon
  <2>2. D = [x \in SUBSET (1..n) |-> D[x]]
    OBVIOUS
  <2> HIDE DEF D
  <2> QED BY <2>1, <2>2
<1>13. \A x \in SUBSET (1..n), i \in 1..n : G[<<C[x], s[i]>>] = CutOne(end, C[x], s[i])
  OBVIOUS
<1>14. \A a \in TextT, b \in Atom : G[<<a, b>>] = CutOne(end, a, b)
  OBVIOUS
<1> HIDE DEF G
<1>15. FoldsTo(C, G, <<>>, s, n)
  <2>1. \A x \in SUBSET (1..n) :
          C[x] = IF x = {} THEN <<>> ELSE G[<<C[x \ {Max(x)}], s[Max(x)]>>]
    BY <1>5, <1>11, <1>13
  <2> QED BY <1>12, <2>1 DEF FoldsTo
<1>16. FoldsTo(h, G, <<>>, s, n)
  <2>1. \A x \in SUBSET (1..n) :
          h[x] = IF x = {} THEN <<>> ELSE G[<<h[x \ {Max(x)}], s[Max(x)]>>]
    <3> SUFFICES ASSUME NEW x \in SUBSET (1..n), x # {}
                 PROVE  h[x] = G[<<h[x \ {Max(x)}], s[Max(x)]>>]
      BY <1>7
    <3>1. h[x \ {Max(x)}] \in TextT /\ s[Max(x)] \in Atom
      BY <1>1, <1>4, <1>5
    <3> QED BY <1>7, <1>14, <3>1
  <2>2. h = [x \in SUBSET (1..n) |-> h[x]]
    BY <1>4
  <2> QED BY <2>1, <2>2 DEF FoldsTo
<1>17. C[1..n] = h[1..n]
  <2>1. n <= n /\ \A i \in 1..n : s[i] = s[i]
    BY <1>1
  <2> QED BY <1>1, <1>15, <1>16, <2>1, FoldAgrees
<1> QED BY <1>1, <1>3, <1>10, <1>17

LEMMA CutAfterTyped ==
  ASSUME NEW end \in BOOLEAN, NEW s \in Seq(Atom)
  PROVE  CutAfter(s, end) \in TextT
<1>1. PICK h : IsFold(h, TextT, Cutting(end), <<>>, s, Len(s)) /\ CutAfter(s, end) = h[1..Len(s)]
  BY CutAfterFold
<1>2. 1..Len(s) \in SUBSET (1..Len(s)) /\ h \in [SUBSET (1..Len(s)) -> TextT]
  BY <1>1, Zenon DEF IsFold
<1> QED BY <1>1, <1>2, Zenon

LEMMA CutAfterEmpty ==
  ASSUME NEW end \in BOOLEAN
  PROVE  CutAfter(<<>>, end) = <<>>
<1>1. <<>> \in Seq(Atom) /\ 1..Len(<<>>) = {}
  OBVIOUS
<1>2. PICK h : IsFold(h, TextT, Cutting(end), <<>>, <<>>, Len(<<>>)) /\ CutAfter(<<>>, end) = h[1..Len(<<>>)]
  BY <1>1, CutAfterFold
<1>3. h[{}] = <<>>
  BY <1>2, Zenon DEF IsFold
<1> QED BY <1>1, <1>2, <1>3, Zenon

LEMMA CutAfterAppend ==
  ASSUME NEW end \in BOOLEAN, NEW s \in Seq(Atom), NEW e \in Atom
  PROVE  CutAfter(Append(s, e), end) = CutOne(end, CutAfter(s, end), e)
<1> DEFINE t == Append(s, e)
<1>1. t \in Seq(Atom)
  BY AppendProperties
<1>2. PICK h : IsFold(h, TextT, Cutting(end), <<>>, s, Len(s)) /\ CutAfter(s, end) = h[1..Len(s)]
  BY CutAfterFold
<1>3. PICK g : IsFold(g, TextT, Cutting(end), <<>>, t, Len(t)) /\ CutAfter(t, end) = g[1..Len(t)]
  <2> HIDE DEF t
  <2> QED BY <1>1, CutAfterFold
<1>4. FoldsTo(h, Cutting(end), <<>>, s, Len(s)) /\ FoldsTo(g, Cutting(end), <<>>, t, Len(t))
  BY <1>2, <1>3, Zenon DEF IsFold
<1>5. g[1..Len(t)] = Cutting(end)[<<h[1..Len(s)], e>>]
  BY <1>4, FoldAppends
<1>6. CutAfter(s, end) \in TextT
  BY CutAfterTyped
<1>7. \A a \in TextT, b \in Atom : Cutting(end)[<<a, b>>] = CutOne(end, a, b)
  BY DEF Cutting
<1>8. Cutting(end)[<<CutAfter(s, end), e>>] = CutOne(end, CutAfter(s, end), e)
  BY <1>6, <1>7, Zenon
<1> HIDE DEF t
<1>9. CutAfter(t, end) = CutOne(end, CutAfter(s, end), e)
  BY <1>2, <1>3, <1>5, <1>8, Zenon
<1> QED BY <1>9, Zenon DEF t

\* The parts are the atoms, none is empty, and none goes on behind an atom that
\* ends it.
Parts(parts, atoms, end) ==
  /\ parts \in TextT
  /\ FlattenSeq(parts) = atoms
  /\ \A p \in 1..Len(parts) :
        /\ parts[p] # <<>>
        /\ \A k \in 1..(Len(parts[p]) - 1) : parts[p][k].ends # end

LEMMA CutOneParts ==
  ASSUME NEW end \in BOOLEAN, NEW atoms \in LineT, NEW a \in Atom, NEW parts,
         Parts(parts, atoms, end)
  PROVE  Parts(CutOne(end, parts, a), Append(atoms, a), end)
<1>0. /\ parts \in TextT /\ parts \in Seq(LineT) /\ parts \in Seq(Seq(Atom))
      /\ FlattenSeq(parts) = atoms /\ Len(parts) \in Nat
      /\ atoms \in Seq(Atom) /\ <<a>> \in LineT /\ <<a>> \in Seq(Atom)
      /\ Append(atoms, a) = atoms \o <<a>>
  <2>1. parts \in TextT /\ FlattenSeq(parts) = atoms
    BY DEF Parts
  <2>2. parts \in Seq(LineT) /\ parts \in Seq(Seq(Atom)) /\ atoms \in Seq(Atom)
    BY <2>1 DEF TextT, LineT
  <2>3. <<a>> \in LineT /\ <<a>> \in Seq(Atom)
    BY DEF LineT
  <2>4. Append(atoms, a) = atoms \o <<a>>
    BY <2>2, AppendIsConcat
  <2> QED BY <2>1, <2>2, <2>3, <2>4, LenProperties
<1>1. \A p \in 1..Len(parts) :
        /\ parts[p] # <<>>
        /\ \A k \in 1..(Len(parts[p]) - 1) : parts[p][k].ends # end
  BY DEF Parts
<1>2. CASE parts # <<>> /\ Last(Last(parts)).ends # end
  <2> DEFINE f == Front(parts)
             l == Last(parts)
             m == Append(l, a)
             n == Len(parts)
  <2>1. /\ f \in Seq(LineT) /\ l \in LineT /\ n \in Nat \ {0} /\ Len(f) = n - 1
        /\ \A i \in 1..(n - 1) : f[i] = parts[i]
        /\ parts = Append(f, l)
    BY <1>0, <1>2, FrontAndLast
  <2>2. CutOne(end, parts, a) = Append(f, m)
    BY <1>2 DEF CutOne
  <2>3. l = parts[n] /\ l # <<>> /\ \A k \in 1..(Len(l) - 1) : l[k].ends # end
    <3>1. l = parts[n]
      BY DEF Last
    <3>2. n \in 1..n
      BY <2>1
    <3> QED BY <1>1, <3>1, <3>2
  <2>4. l[Len(l)].ends # end
    BY <1>2 DEF Last
  <2> HIDE DEF f, l, n
  <2>5. /\ l \in Seq(Atom) /\ Len(l) \in Nat \ {0}
        /\ m \in Seq(Atom) /\ Len(m) = Len(l) + 1 /\ m # <<>> /\ m = l \o <<a>>
        /\ \A k \in 1..Len(l) : m[k] = l[k]
    <3>1. l \in Seq(Atom) /\ Len(l) \in Nat \ {0}
      BY <2>1, <2>3, EmptySeq, LenProperties DEF LineT
    <3> QED BY <3>1, AppendProperties, AppendIsConcat
  <2> HIDE DEF m
  <2>6. \A k \in 1..(Len(m) - 1) : m[k].ends # end
    <3> SUFFICES ASSUME NEW k \in 1..Len(l) PROVE m[k].ends # end
      BY <2>5
    <3>1. k \in 1..(Len(l) - 1) \/ k = Len(l)
      BY <2>5
    <3> QED BY <2>3, <2>4, <2>5, <3>1
  <2>7. f \in TextT /\ m \in LineT /\ FlattenSeq(f) \in Seq(Atom)
    <3>1. f \in TextT /\ m \in LineT
      BY <2>1, <2>5 DEF TextT, LineT
    <3> QED BY <3>1, FlatTyped DEF LineT
  <2>8. FlattenSeq(Append(f, m)) = atoms \o <<a>>
    <3>1. FlattenSeq(Append(f, m)) = FlattenSeq(f) \o m
      BY <2>7, FlatAppend
    <3>2. FlattenSeq(Append(f, l)) = FlattenSeq(f) \o l
      BY <2>1, <2>7, FlatAppend
    <3>3. (FlattenSeq(f) \o l) \o <<a>> = FlattenSeq(f) \o (l \o <<a>>)
      BY <1>0, <2>5, <2>7, ConcatAssociative, SMTT(30)
    <3> QED BY <1>0, <2>1, <2>5, <3>1, <3>2, <3>3
  <2>9. /\ Append(f, m) \in TextT /\ Len(Append(f, m)) = n
        /\ Append(f, m)[n] = m /\ \A i \in 1..(n - 1) : Append(f, m)[i] = parts[i]
    <3>1. /\ Append(f, m) \in Seq(LineT) /\ Len(Append(f, m)) = Len(f) + 1
          /\ Append(f, m)[Len(f) + 1] = m /\ \A i \in 1..Len(f) : Append(f, m)[i] = f[i]
      BY <2>1, <2>7, AppendProperties
    <3> QED BY <2>1, <3>1 DEF TextT
  <2>10. ASSUME NEW p \in 1..n
         PROVE  /\ Append(f, m)[p] # <<>>
                /\ \A k \in 1..(Len(Append(f, m)[p]) - 1) : Append(f, m)[p][k].ends # end
    <3>1. CASE p = n
      BY <2>5, <2>6, <2>9, <3>1
    <3>2. CASE p # n
      <4>1. p \in 1..(n - 1) /\ p \in 1..Len(parts)
        BY <2>1, <3>2 DEF n
      <4> QED BY <1>1, <2>9, <4>1
    <3> QED BY <3>1, <3>2
  <2> QED BY <1>0, <2>2, <2>8, <2>9, <2>10 DEF Parts
<1>3. CASE ~(parts # <<>> /\ Last(Last(parts)).ends # end)
  <2> DEFINE u == <<a>>
             n == Len(parts)
  <2>1. CutOne(end, parts, a) = Append(parts, u)
    BY <1>3 DEF CutOne
  <2>2. u # <<>> /\ Len(u) = 1 /\ u \in LineT
    BY <1>0
  <2> HIDE DEF u
  <2>3. FlattenSeq(Append(parts, u)) = atoms \o u
    BY <1>0, <2>2, FlatAppend
  <2>4. /\ Append(parts, u) \in TextT /\ Len(Append(parts, u)) = n + 1
        /\ Append(parts, u)[n + 1] = u /\ \A i \in 1..n : Append(parts, u)[i] = parts[i]
    BY <1>0, <2>2, AppendProperties DEF TextT
  <2>5. ASSUME NEW p \in 1..(n + 1)
        PROVE  /\ Append(parts, u)[p] # <<>>
               /\ \A k \in 1..(Len(Append(parts, u)[p]) - 1) : Append(parts, u)[p][k].ends # end
    <3>0. \A k \in 1..(Len(u) - 1) : FALSE
      BY <2>2
    <3>1. CASE p = n + 1
      BY <2>2, <2>4, <3>0, <3>1, Zenon
    <3>2. CASE p # n + 1
      <4>1. p \in 1..n
        BY <1>0, <3>2
      <4> QED BY <1>1, <2>4, <4>1
    <3> QED BY <3>1, <3>2
  <2> QED BY <1>0, <2>1, <2>3, <2>4, <2>5 DEF Parts, u
<1> QED BY <1>2, <1>3

\* Cutting loses and reorders nothing.
LEMMA CutAfterParts ==
  ASSUME NEW end \in BOOLEAN
  PROVE  \A atoms \in LineT : Parts(CutAfter(atoms, end), atoms, end)
<1> DEFINE S == {atoms \in LineT : Parts(CutAfter(atoms, end), atoms, end)}
<1>1. <<>> \in S
  <2>1. CutAfter(<<>>, end) = <<>> /\ Len(<<>>) = 0
    BY CutAfterEmpty
  <2> QED BY <2>1, FlatEmpty DEF Parts
<1>2. ASSUME NEW s \in Seq(Atom), NEW e \in Atom, s \in S PROVE Append(s, e) \in S
  <2>1. CutAfter(Append(s, e), end) = CutOne(end, CutAfter(s, end), e)
    BY CutAfterAppend
  <2>2. s \in LineT /\ Parts(CutAfter(s, end), s, end)
    BY <1>2
  <2>3. Parts(CutOne(end, CutAfter(s, end), e), Append(s, e), end)
    BY <2>2, CutOneParts
  <2>4. Append(s, e) \in LineT
    BY AppendProperties DEF LineT
  <2> QED BY <2>1, <2>3, <2>4
<1> HIDE DEF S
<1>3. \A s \in Seq(Atom) : s \in S
  BY <1>1, <1>2, SeqInduction
<1> QED BY <1>3 DEF S, LineT

-----------------------------------------------------------------------------
(***************************************************************************)
(* Order.                                                                  *)
(***************************************************************************)

\* In the order of the document, and nothing twice.
Ascending(s) ==
  \A q \in 1..Len(s) : \A p \in 1..(q - 1) : Before(s[p], s[q])

\* Like the document, but for headers that come again.
Orderly(s) ==
  \A q \in 1..Len(s) :
     \/ \A p \in 1..(q - 1) : Before(s[p], s[q])
     \/ IsHeader(s[q]) /\ \E p \in 1..(q - 1) : s[p] = s[q]

Precedes(s, t) == \A a \in ToSet(s), b \in ToSet(t) : Before(a, b)

\* The members of a sequence.
LEMMA InToSet ==
  ASSUME NEW T, NEW s \in Seq(T)
  PROVE  /\ ToSet(s) \subseteq T
         /\ \A i \in 1..Len(s) : s[i] \in ToSet(s)
         /\ \A x \in ToSet(s) : \E i \in 1..Len(s) : x = s[i]
         /\ s = <<>> <=> ToSet(s) = {}
<1>1. DOMAIN s = 1..Len(s) /\ Len(s) \in Nat /\ \A i \in 1..Len(s) : s[i] \in T
  BY LenProperties
<1>2. s # <<>> => 1 \in 1..Len(s)
  BY EmptySeq
<1>3. /\ ToSet(s) \subseteq T
      /\ \A i \in 1..Len(s) : s[i] \in ToSet(s)
      /\ \A x \in ToSet(s) : \E i \in 1..Len(s) : x = s[i]
  BY <1>1 DEF ToSet
<1>4. s = <<>> => ToSet(s) = {}
  BY DEF ToSet
<1> QED BY <1>2, <1>3, <1>4

\* The positions of a concatenation.
LEMMA ConcatIndexes ==
  ASSUME NEW T, NEW s \in Seq(T), NEW t \in Seq(T)
  PROVE  /\ Len(s) \in Nat /\ Len(t) \in Nat
         /\ s \o t \in Seq(T) /\ Len(s \o t) = Len(s) + Len(t)
         /\ \A i \in 1..Len(s) : (s \o t)[i] = s[i]
         /\ \A i \in 1..Len(t) : (s \o t)[Len(s) + i] = t[i]
         /\ \A i \in 1..(Len(s) + Len(t)) :
               i \in 1..Len(s) \/ \E j \in 1..Len(t) : i = Len(s) + j
<1>1. /\ Len(s) \in Nat /\ Len(t) \in Nat
      /\ s \o t \in Seq(T) /\ Len(s \o t) = Len(s) + Len(t)
      /\ \A i \in 1..(Len(s) + Len(t)) :
            (s \o t)[i] = IF i <= Len(s) THEN s[i] ELSE t[i - Len(s)]
  BY ConcatProperties, LenProperties
<1>2. \A i \in 1..Len(s) : i \in 1..(Len(s) + Len(t)) /\ i <= Len(s)
  BY <1>1
<1>3. \A i \in 1..Len(t) : /\ Len(s) + i \in 1..(Len(s) + Len(t)) /\ ~(Len(s) + i <= Len(s))
                           /\ (Len(s) + i) - Len(s) = i
  BY <1>1
<1>4. ASSUME NEW i \in 1..(Len(s) + Len(t))
      PROVE  i \in 1..Len(s) \/ \E j \in 1..Len(t) : i = Len(s) + j
  <2>1. CASE i <= Len(s)
    BY <1>1, <2>1
  <2>2. CASE ~(i <= Len(s))
    <3>1. i - Len(s) \in 1..Len(t) /\ i = Len(s) + (i - Len(s))
      BY <1>1, <2>2
    <3> QED BY <3>1
  <2> QED BY <2>1, <2>2
<1> QED BY <1>1, <1>2, <1>3, <1>4

\* Order of a concatenation, part by part.
LEMMA AscendingConcat ==
  ASSUME NEW T, NEW s \in Seq(T), NEW t \in Seq(T)
  PROVE  Ascending(s \o t) <=> Ascending(s) /\ Ascending(t) /\ Precedes(s, t)
<1> DEFINE m == Len(s)
           n == Len(t)
           u == s \o t
<1>1. /\ m \in Nat /\ n \in Nat /\ Len(u) = m + n
      /\ \A i \in 1..m : u[i] = s[i]
      /\ \A i \in 1..n : u[m + i] = t[i]
      /\ \A i \in 1..(m + n) : i \in 1..m \/ \E j \in 1..n : i = m + j
  BY ConcatIndexes
<1>2. /\ \A i \in 1..m : s[i] \in ToSet(s)
      /\ \A i \in 1..n : t[i] \in ToSet(t)
      /\ \A x \in ToSet(s) : \E i \in 1..m : x = s[i]
      /\ \A x \in ToSet(t) : \E i \in 1..n : x = t[i]
  BY InToSet
<1> HIDE DEF m, n, u
<1>3. ASSUME Ascending(u) PROVE Ascending(s) /\ Ascending(t) /\ Precedes(s, t)
  <2>1. \A q \in 1..(m + n) : \A p \in 1..(q - 1) : Before(u[p], u[q])
    BY <1>1, <1>3 DEF Ascending
  <2>2. ASSUME NEW q \in 1..m, NEW p \in 1..(q - 1) PROVE Before(s[p], s[q])
    <3>1. q \in 1..(m + n) /\ p \in 1..m
      BY <1>1
    <3> QED BY <1>1, <2>1, <3>1
  <2>3. ASSUME NEW q \in 1..n, NEW p \in 1..(q - 1) PROVE Before(t[p], t[q])
    <3>1. m + q \in 1..(m + n) /\ p \in 1..n /\ m + p \in 1..((m + q) - 1)
      BY <1>1
    <3> QED BY <1>1, <2>1, <3>1
  <2>4. ASSUME NEW a \in ToSet(s), NEW b \in ToSet(t) PROVE Before(a, b)
    <3>1. PICK p \in 1..m : a = s[p]
      BY <1>2
    <3>2. PICK q \in 1..n : b = t[q]
      BY <1>2
    <3>3. m + q \in 1..(m + n) /\ p \in 1..((m + q) - 1)
      BY <1>1
    <3> QED BY <1>1, <2>1, <3>1, <3>2, <3>3
  <2> QED BY <2>2, <2>3, <2>4 DEF Ascending, Precedes, m, n
<1>4. ASSUME Ascending(s), Ascending(t), Precedes(s, t) PROVE Ascending(u)
  <2>1. /\ \A q \in 1..m : \A p \in 1..(q - 1) : Before(s[p], s[q])
        /\ \A q \in 1..n : \A p \in 1..(q - 1) : Before(t[p], t[q])
    BY <1>4 DEF Ascending, m, n
  <2>2. ASSUME NEW q \in 1..(m + n), NEW p \in 1..(q - 1) PROVE Before(u[p], u[q])
    <3>0. p \in 1..(m + n)
      BY <1>1
    <3>1. CASE q \in 1..m
      <4>1. p \in 1..m
        BY <1>1, <3>1
      <4> QED BY <1>1, <2>1, <3>1, <4>1
    <3>2. ASSUME NEW j \in 1..n, q = m + j PROVE Before(u[p], u[q])
      <4>1. CASE p \in 1..m
        <5>1. u[p] \in ToSet(s) /\ u[q] \in ToSet(t)
          BY <1>1, <1>2, <3>2, <4>1
        <5> QED BY <1>4, <5>1 DEF Precedes
      <4>2. ASSUME NEW i \in 1..n, p = m + i PROVE Before(u[p], u[q])
        <5>1. i \in 1..(j - 1)
          BY <1>1, <3>2, <4>2
        <5>2. Before(t[i], t[j])
          BY <2>1, <5>1
        <5> QED BY <1>1, <3>2, <4>2, <5>2
      <4> QED BY <1>1, <3>0, <4>1, <4>2
    <3> QED BY <1>1, <3>1, <3>2
  <2> QED BY <1>1, <2>2 DEF Ascending
<1> QED BY <1>3, <1>4 DEF u

LEMMA AscendingIsOrderly ==
  ASSUME NEW s, Ascending(s)
  PROVE  Orderly(s)
BY DEF Ascending, Orderly

LEMMA OrderlyConcat ==
  ASSUME NEW T, NEW s \in Seq(T), NEW t \in Seq(T),
         Orderly(s), Orderly(t), Precedes(s, t)
  PROVE  Orderly(s \o t)
<1> DEFINE m == Len(s)
           n == Len(t)
           u == s \o t
<1>1. /\ m \in Nat /\ n \in Nat /\ Len(u) = m + n
      /\ \A i \in 1..m : u[i] = s[i]
      /\ \A i \in 1..n : u[m + i] = t[i]
      /\ \A i \in 1..(m + n) : i \in 1..m \/ \E j \in 1..n : i = m + j
  BY ConcatIndexes
<1>2. /\ \A i \in 1..m : s[i] \in ToSet(s)
      /\ \A i \in 1..n : t[i] \in ToSet(t)
  BY InToSet
<1>3. /\ \A q \in 1..m : \/ \A p \in 1..(q - 1) : Before(s[p], s[q])
                         \/ IsHeader(s[q]) /\ \E p \in 1..(q - 1) : s[p] = s[q]
      /\ \A q \in 1..n : \/ \A p \in 1..(q - 1) : Before(t[p], t[q])
                         \/ IsHeader(t[q]) /\ \E p \in 1..(q - 1) : t[p] = t[q]
  BY DEF Orderly
<1> HIDE DEF m, n, u
<1>4. ASSUME NEW q \in 1..(m + n)
      PROVE  \/ \A p \in 1..(q - 1) : Before(u[p], u[q])
             \/ IsHeader(u[q]) /\ \E p \in 1..(q - 1) : u[p] = u[q]
  <2>0. \A p \in 1..(q - 1) : p \in 1..(m + n)
    BY <1>1
  <2>1. CASE q \in 1..m
    <3>1. \A p \in 1..(q - 1) : u[p] = s[p]
      BY <1>1, <2>1
    <3>2. u[q] = s[q]
      BY <1>1, <2>1
    <3> QED BY <1>3, <2>1, <3>1, <3>2
  <2>2. ASSUME NEW j \in 1..n, q = m + j
        PROVE  \/ \A p \in 1..(q - 1) : Before(u[p], u[q])
               \/ IsHeader(u[q]) /\ \E p \in 1..(q - 1) : u[p] = u[q]
    <3>1. u[q] = t[j]
      BY <1>1, <2>2
    <3>2. CASE \A p \in 1..(j - 1) : Before(t[p], t[j])
      <4>1. ASSUME NEW p \in 1..(q - 1) PROVE Before(u[p], u[q])
        <5>1. CASE p \in 1..m
          <6>1. u[p] \in ToSet(s) /\ u[q] \in ToSet(t)
            BY <1>1, <1>2, <3>1, <5>1
          <6> QED BY <6>1 DEF Precedes
        <5>2. ASSUME NEW i \in 1..n, p = m + i PROVE Before(u[p], u[q])
          <6>1. i \in 1..(j - 1)
            BY <1>1, <2>2, <5>2
          <6> QED BY <1>1, <3>1, <3>2, <5>2, <6>1
        <5> QED BY <1>1, <2>0, <5>1, <5>2
      <4> QED BY <4>1
    <3>3. ASSUME IsHeader(t[j]), NEW p \in 1..(j - 1), t[p] = t[j]
          PROVE  IsHeader(u[q]) /\ \E r \in 1..(q - 1) : u[r] = u[q]
      <4>1. m + p \in 1..(q - 1) /\ p \in 1..n
        BY <1>1, <2>2
      <4>2. u[m + p] = u[q]
        BY <1>1, <3>1, <3>3, <4>1
      <4> QED BY <3>1, <3>3, <4>1, <4>2
    <3> QED BY <1>3, <3>2, <3>3
  <2> QED BY <1>1, <2>1, <2>2
<1>5. Orderly(u)
  BY <1>1, <1>4 DEF Orderly
<1> QED BY <1>5 DEF u

\* A header may come again between what precedes it and what follows it.
LEMMA OrderlyRepeat ==
  ASSUME NEW T, NEW s \in Seq(T), NEW h \in Seq(T), NEW t \in Seq(T),
         Orderly(s), Ascending(t), Precedes(s, t),
         ToSet(h) \subseteq ToSet(s), \A a \in ToSet(h) : IsHeader(a)
  PROVE  Orderly(s \o (h \o t))
<1> DEFINE m == Len(s)
           n == Len(h)
           u == s \o h
<1>1. /\ m \in Nat /\ n \in Nat /\ Len(u) = m + n
      /\ \A i \in 1..m : u[i] = s[i]
      /\ \A i \in 1..n : u[m + i] = h[i]
      /\ \A i \in 1..(m + n) : i \in 1..m \/ \E j \in 1..n : i = m + j
      /\ u \in Seq(T)
  BY ConcatIndexes
<1>2. /\ \A i \in 1..n : h[i] \in ToSet(h)
      /\ \A x \in ToSet(s) : \E i \in 1..m : x = s[i]
  BY InToSet
<1>3. \A q \in 1..m : \/ \A p \in 1..(q - 1) : Before(s[p], s[q])
                      \/ IsHeader(s[q]) /\ \E p \in 1..(q - 1) : s[p] = s[q]
  BY DEF Orderly
<1>4. ToSet(u) = ToSet(s)
  <2>1. ToSet(u) = ToSet(s) \cup ToSet(h)
    BY ToSetConcat
  <2> QED BY <2>1
<1>5. u \o t = s \o (h \o t)
  BY ConcatAssociative
<1> HIDE DEF m, n, u
<1>6. ASSUME NEW q \in 1..(m + n)
      PROVE  \/ \A p \in 1..(q - 1) : Before(u[p], u[q])
             \/ IsHeader(u[q]) /\ \E p \in 1..(q - 1) : u[p] = u[q]
  <2>1. CASE q \in 1..m
    <3>1. \A p \in 1..(q - 1) : u[p] = s[p]
      BY <1>1, <2>1
    <3>2. u[q] = s[q]
      BY <1>1, <2>1
    <3> QED BY <1>3, <2>1, <3>1, <3>2
  <2>2. ASSUME NEW j \in 1..n, q = m + j
        PROVE  IsHeader(u[q]) /\ \E p \in 1..(q - 1) : u[p] = u[q]
    <3>1. u[q] \in ToSet(h)
      BY <1>1, <1>2, <2>2
    <3>2. PICK i \in 1..m : u[q] = s[i]
      BY <1>2, <3>1
    <3>3. i \in 1..(q - 1) /\ u[i] = u[q]
      BY <1>1, <2>2, <3>2
    <3> QED BY <3>1, <3>3
  <2> QED BY <1>1, <2>1, <2>2
<1>7. Orderly(u)
  BY <1>1, <1>6 DEF Orderly
<1>8. Orderly(t) /\ Precedes(u, t)
  BY <1>4, AscendingIsOrderly DEF Precedes
<1>9. Orderly(u \o t)
  BY <1>1, <1>7, <1>8, OrderlyConcat
<1> QED BY <1>5, <1>9

-----------------------------------------------------------------------------
(***************************************************************************)
(* What sequences of blocks, chunks and groups have in them.               *)
(***************************************************************************)

\* The lines of some blocks, one block after the other.
Texts(bs) == FlattenSeq([i \in DOMAIN bs |-> bs[i].text])

\* What some chunks have of their own, one chunk after the other.
Bodies(cs) == FlattenSeq([i \in DOMAIN cs |-> cs[i].body])

\* The pieces of a table, with the header in each.
Headed(header, groups) == FlattenSeq([i \in DOMAIN groups |-> header \o groups[i]])

\* The pieces of prose, their sentences joined by spaces.
Joined(groups) == FlattenSeq([i \in DOMAIN groups |-> CutAfter(FlattenSeq(groups[i]), FALSE)])

\* Each of these four is typed, gives nothing for nothing, and grows by what one
\* more of its argument gives.
LEMMA JoinedTypes ==
  ASSUME NEW g \in TextT
  PROVE  CutAfter(FlattenSeq(g), FALSE) \in Seq(LineT)
<1>1. FlattenSeq(g) \in LineT
  BY FlatTyped
<1> QED BY <1>1, CutAfterParts DEF TextT, Parts

LEMMA HeadedTypes ==
  ASSUME NEW header \in TextT, NEW g \in TextT
  PROVE  header \o g \in Seq(LineT)
BY FlatConcat DEF TextT

LEMMA TextsTyped ==
  ASSUME NEW s \in Seq(BlockT)
  PROVE  /\ [i \in DOMAIN s |-> s[i].text] \in Seq(Seq(LineT))
         /\ Texts(s) \in Seq(LineT)
<1> DEFINE U == Seq(LineT)
           m == [i \in DOMAIN s |-> s[i].text]
<1>1. DOMAIN s = 1..Len(s) /\ Len(s) \in Nat /\ \A i \in 1..Len(s) : s[i] \in BlockT
  BY LenProperties
<1>2. \A i \in 1..Len(s) : s[i].text \in U
  BY <1>1 DEF BlockT, TextT
<1> HIDE DEF U
<1>3. m \in Seq(U)
  BY <1>1, <1>2
<1> HIDE DEF m
<1>4. FlattenSeq(m) \in Seq(LineT)
  BY <1>3, FlattenTyped DEF U
<1> QED BY <1>3, <1>4 DEF U, m, Texts

LEMMA TextsEmpty ==
  Texts(<<>>) = <<>>
<1>1. [i \in DOMAIN <<>> |-> <<>>[i].text] = <<>>
  OBVIOUS
<1> QED BY <1>1, FlattenEmpty, Zenon DEF Texts

LEMMA TextsAppend ==
  ASSUME NEW s \in Seq(BlockT), NEW e \in BlockT
  PROVE  Texts(Append(s, e)) = Texts(s) \o e.text
<1> DEFINE U == Seq(LineT)
           t == Append(s, e)
           n == Len(s)
           m == [i \in DOMAIN s |-> s[i].text]
           k == [i \in DOMAIN t |-> t[i].text]
           x == e.text
<1>1. /\ n \in Nat /\ t \in Seq(BlockT) /\ DOMAIN s = 1..n /\ DOMAIN t = 1..(n + 1)
      /\ \A i \in 1..n : t[i] = s[i]
      /\ t[n + 1] = e
  BY AppendProperties, LenProperties
<1>2. m \in Seq(U) /\ k \in Seq(U)
  <2> HIDE DEF t
  <2> QED BY <1>1, TextsTyped
<1>3. x \in U
  BY DEF BlockT, TextT
<1> HIDE DEF t, n, U
<1>4. DOMAIN m = 1..n /\ DOMAIN k = 1..(n + 1)
  BY <1>1
<1>5. \A i \in 1..n : k[i] = m[i]
  <2>1. \A i \in 1..n : i \in 1..(n + 1)
    BY <1>1
  <2> QED BY <1>1, <2>1
<1>6. k[n + 1] = x
  <2>1. n + 1 \in 1..(n + 1)
    BY <1>1
  <2> QED BY <1>1, <2>1
<1> HIDE DEF m, k, x
<1>7. k = Append(m, x)
  <2>1. Len(m) = n /\ Len(k) = n + 1
    BY <1>1, <1>2, <1>4, LenProperties
  <2>2. /\ Append(m, x) \in Seq(U) /\ Len(Append(m, x)) = n + 1
        /\ \A i \in 1..n : Append(m, x)[i] = m[i]
        /\ Append(m, x)[n + 1] = x
    BY <1>2, <1>3, <2>1, AppendProperties
  <2>3. \A i \in 1..(n + 1) : k[i] = Append(m, x)[i]
    <3> SUFFICES ASSUME NEW i \in 1..(n + 1) PROVE k[i] = Append(m, x)[i]
      OBVIOUS
    <3>1. i \in 1..n \/ i = n + 1
      BY <1>1
    <3> QED BY <1>5, <1>6, <2>2, <3>1
  <2> QED BY <1>2, <2>1, <2>2, <2>3, SeqEqual
<1>8. FlattenSeq(k) = FlattenSeq(m) \o x
  BY <1>2, <1>3, <1>7, FlattenAppend DEF U
<1>9. FlattenSeq(m) = Texts(s)
  BY Zenon DEF m, Texts
<1>10. FlattenSeq(k) = Texts(Append(s, e))
  BY Zenon DEF k, t, Texts
<1> QED BY <1>8, <1>9, <1>10 DEF x

LEMMA BodiesTyped ==
  ASSUME NEW s \in Seq(ChunkT)
  PROVE  /\ [i \in DOMAIN s |-> s[i].body] \in Seq(Seq(Atom))
         /\ Bodies(s) \in Seq(Atom)
<1> DEFINE U == Seq(Atom)
           m == [i \in DOMAIN s |-> s[i].body]
<1>1. DOMAIN s = 1..Len(s) /\ Len(s) \in Nat /\ \A i \in 1..Len(s) : s[i] \in ChunkT
  BY LenProperties
<1>2. \A i \in 1..Len(s) : s[i].body \in U
  BY <1>1 DEF ChunkT, LineT
<1> HIDE DEF U
<1>3. m \in Seq(U)
  BY <1>1, <1>2
<1> HIDE DEF m
<1>4. FlattenSeq(m) \in Seq(Atom)
  BY <1>3, FlattenTyped DEF U
<1> QED BY <1>3, <1>4 DEF U, m, Bodies

LEMMA BodiesEmpty ==
  Bodies(<<>>) = <<>>
<1>1. [i \in DOMAIN <<>> |-> <<>>[i].body] = <<>>
  OBVIOUS
<1> QED BY <1>1, FlattenEmpty, Zenon DEF Bodies

LEMMA BodiesAppend ==
  ASSUME NEW s \in Seq(ChunkT), NEW e \in ChunkT
  PROVE  Bodies(Append(s, e)) = Bodies(s) \o e.body
<1> DEFINE U == Seq(Atom)
           t == Append(s, e)
           n == Len(s)
           m == [i \in DOMAIN s |-> s[i].body]
           k == [i \in DOMAIN t |-> t[i].body]
           x == e.body
<1>1. /\ n \in Nat /\ t \in Seq(ChunkT) /\ DOMAIN s = 1..n /\ DOMAIN t = 1..(n + 1)
      /\ \A i \in 1..n : t[i] = s[i]
      /\ t[n + 1] = e
  BY AppendProperties, LenProperties
<1>2. m \in Seq(U) /\ k \in Seq(U)
  <2> HIDE DEF t
  <2> QED BY <1>1, BodiesTyped
<1>3. x \in U
  BY DEF ChunkT, LineT
<1> HIDE DEF t, n, U
<1>4. DOMAIN m = 1..n /\ DOMAIN k = 1..(n + 1)
  BY <1>1
<1>5. \A i \in 1..n : k[i] = m[i]
  <2>1. \A i \in 1..n : i \in 1..(n + 1)
    BY <1>1
  <2> QED BY <1>1, <2>1
<1>6. k[n + 1] = x
  <2>1. n + 1 \in 1..(n + 1)
    BY <1>1
  <2> QED BY <1>1, <2>1
<1> HIDE DEF m, k, x
<1>7. k = Append(m, x)
  <2>1. Len(m) = n /\ Len(k) = n + 1
    BY <1>1, <1>2, <1>4, LenProperties
  <2>2. /\ Append(m, x) \in Seq(U) /\ Len(Append(m, x)) = n + 1
        /\ \A i \in 1..n : Append(m, x)[i] = m[i]
        /\ Append(m, x)[n + 1] = x
    BY <1>2, <1>3, <2>1, AppendProperties
  <2>3. \A i \in 1..(n + 1) : k[i] = Append(m, x)[i]
    <3> SUFFICES ASSUME NEW i \in 1..(n + 1) PROVE k[i] = Append(m, x)[i]
      OBVIOUS
    <3>1. i \in 1..n \/ i = n + 1
      BY <1>1
    <3> QED BY <1>5, <1>6, <2>2, <3>1
  <2> QED BY <1>2, <2>1, <2>2, <2>3, SeqEqual
<1>8. FlattenSeq(k) = FlattenSeq(m) \o x
  BY <1>2, <1>3, <1>7, FlattenAppend DEF U
<1>9. FlattenSeq(m) = Bodies(s)
  BY Zenon DEF m, Bodies
<1>10. FlattenSeq(k) = Bodies(Append(s, e))
  BY Zenon DEF k, t, Bodies
<1> QED BY <1>8, <1>9, <1>10 DEF x

LEMMA HeadedTyped ==
  ASSUME NEW header \in TextT, NEW s \in Seq(TextT)
  PROVE  /\ [i \in DOMAIN s |-> (header \o s[i])] \in Seq(Seq(LineT))
         /\ Headed(header, s) \in Seq(LineT)
<1> DEFINE U == Seq(LineT)
           m == [i \in DOMAIN s |-> (header \o s[i])]
<1>1. DOMAIN s = 1..Len(s) /\ Len(s) \in Nat /\ \A i \in 1..Len(s) : s[i] \in TextT
  BY LenProperties
<1>2. \A i \in 1..Len(s) : (header \o s[i]) \in U
  BY <1>1, HeadedTypes
<1> HIDE DEF U
<1>3. m \in Seq(U)
  BY <1>1, <1>2
<1> HIDE DEF m
<1>4. FlattenSeq(m) \in Seq(LineT)
  BY <1>3, FlattenTyped DEF U
<1> QED BY <1>3, <1>4 DEF U, m, Headed

LEMMA HeadedEmpty ==
  ASSUME NEW header \in TextT
  PROVE  Headed(header, <<>>) = <<>>
<1>1. [i \in DOMAIN <<>> |-> (header \o <<>>[i])] = <<>>
  OBVIOUS
<1> QED BY <1>1, FlattenEmpty, Zenon DEF Headed

LEMMA HeadedAppend ==
  ASSUME NEW header \in TextT, NEW s \in Seq(TextT), NEW e \in TextT
  PROVE  Headed(header, Append(s, e)) = Headed(header, s) \o (header \o e)
<1> DEFINE U == Seq(LineT)
           t == Append(s, e)
           n == Len(s)
           m == [i \in DOMAIN s |-> (header \o s[i])]
           k == [i \in DOMAIN t |-> (header \o t[i])]
           x == (header \o e)
<1>1. /\ n \in Nat /\ t \in Seq(TextT) /\ DOMAIN s = 1..n /\ DOMAIN t = 1..(n + 1)
      /\ \A i \in 1..n : t[i] = s[i]
      /\ t[n + 1] = e
  BY AppendProperties, LenProperties
<1>2. m \in Seq(U) /\ k \in Seq(U)
  <2> HIDE DEF t
  <2> QED BY <1>1, HeadedTyped
<1>3. x \in U
  BY HeadedTypes
<1> HIDE DEF t, n, U
<1>4. DOMAIN m = 1..n /\ DOMAIN k = 1..(n + 1)
  BY <1>1
<1>5. \A i \in 1..n : k[i] = m[i]
  <2>1. \A i \in 1..n : i \in 1..(n + 1)
    BY <1>1
  <2> QED BY <1>1, <2>1
<1>6. k[n + 1] = x
  <2>1. n + 1 \in 1..(n + 1)
    BY <1>1
  <2> QED BY <1>1, <2>1
<1> HIDE DEF m, k, x
<1>7. k = Append(m, x)
  <2>1. Len(m) = n /\ Len(k) = n + 1
    BY <1>1, <1>2, <1>4, LenProperties
  <2>2. /\ Append(m, x) \in Seq(U) /\ Len(Append(m, x)) = n + 1
        /\ \A i \in 1..n : Append(m, x)[i] = m[i]
        /\ Append(m, x)[n + 1] = x
    BY <1>2, <1>3, <2>1, AppendProperties
  <2>3. \A i \in 1..(n + 1) : k[i] = Append(m, x)[i]
    <3> SUFFICES ASSUME NEW i \in 1..(n + 1) PROVE k[i] = Append(m, x)[i]
      OBVIOUS
    <3>1. i \in 1..n \/ i = n + 1
      BY <1>1
    <3> QED BY <1>5, <1>6, <2>2, <3>1
  <2> QED BY <1>2, <2>1, <2>2, <2>3, SeqEqual
<1>8. FlattenSeq(k) = FlattenSeq(m) \o x
  BY <1>2, <1>3, <1>7, FlattenAppend DEF U
<1>9. FlattenSeq(m) = Headed(header, s)
  BY Zenon DEF m, Headed
<1>10. FlattenSeq(k) = Headed(header, Append(s, e))
  BY Zenon DEF k, t, Headed
<1> QED BY <1>8, <1>9, <1>10 DEF x

LEMMA JoinedTyped ==
  ASSUME NEW s \in Seq(TextT)
  PROVE  /\ [i \in DOMAIN s |-> CutAfter(FlattenSeq(s[i]), FALSE)] \in Seq(Seq(LineT))
         /\ Joined(s) \in Seq(LineT)
<1> DEFINE U == Seq(LineT)
           at(i) == CutAfter(FlattenSeq(s[i]), FALSE)
           m == [i \in DOMAIN s |-> at(i)]
<1>1. DOMAIN s = 1..Len(s) /\ Len(s) \in Nat /\ \A i \in 1..Len(s) : s[i] \in TextT
  BY LenProperties
<1>2. \A i \in 1..Len(s) : at(i) \in U
  BY <1>1, JoinedTypes
<1> HIDE DEF U, at
<1>3. m \in Seq(U)
  BY <1>1, <1>2
<1> HIDE DEF m
<1>4. FlattenSeq(m) \in Seq(LineT)
  BY <1>3, FlattenTyped DEF U
<1> QED BY <1>3, <1>4 DEF U, m, at, Joined

LEMMA JoinedEmpty ==
  Joined(<<>>) = <<>>
<1>1. [i \in DOMAIN <<>> |-> CutAfter(FlattenSeq(<<>>[i]), FALSE)] = <<>>
  OBVIOUS
<1> QED BY <1>1, FlattenEmpty, Zenon DEF Joined

LEMMA JoinedAppend ==
  ASSUME NEW s \in Seq(TextT), NEW e \in TextT
  PROVE  Joined(Append(s, e)) = Joined(s) \o CutAfter(FlattenSeq(e), FALSE)
<1> DEFINE U == Seq(LineT)
           t == Append(s, e)
           n == Len(s)
           m == [i \in DOMAIN s |-> CutAfter(FlattenSeq(s[i]), FALSE)]
           k == [i \in DOMAIN t |-> CutAfter(FlattenSeq(t[i]), FALSE)]
           x == CutAfter(FlattenSeq(e), FALSE)
<1>1. /\ n \in Nat /\ t \in Seq(TextT) /\ DOMAIN s = 1..n /\ DOMAIN t = 1..(n + 1)
      /\ \A i \in 1..n : t[i] = s[i]
      /\ t[n + 1] = e
  BY AppendProperties, LenProperties
<1>2. m \in Seq(U) /\ k \in Seq(U)
  <2> HIDE DEF t
  <2> QED BY <1>1, JoinedTyped
<1>3. x \in U
  BY JoinedTypes
<1> HIDE DEF t, n, U
<1>4. DOMAIN m = 1..n /\ DOMAIN k = 1..(n + 1)
  BY <1>1
<1>5. \A i \in 1..n : k[i] = m[i]
  <2>1. \A i \in 1..n : i \in 1..(n + 1)
    BY <1>1
  <2> QED BY <1>1, <2>1
<1>6. k[n + 1] = x
  <2>1. n + 1 \in 1..(n + 1)
    BY <1>1
  <2> QED BY <1>1, <2>1
<1> HIDE DEF m, k, x
<1>7. k = Append(m, x)
  <2>1. Len(m) = n /\ Len(k) = n + 1
    BY <1>1, <1>2, <1>4, LenProperties
  <2>2. /\ Append(m, x) \in Seq(U) /\ Len(Append(m, x)) = n + 1
        /\ \A i \in 1..n : Append(m, x)[i] = m[i]
        /\ Append(m, x)[n + 1] = x
    BY <1>2, <1>3, <2>1, AppendProperties
  <2>3. \A i \in 1..(n + 1) : k[i] = Append(m, x)[i]
    <3> SUFFICES ASSUME NEW i \in 1..(n + 1) PROVE k[i] = Append(m, x)[i]
      OBVIOUS
    <3>1. i \in 1..n \/ i = n + 1
      BY <1>1
    <3> QED BY <1>5, <1>6, <2>2, <3>1
  <2> QED BY <1>2, <2>1, <2>2, <2>3, SeqEqual
<1>8. FlattenSeq(k) = FlattenSeq(m) \o x
  BY <1>2, <1>3, <1>7, FlattenAppend DEF U
<1>9. FlattenSeq(m) = Joined(s)
  BY Zenon DEF m, Joined
<1>10. FlattenSeq(k) = Joined(Append(s, e))
  BY Zenon DEF k, t, Joined
<1> QED BY <1>8, <1>9, <1>10 DEF x

\* Joining the sentences of each piece leaves the atoms and their order.
LEMMA JoinedFlattens ==
  \A gs \in GroupsT : FlattenSeq(Joined(gs)) = FlattenSeq(FlattenSeq(gs))
<1> DEFINE S == {gs \in GroupsT : FlattenSeq(Joined(gs)) = FlattenSeq(FlattenSeq(gs))}
<1>1. <<>> \in S
  BY JoinedEmpty, FlattenEmpty DEF GroupsT
<1>2. ASSUME NEW gs \in Seq(TextT), NEW g \in TextT, gs \in S PROVE Append(gs, g) \in S
  <2>1. Joined(Append(gs, g)) = Joined(gs) \o CutAfter(FlattenSeq(g), FALSE)
    BY JoinedAppend
  <2>2. Joined(gs) \in TextT /\ FlattenSeq(g) \in LineT
    BY JoinedTyped, FlatTyped DEF TextT
  <2>3. FlattenSeq(Joined(gs) \o CutAfter(FlattenSeq(g), FALSE))
          = FlattenSeq(Joined(gs)) \o FlattenSeq(g)
    <3>1. Parts(CutAfter(FlattenSeq(g), FALSE), FlattenSeq(g), FALSE)
      BY <2>2, CutAfterParts
    <3> QED BY <2>2, <3>1, FlatConcat DEF Parts
  <2>4. FlattenSeq(Append(gs, g)) = FlattenSeq(gs) \o g
    BY FlattenAppend DEF TextT
  <2>5. FlattenSeq(gs) \in TextT
    BY FlattenTyped DEF TextT
  <2>6. FlattenSeq(FlattenSeq(gs) \o g) = FlattenSeq(FlattenSeq(gs)) \o FlattenSeq(g)
    BY <2>5, FlatConcat
  <2>7. Append(gs, g) \in GroupsT
    BY AppendProperties DEF GroupsT
  <2> QED BY <1>2, <2>1, <2>3, <2>4, <2>6, <2>7
<1> HIDE DEF S
<1>3. \A gs \in Seq(TextT) : gs \in S
  BY <1>1, <1>2, SeqInduction
<1> QED BY <1>3 DEF S, GroupsT

\* A header in front of every group is a document again.
LEMMA HeadedIsOrderly ==
  ASSUME NEW header \in TextT, \A a \in ToSet(FlattenSeq(header)) : IsHeader(a)
  PROVE  \A gs \in GroupsT :
           Ascending(FlattenSeq(header) \o FlattenSeq(FlattenSeq(gs))) /\ gs # <<>>
             => /\ Orderly(FlattenSeq(Headed(header, gs)))
                /\ ToSet(FlattenSeq(Headed(header, gs)))
                     = ToSet(FlattenSeq(header)) \cup ToSet(FlattenSeq(FlattenSeq(gs)))
<1> DEFINE H == FlattenSeq(header)
           All(gs) == FlattenSeq(FlattenSeq(gs))
           Out(gs) == FlattenSeq(Headed(header, gs))
           Good(gs) == Ascending(H \o All(gs)) /\ gs # <<>>
                         => /\ Orderly(Out(gs))
                            /\ ToSet(Out(gs)) = ToSet(H) \cup ToSet(All(gs))
           S == {gs \in GroupsT : Good(gs)}
<1>0. H \in LineT /\ H \in Seq(Atom)
  BY FlatTyped DEF LineT
<1>1. <<>> \in S
  BY DEF GroupsT
<1>2. ASSUME NEW gs \in Seq(TextT), NEW g \in TextT, gs \in S PROVE Append(gs, g) \in S
  <2> DEFINE G == FlattenSeq(g)
  <2>1. Headed(header, Append(gs, g)) = Headed(header, gs) \o (header \o g)
    BY HeadedAppend
  <2>2. Headed(header, gs) \in TextT /\ header \o g \in TextT
    BY HeadedTyped, FlatConcat DEF TextT
  <2>3. Out(Append(gs, g)) = Out(gs) \o (H \o G)
    <3>1. FlattenSeq(Headed(header, gs) \o (header \o g)) = Out(gs) \o FlattenSeq(header \o g)
      BY <2>2, FlatConcat
    <3>2. FlattenSeq(header \o g) = H \o G
      BY FlatConcat
    <3> QED BY <2>1, <3>1, <3>2
  <2>4. FlattenSeq(gs) \in TextT
    BY FlattenTyped DEF TextT
  <2>5. All(Append(gs, g)) = All(gs) \o G
    <3>1. FlattenSeq(Append(gs, g)) = FlattenSeq(gs) \o g
      BY FlattenAppend DEF TextT
    <3> QED BY <2>4, <3>1, FlatConcat
  <2>6. Append(gs, g) \in GroupsT
    BY AppendProperties DEF GroupsT
  <2>7. Out(gs) \in Seq(Atom) /\ All(gs) \in Seq(Atom) /\ G \in Seq(Atom)
    BY <2>2, <2>4, FlatTyped DEF LineT
  <2>8. Good(gs)
    BY <1>2
  <2>9. gs = <<>> => Out(gs) = <<>> /\ All(gs) = <<>>
    BY HeadedEmpty, FlattenEmpty
  <2> HIDE DEF H, All, Out, G
  <2>10. ASSUME Ascending(H \o All(Append(gs, g)))
         PROVE  /\ Orderly(Out(Append(gs, g)))
                /\ ToSet(Out(Append(gs, g))) = ToSet(H) \cup ToSet(All(Append(gs, g)))
    <3>1. H \o (All(gs) \o G) = (H \o All(gs)) \o G /\ H \o All(gs) \in Seq(Atom)
      <4>1. H \o (All(gs) \o G) = (H \o All(gs)) \o G
        BY <1>0, <2>7, ConcatAssociative, SMTT(30)
      <4>2. H \o All(gs) \in Seq(Atom)
        BY <1>0, <2>7, ConcatProperties
      <4> QED BY <4>1, <4>2
    <3>2. Ascending((H \o All(gs)) \o G)
      BY <2>5, <2>10, <3>1
    <3>3. Ascending(H \o All(gs)) /\ Ascending(G) /\ Precedes(H \o All(gs), G)
      BY <2>7, <3>1, <3>2, AscendingConcat
    <3>4. /\ ToSet(H \o All(gs)) = ToSet(H) \cup ToSet(All(gs))
          /\ ToSet(All(gs) \o G) = ToSet(All(gs)) \cup ToSet(G)
          /\ ToSet(H \o G) = ToSet(H) \cup ToSet(G)
          /\ H \o G \in Seq(Atom)
      BY <1>0, <2>7, ToSetConcat, ConcatProperties
    <3>5. ToSet(Out(gs) \o (H \o G)) = ToSet(Out(gs)) \cup (ToSet(H) \cup ToSet(G))
      <4> DEFINE K == H \o G
      <4>0. K \in Seq(Atom)
        BY <3>4
      <4> HIDE DEF K
      <4>1. ToSet(Out(gs) \o K) = ToSet(Out(gs)) \cup ToSet(K)
        BY <2>7, <4>0, ToSetConcat
      <4> QED BY <3>4, <4>1 DEF K
    <3>6. CASE gs = <<>>
      <4>1. Out(gs) \o (H \o G) = H \o G /\ H \o All(gs) = H /\ All(gs) \o G = G
        BY <1>0, <2>7, <2>9, <3>4, <3>6, ConcatEmptySeq
      <4>2. Ascending(H \o G)
        BY <3>2, <4>1
      <4>3. Orderly(H \o G)
        BY <4>2, AscendingIsOrderly
      <4> QED BY <2>3, <2>5, <3>4, <4>1, <4>3
    <3>7. CASE gs # <<>>
      <4>1. Orderly(Out(gs)) /\ ToSet(Out(gs)) = ToSet(H) \cup ToSet(All(gs))
        BY <2>8, <3>3, <3>7
      <4>2. Precedes(Out(gs), G)
        BY <3>3, <3>4, <4>1 DEF Precedes
      <4>3. ToSet(H) \subseteq ToSet(Out(gs)) /\ \A a \in ToSet(H) : IsHeader(a)
        BY <4>1 DEF H
      <4>4. Orderly(Out(gs) \o (H \o G))
        BY <1>0, <2>7, <3>3, <4>1, <4>2, <4>3, OrderlyRepeat
      <4>5. ToSet(Out(gs) \o (H \o G)) = ToSet(H) \cup ToSet(All(gs) \o G)
        BY <3>4, <3>5, <4>1
      <4> QED BY <2>3, <2>5, <4>4, <4>5
    <3> QED BY <3>6, <3>7
  <2> QED BY <2>6, <2>10
<1> HIDE DEF S
<1>3. \A gs \in Seq(TextT) : gs \in S
  BY <1>1, <1>2, SeqInduction
<1> QED BY <1>3 DEF S, GroupsT

-----------------------------------------------------------------------------
(***************************************************************************)
(* A block in the document.                                                *)
(***************************************************************************)

\* The atoms of one line: in order, of its number and kind, all but the last of
\* them ending a sentence; and there are some if it is a line of text or a row.
LEMMA AtomsOfLine ==
  ASSUME NEW i \in Nat, NEW line \in Lines
  PROVE  /\ AtomsOf(i, line) \in LineT
         /\ Ascending(AtomsOf(i, line))
         /\ \A a \in ToSet(AtomsOf(i, line)) : a.line = i /\ a.kind = line.kind
         /\ \A k \in 1..(Len(AtomsOf(i, line)) - 1) : AtomsOf(i, line)[k].ends
         /\ line.kind \in {"text", "row", "separator"} => AtomsOf(i, line) # <<>>
         /\ line.kind \in {"row", "separator"} => Len(AtomsOf(i, line)) = 1
         /\ line.kind \in Kinds /\ line.level \in 0..6 /\ line.title \in STRING
<1> DEFINE s == AtomsOf(i, line)
           n == Len(line.sizes)
<1>1. /\ line.sizes \in Seq(Nat \ {0}) /\ line.kind \in Kinds
      /\ line.level \in 0..6 /\ line.title \in STRING /\ line.gap \in Nat /\ line.ends \in BOOLEAN
      /\ line.kind \in {"row", "separator"} => Len(line.sizes) = 1
      /\ line.kind = "text" => line.sizes # <<>>
  BY LinesAssumption
<1>2. n \in Nat /\ DOMAIN line.sizes = 1..n /\ \A k \in 1..n : line.sizes[k] \in Nat
  BY <1>1, LenProperties
<1>3. line.kind \in {"text", "row", "separator"} => n # 0
  <2> DEFINE z == line.sizes
  <2>0. z \in Seq(Nat \ {0})
    BY <1>1
  <2>1. z # <<>> => Len(z) # 0
    <3> HIDE DEF z
    <3> QED BY <2>0, EmptySeq
  <2>2. line.kind \in {"row", "separator"} => n = 1
    BY <1>1
  <2>3. line.kind = "text" => n # 0
    BY <1>1, <2>1
  <2> HIDE DEF n
  <2> QED BY <2>2, <2>3
<1> HIDE DEF n
<1> DEFINE at(k) == [line |-> i, part |-> k, kind |-> line.kind, tokens |-> line.sizes[k],
                     gap  |-> line.gap, ends |-> k < n \/ line.ends]
<1>4. s = [k \in 1..n |-> at(k)]
  BY <1>2 DEF AtomsOf, n
<1>5. \A k \in 1..n : at(k) \in Atom
  BY <1>1, <1>2 DEF Atom
<1>6. s \in Seq(Atom) /\ Len(s) = n /\ \A k \in 1..n : s[k] = at(k)
  <2> HIDE DEF at, s
  <2> QED BY <1>2, <1>4, <1>5
<1> HIDE DEF s
<1>a. \A k \in 1..n : /\ s[k].line = i /\ s[k].part = k /\ s[k].kind = line.kind
                      /\ s[k].ends = (k < n \/ line.ends)
  BY <1>6
<1>b. \A k \in 1..(n - 1) : s[k].ends
  <2> SUFFICES ASSUME NEW k \in 1..(n - 1) PROVE s[k].ends
    OBVIOUS
  <2>1. k \in 1..n /\ k < n
    BY <1>2
  <2> QED BY <1>a, <2>1
<1> HIDE DEF at
<1>7. \A a \in ToSet(s) : a.line = i /\ a.kind = line.kind
  <2> SUFFICES ASSUME NEW a \in ToSet(s) PROVE a.line = i /\ a.kind = line.kind
    OBVIOUS
  <2>1. PICK k \in 1..n : a = s[k]
    BY <1>6, InToSet
  <2> QED BY <1>a, <2>1
<1>8. Ascending(s)
  <2> SUFFICES ASSUME NEW q \in 1..n, NEW p \in 1..(q - 1) PROVE Before(s[p], s[q])
    BY <1>6 DEF Ascending
  <2>1. p \in 1..n /\ p < q
    BY <1>2
  <2> QED BY <1>a, <2>1 DEF Before
<1>9. s # <<>> <=> n # 0
  BY <1>6, EmptySeq
<1>10. line.kind \in {"row", "separator"} => n = 1
  BY <1>1 DEF n
<1>11. /\ s \in LineT
       /\ line.kind \in {"text", "row", "separator"} => s # <<>>
       /\ line.kind \in {"row", "separator"} => Len(s) = 1
  BY <1>3, <1>6, <1>9, <1>10 DEF LineT
<1>12. \A k \in 1..(Len(s) - 1) : s[k].ends
  BY <1>b, <1>6
<1> QED BY <1>1, <1>7, <1>8, <1>11, <1>12 DEF s

\* Lines that follow one another ascend as a whole.
LEMMA LinesAscend ==
  ASSUME NEW f \in Nat
  PROVE  \A t \in TextT :
           (\A k \in 1..Len(t) : /\ Ascending(t[k])
                                 /\ \A a \in ToSet(t[k]) : a.line = f + k - 1)
             => /\ Ascending(FlattenSeq(t))
                /\ \A a \in ToSet(FlattenSeq(t)) :
                      \E k \in 1..Len(t) : a \in ToSet(t[k]) /\ a.line = f + k - 1
<1> DEFINE From(t) == \A k \in 1..Len(t) : /\ Ascending(t[k])
                                           /\ \A a \in ToSet(t[k]) : a.line = f + k - 1
           Out(t) == /\ Ascending(FlattenSeq(t))
                     /\ \A a \in ToSet(FlattenSeq(t)) :
                          \E k \in 1..Len(t) : a \in ToSet(t[k]) /\ a.line = f + k - 1
           S == {t \in TextT : From(t) => Out(t)}
<1>1. <<>> \in S
  <2>1. FlattenSeq(<<>>) = <<>> /\ <<>> \in TextT
    BY FlatEmpty
  <2>2. Ascending(<<>>) /\ ToSet(<<>>) = {}
    BY DEF Ascending, ToSet
  <2> QED BY <2>1, <2>2
<1>2. ASSUME NEW t \in Seq(LineT), NEW l \in LineT, t \in S PROVE Append(t, l) \in S
  <2>1. Append(t, l) \in TextT /\ FlattenSeq(Append(t, l)) = FlattenSeq(t) \o l
    BY <1>2, FlatAppend DEF TextT
  <2> SUFFICES ASSUME From(Append(t, l)) PROVE Out(Append(t, l))
    BY <2>1
  <2> DEFINE n == Len(t)
             u == Append(t, l)
  <2>2. /\ n \in Nat /\ Len(u) = n + 1 /\ u[n + 1] = l
        /\ \A k \in 1..n : k \in 1..(n + 1) /\ u[k] = t[k]
    BY AppendProperties, LenProperties
  <2>3. /\ FlattenSeq(t) \in Seq(Atom) /\ l \in Seq(Atom)
    BY FlatTyped DEF LineT, TextT
  <2>4. n + 1 \in 1..(n + 1)
    BY <2>2
  <2>5. \A k \in 1..(n + 1) : /\ Ascending(u[k])
                              /\ \A a \in ToSet(u[k]) : a.line = f + k - 1
    BY <2>2
  <2> HIDE DEF n, u
  <2>6. From(t)
    BY <2>2, <2>5 DEF n
  <2>7. /\ Ascending(l) /\ \A a \in ToSet(l) : a.line = f + (n + 1) - 1
    BY <2>2, <2>4, <2>5
  <2>8. Out(t)
    BY <1>2, <2>6
  <2>9. Precedes(FlattenSeq(t), l)
    <3> SUFFICES ASSUME NEW a \in ToSet(FlattenSeq(t)), NEW b \in ToSet(l)
                 PROVE  a.line < b.line
      BY DEF Precedes, Before
    <3>1. PICK k \in 1..n : a.line = f + k - 1
      BY <2>8 DEF n
    <3> QED BY <2>2, <2>7, <3>1
  <2>10. Ascending(FlattenSeq(u))
    BY <2>1, <2>3, <2>7, <2>8, <2>9, AscendingConcat DEF u
  <2>11. ToSet(FlattenSeq(u)) = ToSet(FlattenSeq(t)) \cup ToSet(l)
    BY <2>1, <2>3, ToSetConcat DEF u
  <2>12. ASSUME NEW a \in ToSet(FlattenSeq(u))
         PROVE  \E k \in 1..Len(u) : a \in ToSet(u[k]) /\ a.line = f + k - 1
    <3>1. CASE a \in ToSet(FlattenSeq(t))
      <4>1. PICK k \in 1..n : a \in ToSet(t[k]) /\ a.line = f + k - 1
        BY <2>8, <3>1 DEF n
      <4> QED BY <2>2, <4>1
    <3>2. CASE a \in ToSet(l)
      BY <2>2, <2>4, <2>7, <3>2
    <3> QED BY <2>11, <3>1, <3>2
  <2> QED BY <2>10, <2>12 DEF u
<1> HIDE DEF S
<1>3. \A t \in Seq(LineT) : t \in S
  BY <1>1, <1>2, SeqInduction
<1> QED BY <1>3 DEF S, TextT

\* A sentence that a line leaves open goes on with the first atom of the next.
Flows(s) == \A k \in 1..(Len(s) - 1) : ~ s[k].ends => KeptTogether(s[k], s[k + 1])

\* Lines of text that follow one another flow as a whole.
LEMMA LinesFlow ==
  ASSUME NEW f \in Nat
  PROVE  \A t \in TextT :
           (\A k \in 1..Len(t) : /\ t[k] # <<>>
                                 /\ \A a \in ToSet(t[k]) : a.line = f + k - 1 /\ a.kind = "text"
                                 /\ \A j \in 1..(Len(t[k]) - 1) : t[k][j].ends)
             => Flows(FlattenSeq(t))
<1> DEFINE Line(l, k) == /\ l # <<>>
                         /\ \A a \in ToSet(l) : a.line = f + k - 1 /\ a.kind = "text"
                         /\ \A j \in 1..(Len(l) - 1) : l[j].ends
           From(t) == \A k \in 1..Len(t) : Line(t[k], k)
           Out(s, n) == /\ Flows(s)
                        /\ Len(s) # 0 => s[Len(s)].line = f + n - 1 /\ s[Len(s)].kind = "text"
           S == {t \in TextT : From(t) => Out(FlattenSeq(t), Len(t))}
<1>1. <<>> \in S
  <2>1. Out(<<>>, 0)
    BY DEF Flows
  <2>2. <<>> \in TextT /\ FlattenSeq(<<>>) = <<>> /\ Len(<<>>) = 0
    BY FlatEmpty
  <2> QED BY <2>1, <2>2
<1>2. ASSUME NEW t \in Seq(LineT), NEW l \in LineT, t \in S PROVE Append(t, l) \in S
  <2> DEFINE n == Len(t)
             u == Append(t, l)
             F == FlattenSeq(t)
             s == F \o l
             m == Len(F)
  <2>1. u \in TextT /\ FlattenSeq(u) = s
    BY <1>2, FlatAppend DEF TextT
  <2>2. /\ n \in Nat /\ Len(u) = n + 1 /\ u[n + 1] = l
        /\ \A k \in 1..n : k \in 1..(n + 1) /\ u[k] = t[k]
        /\ n + 1 \in 1..(n + 1)
    BY AppendProperties, LenProperties
  <2>3. F \in Seq(Atom) /\ l \in Seq(Atom) /\ m \in Nat /\ Len(l) \in Nat
    BY FlatTyped, LenProperties DEF LineT, TextT
  <2>4. /\ Len(s) = m + Len(l)
        /\ \A i \in 1..m : s[i] = F[i]
        /\ \A i \in 1..Len(l) : s[m + i] = l[i]
    <3> HIDE DEF F
    <3>0. F \in Seq(Atom) /\ l \in Seq(Atom)
      BY <2>3
    <3>1. Len(s) = m + Len(l)
      BY <3>0, ConcatIndexes
    <3>2. \A i \in 1..m : s[i] = F[i]
      BY <3>0, ConcatIndexes
    <3>3. \A i \in 1..Len(l) : s[m + i] = l[i]
      BY <3>0, ConcatIndexes
    <3> QED BY <3>1, <3>2, <3>3
  <2> SUFFICES ASSUME From(u) PROVE Out(s, n + 1)
    BY <2>1, <2>2
  <2>5. From(t)
    BY <2>2 DEF n
  <2>6. Out(F, n)
    BY <1>2, <2>5
  <2>7. Line(l, n + 1)
    BY <2>2
  <2>8. Len(l) # 0 /\ \A i \in 1..Len(l) : l[i] \in ToSet(l)
    BY <2>3, <2>7, EmptySeq, InToSet
  <2>9. \A i \in 1..Len(l) : l[i].line = f + n /\ l[i].kind = "text"
    <3>1. \A a \in ToSet(l) : a.line = f + (n + 1) - 1 /\ a.kind = "text"
      BY <2>7
    <3>2. f + (n + 1) - 1 = f + n
      BY <2>2
    <3> QED BY <2>8, <3>1, <3>2
  <2>10. \A j \in 1..(Len(l) - 1) : l[j].ends
    BY <2>7
  <2>11. /\ \A k \in 1..(m - 1) : ~ F[k].ends => KeptTogether(F[k], F[k + 1])
         /\ m # 0 => F[m].line = f + n - 1 /\ F[m].kind = "text"
    BY <2>6 DEF Flows
  <2> HIDE DEF s, F, m, n, u, Line, From
  <2>12. ASSUME NEW k \in 1..(Len(s) - 1), ~ s[k].ends
         PROVE  KeptTogether(s[k], s[k + 1])
    <3>1. CASE k \in 1..(m - 1)
      <4>1. k \in 1..m /\ k + 1 \in 1..m
        BY <2>3, <3>1
      <4> QED BY <2>4, <2>11, <2>12, <3>1, <4>1
    <3>2. CASE k = m /\ m # 0
      <4>1. k \in 1..m /\ 1 \in 1..Len(l)
        BY <2>3, <2>8, <3>2
      <4>2. s[k] = F[m] /\ s[k + 1] = l[1]
        BY <2>4, <3>2, <4>1
      <4>3. F[m].line = f + n - 1 /\ F[m].kind = "text" /\ l[1].line = f + n /\ l[1].kind = "text"
        BY <2>9, <2>11, <3>2, <4>1
      <4>4. f + n = (f + n - 1) + 1
        BY <2>2
      <4> QED BY <2>12, <4>2, <4>3, <4>4 DEF KeptTogether
    <3>3. CASE k > m
      <4> DEFINE j == k - m
      <4>1. j \in 1..(Len(l) - 1) /\ j \in 1..Len(l) /\ k = m + j
        BY <2>3, <2>4, <3>3
      <4> HIDE DEF j
      <4> QED BY <2>4, <2>10, <2>12, <4>1
    <3> QED BY <2>3, <2>4, <3>1, <3>2, <3>3
  <2>13. Flows(s)
    BY <2>12 DEF Flows
  <2>14. s[Len(s)].line = f + (n + 1) - 1 /\ s[Len(s)].kind = "text"
    <3>1. Len(l) \in 1..Len(l) /\ f + (n + 1) - 1 = f + n
      BY <2>2, <2>3, <2>8
    <3> QED BY <2>4, <2>9, <3>1
  <2> QED BY <2>13, <2>14
<1> HIDE DEF S
<1>3. \A t \in Seq(LineT) : t \in S
  BY <1>1, <1>2, SeqInduction
<1> QED BY <1>3 DEF S, TextT

\* The block is the document from line f on; a table is a whole table.
Covers(b, f) ==
  /\ b \in BlockT
  /\ f \in 1..Len(markdown)
  /\ b.text # <<>>
  /\ f + Len(b.text) - 1 <= Len(markdown)
  /\ \A k \in 1..Len(b.text) :
        /\ b.text[k] = AtomsOf(f + k - 1, markdown[f + k - 1])
        /\ SectionPath(f + k - 1) = b.heading_path
        /\ IF b.is_table THEN IsRow(f + k - 1) ELSE markdown[f + k - 1].kind = "text"
  /\ b.is_table =>
        /\ f = 1 \/ ~ IsRow(f - 1)
        /\ f + Len(b.text) <= Len(markdown) => ~ IsRow(f + Len(b.text))

\* The lines of a block that stands in the document.
LEMMA CoveredLines ==
  ASSUME markdown \in Seq(Lines), NEW b, NEW f, Covers(b, f)
  PROVE  /\ b \in BlockT /\ b.text \in TextT /\ b.heading_path \in PathT
         /\ f \in Nat \ {0} /\ Len(b.text) \in Nat \ {0}
         /\ \A i \in f..(f + Len(b.text) - 1) :
               /\ i \in 1..Len(markdown) /\ markdown[i] \in Lines
               /\ b.text[i - f + 1] = AtomsOf(i, markdown[i])
               /\ SectionPath(i) = b.heading_path
               /\ IF b.is_table THEN IsRow(i) ELSE markdown[i].kind = "text"
         /\ \A k \in 1..Len(b.text) : f + k - 1 \in f..(f + Len(b.text) - 1)
<1>1. /\ b \in BlockT /\ f \in 1..Len(markdown) /\ b.text # <<>>
      /\ f + Len(b.text) - 1 <= Len(markdown)
      /\ \A k \in 1..Len(b.text) :
            /\ b.text[k] = AtomsOf(f + k - 1, markdown[f + k - 1])
            /\ SectionPath(f + k - 1) = b.heading_path
            /\ IF b.is_table THEN IsRow(f + k - 1) ELSE markdown[f + k - 1].kind = "text"
  BY DEF Covers
<1>2. b.text \in TextT /\ b.heading_path \in PathT
  BY <1>1 DEF BlockT
<1>3. /\ f \in Nat \ {0} /\ Len(b.text) \in Nat \ {0} /\ Len(markdown) \in Nat
      /\ \A i \in 1..Len(markdown) : markdown[i] \in Lines
  BY <1>1, <1>2, EmptySeq, LenProperties DEF TextT
<1>4. ASSUME NEW i \in f..(f + Len(b.text) - 1)
      PROVE  /\ i \in 1..Len(markdown) /\ markdown[i] \in Lines
             /\ b.text[i - f + 1] = AtomsOf(i, markdown[i])
             /\ SectionPath(i) = b.heading_path
             /\ IF b.is_table THEN IsRow(i) ELSE markdown[i].kind = "text"
  <2>1. i - f + 1 \in 1..Len(b.text) /\ f + (i - f + 1) - 1 = i /\ i \in 1..Len(markdown)
    BY <1>1, <1>3
  <2> QED BY <1>1, <1>3, <2>1
<1>5. \A k \in 1..Len(b.text) : f + k - 1 \in f..(f + Len(b.text) - 1)
  BY <1>3
<1> QED BY <1>1, <1>2, <1>3, <1>4, <1>5

\* Its atoms: in order, of its lines only, of all its lines, under its heading
\* path, and rows exactly if it is a table.
LEMMA CoveredAtoms ==
  ASSUME markdown \in Seq(Lines), NEW b, NEW f, Covers(b, f)
  PROVE  /\ FlattenSeq(b.text) \in LineT /\ FlattenSeq(b.text) # <<>>
         /\ Ascending(FlattenSeq(b.text))
         /\ \A a \in ToSet(FlattenSeq(b.text)) :
               /\ a.line \in f..(f + Len(b.text) - 1)
               /\ a \in ToSet(AtomsOf(a.line, markdown[a.line]))
               /\ SectionPath(a.line) = b.heading_path
               /\ IsRow(a.line) <=> b.is_table
         /\ \A i \in f..(f + Len(b.text) - 1) :
               ToSet(AtomsOf(i, markdown[i])) \subseteq ToSet(FlattenSeq(b.text))
<1> DEFINE t == b.text
           n == Len(t)
           A == FlattenSeq(t)
<1>1. /\ t \in TextT /\ f \in Nat \ {0} /\ n \in Nat \ {0} /\ b \in BlockT
      /\ \A i \in f..(f + n - 1) :
               /\ i \in 1..Len(markdown) /\ markdown[i] \in Lines
               /\ t[i - f + 1] = AtomsOf(i, markdown[i])
               /\ SectionPath(i) = b.heading_path
               /\ IF b.is_table THEN IsRow(i) ELSE markdown[i].kind = "text"
      /\ \A k \in 1..n : f + k - 1 \in f..(f + n - 1)
  BY CoveredLines
<1>2. \A k \in 1..n : t[k] = AtomsOf(f + k - 1, markdown[f + k - 1])
  BY DEF Covers
<1> HIDE DEF t, n
<1>3. \A k \in 1..n : /\ Ascending(t[k]) /\ t[k] # <<>>
                      /\ \A a \in ToSet(t[k]) : a.line = f + k - 1
  <2> SUFFICES ASSUME NEW k \in 1..n
               PROVE  /\ Ascending(t[k]) /\ t[k] # <<>>
                      /\ \A a \in ToSet(t[k]) : a.line = f + k - 1
    OBVIOUS
  <2> DEFINE i == f + k - 1
  <2>1. i \in f..(f + n - 1) /\ t[k] = AtomsOf(i, markdown[i]) /\ i \in Nat
    BY <1>1, <1>2
  <2> HIDE DEF i
  <2>2. markdown[i] \in Lines /\ markdown[i].kind \in {"text", "row", "separator"}
    BY <1>1, <2>1 DEF IsRow
  <2>3. AtomsOf(i, markdown[i]) # <<>> /\ Ascending(AtomsOf(i, markdown[i]))
        /\ \A a \in ToSet(AtomsOf(i, markdown[i])) : a.line = i
    BY <2>1, <2>2, AtomsOfLine
  <2> QED BY <2>1, <2>3 DEF i
<1>4. /\ Ascending(A)
      /\ \A a \in ToSet(A) : \E k \in 1..n : a \in ToSet(t[k]) /\ a.line = f + k - 1
  <2>1. \A u \in TextT :
           (\A k \in 1..Len(u) : /\ Ascending(u[k])
                                 /\ \A a \in ToSet(u[k]) : a.line = f + k - 1)
             => /\ Ascending(FlattenSeq(u))
                /\ \A a \in ToSet(FlattenSeq(u)) :
                      \E k \in 1..Len(u) : a \in ToSet(u[k]) /\ a.line = f + k - 1
    BY <1>1, LinesAscend
  <2> QED BY <1>1, <1>3, <2>1 DEF n
<1>5. A \in LineT
  BY <1>1, FlatTyped
<1>6. ASSUME NEW a \in ToSet(A)
      PROVE  /\ a.line \in f..(f + n - 1)
             /\ a \in ToSet(AtomsOf(a.line, markdown[a.line]))
             /\ SectionPath(a.line) = b.heading_path
             /\ IsRow(a.line) <=> b.is_table
  <2>1. PICK k \in 1..n : a \in ToSet(t[k]) /\ a.line = f + k - 1
    BY <1>4
  <2>2. a.line \in f..(f + n - 1) /\ t[k] = AtomsOf(a.line, markdown[a.line])
    BY <1>1, <1>2, <2>1
  <2>3. IsRow(a.line) <=> b.is_table
    BY <1>1, <2>2 DEF IsRow
  <2> QED BY <1>1, <2>1, <2>2, <2>3
<1>7. ToSet(A) = UNION {ToSet(t[k]) : k \in 1..n}
  BY <1>1, FlattenToSet DEF TextT, LineT, n
<1>8. \A i \in f..(f + n - 1) : ToSet(AtomsOf(i, markdown[i])) \subseteq ToSet(A)
  <2> SUFFICES ASSUME NEW i \in f..(f + n - 1)
               PROVE  ToSet(AtomsOf(i, markdown[i])) \subseteq ToSet(A)
    OBVIOUS
  <2>1. i - f + 1 \in 1..n
    BY <1>1
  <2> QED BY <1>1, <1>7, <2>1
<1>9. A # <<>>
  <2>1. 1 \in 1..n
    BY <1>1
  <2>2. t[1] \in Seq(Atom) /\ t[1] # <<>>
    BY <1>1, <1>3, <2>1, ElementOfSeq DEF TextT, LineT, n
  <2>3. ToSet(t[1]) # {}
    BY <2>2, InToSet
  <2>4. ToSet(t[1]) \subseteq ToSet(A)
    BY <1>7, <2>1
  <2>5. A \in Seq(Atom)
    BY <1>5 DEF LineT
  <2> QED BY <2>3, <2>4, <2>5, InToSet
<1> QED BY <1>4, <1>5, <1>6, <1>8, <1>9 DEF n, t

\* A paragraph flows.
LEMMA ProseFlows ==
  ASSUME markdown \in Seq(Lines), NEW b, NEW f, Covers(b, f), ~ b.is_table
  PROVE  Flows(FlattenSeq(b.text))
<1> DEFINE t == b.text
           n == Len(t)
<1>1. /\ t \in TextT /\ f \in Nat \ {0} /\ n \in Nat \ {0}
      /\ \A i \in f..(f + n - 1) : markdown[i] \in Lines /\ markdown[i].kind = "text"
      /\ \A k \in 1..n : f + k - 1 \in f..(f + n - 1)
  BY CoveredLines
<1>2. \A k \in 1..n : t[k] = AtomsOf(f + k - 1, markdown[f + k - 1])
  BY DEF Covers
<1> HIDE DEF t, n
<1>3. ASSUME NEW k \in 1..n
      PROVE  /\ t[k] # <<>>
             /\ \A a \in ToSet(t[k]) : a.line = f + k - 1 /\ a.kind = "text"
             /\ \A j \in 1..(Len(t[k]) - 1) : t[k][j].ends
  <2> DEFINE i == f + k - 1
  <2>1. i \in f..(f + n - 1) /\ t[k] = AtomsOf(i, markdown[i]) /\ i \in Nat
    BY <1>1, <1>2
  <2> HIDE DEF i
  <2>2. markdown[i] \in Lines /\ markdown[i].kind = "text"
    BY <1>1, <2>1
  <2>3. /\ AtomsOf(i, markdown[i]) # <<>>
        /\ \A a \in ToSet(AtomsOf(i, markdown[i])) : a.line = i /\ a.kind = "text"
        /\ \A j \in 1..(Len(AtomsOf(i, markdown[i])) - 1) : AtomsOf(i, markdown[i])[j].ends
    BY <2>1, <2>2, AtomsOfLine
  <2> QED BY <2>1, <2>3 DEF i
<1>4. \A u \in TextT :
        (\A k \in 1..Len(u) : /\ u[k] # <<>>
                              /\ \A a \in ToSet(u[k]) : a.line = f + k - 1 /\ a.kind = "text"
                              /\ \A j \in 1..(Len(u[k]) - 1) : u[k][j].ends)
          => Flows(FlattenSeq(u))
  BY <1>1, LinesFlow
<1> QED BY <1>1, <1>3, <1>4 DEF n, t

\* A row is the only atom of its line.
LEMMA RowIsAlone ==
  ASSUME markdown \in Seq(Lines), NEW b, NEW f, Covers(b, f), b.is_table,
         NEW a \in ToSet(FlattenSeq(b.text)), NEW x \in ToSet(FlattenSeq(b.text)),
         a.line = x.line
  PROVE  a = x
<1> DEFINE i == a.line
           s == AtomsOf(i, markdown[i])
<1>1. /\ i \in f..(f + Len(b.text) - 1) /\ a \in ToSet(s) /\ x \in ToSet(s) /\ IsRow(i)
  BY CoveredAtoms
<1>2. i \in Nat /\ markdown[i] \in Lines
  BY <1>1, CoveredLines
<1> HIDE DEF i
<1>3. s \in Seq(Atom) /\ Len(s) = 1
  BY <1>1, <1>2, AtomsOfLine DEF IsRow, LineT
<1> HIDE DEF s
<1>4. \A y \in ToSet(s) : \E k \in 1..Len(s) : y = s[k]
  BY <1>3, InToSet
<1>5. \A y \in ToSet(s) : y = s[1]
  BY <1>3, <1>4
<1> QED BY <1>1, <1>5

\* A row's table starts where the block starts: a block is a whole table.
LEMMA TableStarts ==
  ASSUME markdown \in Seq(Lines), NEW b, NEW f, Covers(b, f), b.is_table,
         NEW i \in f..(f + Len(b.text) - 1)
  PROVE  TableStart(i) = f
<1> DEFINE S == {j \in 1..i : \A k \in j..i : IsRow(k)}
<1>1. /\ f \in Nat \ {0} /\ Len(b.text) \in Nat \ {0}
      /\ \A k \in f..(f + Len(b.text) - 1) : IsRow(k)
  BY CoveredLines
<1>2. f = 1 \/ ~ IsRow(f - 1)
  BY DEF Covers
<1>3. f \in S
  <2>1. \A k \in f..i : k \in f..(f + Len(b.text) - 1)
    BY <1>1
  <2> QED BY <1>1, <2>1
<1>4. \A j \in S : f <= j
  <2> SUFFICES ASSUME NEW j \in S, ~ (f <= j) PROVE FALSE
    OBVIOUS
  <2>0. f \in Nat /\ i \in Nat /\ i >= f /\ j \in 1..i
    BY <1>1
  <2>1. f - 1 \in j..i /\ f # 1
    BY <2>0
  <2> QED BY <1>2, <2>1
<1>5. S \in SUBSET Nat
  BY <1>1
<1> HIDE DEF S
<1>6. Min(S) \in S /\ \A y \in S : Min(S) <= y
  <2>1. S # {}
    BY <1>3
  <2> QED BY <1>5, <2>1, LeastMember
<1>7. Min(S) = f
  <2>1. Min(S) <= f /\ f <= Min(S) /\ Min(S) \in Nat
    BY <1>3, <1>4, <1>5, <1>6
  <2> QED BY <1>1, <2>1
<1> QED BY <1>7 DEF TableStart, S

\* _table_header finds the header of the table that a row is in
\* (chunker.py:137-142).
LEMMA TableLines ==
  ASSUME markdown \in Seq(Lines), NEW b, NEW f, Covers(b, f), b.is_table
  PROVE  \E h \in 1..Len(b.text) :
           /\ TableHeader(b.text) = SubSeq(b.text, 1, h)
           /\ \A i \in f..(f + Len(b.text) - 1) : HeaderLines(i) = f..(f + h - 1)
<1> DEFINE t == b.text
           n == Len(t)
           separated == f + 1 \in DOMAIN markdown /\ markdown[f + 1].kind = "separator"
<1>1. /\ t \in TextT /\ f \in Nat \ {0} /\ n \in Nat \ {0}
      /\ \A i \in f..(f + n - 1) :
               /\ i \in 1..Len(markdown) /\ markdown[i] \in Lines
               /\ t[i - f + 1] = AtomsOf(i, markdown[i])
               /\ IsRow(i)
  BY CoveredLines
<1>2. f + n <= Len(markdown) => ~ IsRow(f + n)
  BY DEF Covers
<1>3. DOMAIN markdown = 1..Len(markdown) /\ Len(markdown) \in Nat
  BY LenProperties
<1> HIDE DEF t, n
<1>4. n >= 2 => (t[2][1].kind = "separator" <=> separated)
  <2> SUFFICES ASSUME n >= 2 PROVE t[2][1].kind = "separator" <=> separated
    OBVIOUS
  <2> DEFINE i == f + 1
             s == AtomsOf(i, markdown[i])
  <2>1. /\ i \in f..(f + n - 1) /\ i \in Nat /\ i - f + 1 = 2
    BY <1>1
  <2>2. i \in 1..Len(markdown) /\ markdown[i] \in Lines /\ t[2] = s /\ IsRow(i)
    BY <1>1, <2>1
  <2> HIDE DEF i
  <2>3. /\ s \in LineT /\ Len(s) = 1
        /\ \A a \in ToSet(s) : a.kind = markdown[i].kind
    BY <2>1, <2>2, AtomsOfLine DEF IsRow
  <2>4. s[1] \in ToSet(s)
    <3> HIDE DEF s
    <3>1. 1 \in 1..Len(s) /\ s \in Seq(Atom)
      BY <2>3 DEF LineT
    <3> QED BY <3>1, InToSet
  <2> QED BY <1>3, <2>2, <2>3, <2>4 DEF i
<1>5. n < 2 => ~ separated
  <2> SUFFICES ASSUME n < 2, separated PROVE FALSE
    OBVIOUS
  <2>1. n = 1 /\ f + 1 <= Len(markdown)
    BY <1>1, <1>3
  <2> QED BY <1>2, <2>1 DEF IsRow
<1> DEFINE h == IF separated THEN 2 ELSE 1
<1>6. h \in 1..n
  BY <1>1, <1>5
<1>7. TableHeader(t) = SubSeq(t, 1, h)
  <2>1. TableHeader(t) = IF n >= 2 /\ t[2][1].kind = "separator"
                           THEN SubSeq(t, 1, 2) ELSE SubSeq(t, 1, 1)
    BY DEF TableHeader, n
  <2>2. (n >= 2 /\ t[2][1].kind = "separator") <=> separated
    BY <1>1, <1>4, <1>5
  <2> HIDE DEF separated
  <2> QED BY <2>1, <2>2
<1>8. ASSUME NEW i \in f..(f + n - 1) PROVE HeaderLines(i) = f..(f + h - 1)
  <2>1. TableStart(i) = f
    BY <1>8, TableStarts DEF n, t
  <2>2. HeaderLines(i) = {f} \cup {j \in {f + 1} \cap DOMAIN markdown : markdown[j].kind = "separator"}
    BY <2>1 DEF HeaderLines
  <2>3. CASE separated
    <3>1. h = 2 /\ f..(f + h - 1) = {f, f + 1}
      BY <1>1, <2>3
    <3> QED BY <2>2, <2>3, <3>1
  <2>4. CASE ~ separated
    <3>1. h = 1 /\ f..(f + h - 1) = {f}
      BY <1>1, <2>4
    <3> QED BY <2>2, <2>4, <3>1
  <2> QED BY <2>3, <2>4
<1> HIDE DEF h
<1> QED BY <1>6, <1>7, <1>8 DEF n, t

\* A table's block is cut behind its header.
IsCut(b, header, rows) ==
  /\ header = TableHeader(b.text)
  /\ rows = SubSeq(b.text, Len(header) + 1, Len(b.text))

\* Header and rows are the table; the header's atoms are marked as such.
LEMMA TableParts ==
  ASSUME markdown \in Seq(Lines), NEW b, NEW f, Covers(b, f), b.is_table,
         NEW header, NEW rows, IsCut(b, header, rows)
  PROVE  /\ header \in TextT /\ rows \in TextT
         /\ b.text = header \o rows
         /\ FlattenSeq(b.text) = FlattenSeq(header) \o FlattenSeq(rows)
         /\ \A a \in ToSet(FlattenSeq(header)) : IsHeader(a)
         /\ \A a \in ToSet(FlattenSeq(b.text)) :
               HeaderLines(a.line) \subseteq {x.line : x \in ToSet(FlattenSeq(header))}
         /\ \A a \in ToSet(FlattenSeq(header)), x \in ToSet(FlattenSeq(b.text)) :
               IsRow(x.line) /\ a.line \in HeaderLines(x.line)
         /\ \A l \in ToSet(rows) : Len(l) = 1
<1> DEFINE t == b.text
           n == Len(t)
<1>1. /\ t \in TextT /\ f \in Nat \ {0} /\ n \in Nat \ {0}
      /\ \A i \in f..(f + n - 1) :
               /\ i \in 1..Len(markdown) /\ markdown[i] \in Lines
               /\ t[i - f + 1] = AtomsOf(i, markdown[i])
               /\ IsRow(i)
  BY CoveredLines
<1>2. PICK h \in 1..n :
        /\ header = SubSeq(t, 1, h)
        /\ \A i \in f..(f + n - 1) : HeaderLines(i) = f..(f + h - 1)
  BY TableLines DEF IsCut
<1>3. /\ t \in Seq(LineT) /\ DOMAIN t = 1..n
      /\ \A k \in 1..n : t[k] \in LineT
  BY <1>1, LenProperties DEF TextT
<1> HIDE DEF t, n
<1>4. Len(header) = h
  BY <1>1, <1>2, <1>3
<1>5. header = SubSeq(t, 1, h) /\ rows = SubSeq(t, h + 1, Len(t)) /\ h \in 0..Len(t) /\ n = Len(t)
  BY <1>1, <1>2, <1>4 DEF n, t, IsCut
<1>6. /\ header \in Seq(LineT) /\ \A k \in 1..h : header[k] = t[k]
      /\ rows \in Seq(LineT) /\ Len(rows) = Len(t) - h
      /\ \A k \in 1..(Len(t) - h) : rows[k] = t[h + k]
      /\ t = header \o rows
  <2>1. t \in Seq(LineT)
    BY <1>3
  <2>2. header \in Seq(LineT) /\ rows \in Seq(LineT) /\ Len(rows) = Len(t) - h /\ t = header \o rows
    BY <1>5, <2>1, SplitSeq
  <2>3. \A k \in 1..h : header[k] = t[k]
    BY <1>5, <2>1, SplitSeq
  <2>4. \A k \in 1..(Len(t) - h) : rows[k] = t[h + k]
    BY <1>5, <2>1, SplitSeq
  <2> QED BY <2>2, <2>3, <2>4
<1>7. Len(rows) = n - h /\ \A k \in 1..(n - h) : rows[k] = t[h + k]
  BY <1>5, <1>6
<1>8. header \in TextT /\ rows \in TextT
  BY <1>6 DEF TextT
<1>9. FlattenSeq(t) = FlattenSeq(header) \o FlattenSeq(rows)
  BY <1>6, <1>8, FlatConcat
<1>10. \A k \in 1..n : /\ Len(t[k]) = 1 /\ t[k] \in Seq(Atom)
                       /\ \A a \in ToSet(t[k]) : a.line = f + k - 1
  <2> SUFFICES ASSUME NEW k \in 1..n
               PROVE  /\ Len(t[k]) = 1 /\ \A a \in ToSet(t[k]) : a.line = f + k - 1
    BY <1>3 DEF LineT
  <2> DEFINE i == f + k - 1
  <2>1. i \in f..(f + n - 1) /\ i - f + 1 = k /\ i \in Nat
    BY <1>1
  <2> HIDE DEF i
  <2>2. markdown[i] \in Lines /\ t[k] = AtomsOf(i, markdown[i]) /\ IsRow(i)
    BY <1>1, <2>1
  <2>3. /\ Len(AtomsOf(i, markdown[i])) = 1
        /\ \A a \in ToSet(AtomsOf(i, markdown[i])) : a.line = i
    BY <2>1, <2>2, AtomsOfLine DEF IsRow
  <2> QED BY <2>2, <2>3 DEF i
<1>11. ToSet(FlattenSeq(header)) = UNION {ToSet(header[k]) : k \in 1..h}
  <2>1. header \in Seq(Seq(Atom))
    BY <1>6 DEF LineT
  <2>2. ToSet(FlattenSeq(header)) = UNION {ToSet(header[k]) : k \in 1..Len(header)}
    BY <2>1, FlattenToSet
  <2> QED BY <1>4, <2>2
<1>12. ASSUME NEW a \in ToSet(FlattenSeq(header))
       PROVE  a.line \in f..(f + n - 1) /\ a.line \in f..(f + h - 1)
  <2>1. PICK k \in 1..h : a \in ToSet(header[k])
    BY <1>11
  <2>2. a.line = f + k - 1
    <3>1. k \in 1..n
      BY <1>1, <2>1
    <3>2. header[k] = t[k]
      BY <1>6, <2>1
    <3>3. a \in ToSet(t[k])
      BY <2>1, <3>2
    <3> QED BY <1>10, <3>1, <3>3
  <2> QED BY <1>1, <2>2
<1>a. \A a \in ToSet(FlattenSeq(header)) : IsHeader(a)
  BY <1>1, <1>2, <1>12 DEF IsHeader
<1>b. \A a \in ToSet(FlattenSeq(header)), x \in ToSet(FlattenSeq(t)) :
         IsRow(x.line) /\ a.line \in HeaderLines(x.line)
  <2>1. \A x \in ToSet(FlattenSeq(t)) : x.line \in f..(f + n - 1)
    BY CoveredAtoms DEF n, t
  <2> QED BY <1>1, <1>2, <1>12, <2>1
<1>13. ASSUME NEW a \in ToSet(FlattenSeq(t)), NEW l \in HeaderLines(a.line)
       PROVE  \E x \in ToSet(FlattenSeq(header)) : l = x.line
  <2>1. a.line \in f..(f + n - 1)
    BY CoveredAtoms DEF n, t
  <2>2. l \in f..(f + h - 1)
    BY <1>2, <2>1
  <2> DEFINE k == l - f + 1
  <2>3. k \in 1..h /\ f + k - 1 = l /\ k \in 1..n
    BY <1>1, <2>2
  <2> HIDE DEF k
  <2>4. header[k] \in Seq(Atom) /\ Len(header[k]) = 1 /\ header[k] = t[k]
    BY <1>6, <1>10, <2>3
  <2>5. header[k][1] \in ToSet(header[k])
    <3>1. 1 \in 1..Len(header[k])
      BY <2>4
    <3> QED BY <2>4, <3>1, InToSet
  <2>6. header[k][1] \in ToSet(FlattenSeq(header)) /\ header[k][1].line = l
    <3>1. header[k][1] \in ToSet(t[k])
      BY <2>4, <2>5
    <3> QED BY <1>10, <1>11, <2>3, <2>5, <3>1
  <2> QED BY <2>6
<1>14. ASSUME NEW l \in ToSet(rows) PROVE Len(l) = 1
  <2>0. PICK k \in 1..Len(rows) : l = rows[k]
    <3>1. rows \in Seq(LineT)
      BY <1>6
    <3>2. \A x \in ToSet(rows) : \E k \in 1..Len(rows) : x = rows[k]
      BY <3>1, InToSet
    <3> QED BY <3>2
  <2>1. k \in 1..(n - h) /\ l = rows[k]
    BY <1>7, <2>0
  <2>2. h + k \in 1..n
    BY <1>1, <2>1
  <2> QED BY <1>7, <1>10, <2>1, <2>2
<1> QED BY <1>6, <1>8, <1>9, <1>a, <1>b, <1>13, <1>14 DEF t

-----------------------------------------------------------------------------
(***************************************************************************)
(* The pieces of a block.                                                  *)
(***************************************************************************)

\* The atoms stand under the path, their rows with the header.
Sound(path, atoms) ==
  \A a \in atoms :
     /\ SectionPath(a.line) = path
     /\ IsRow(a.line) => HeaderLines(a.line) \subseteq {x.line : x \in atoms}

\* A piece is not empty, stands under its path with its header, and fits or
\* cannot be cut.
PieceOk(p) ==
  /\ p \in BlockT
  /\ FlattenSeq(p.text) # <<>>
  /\ Sound(p.heading_path, ToSet(FlattenSeq(p.text)))
  /\ FitsOrUncuttable(FlattenSeq(p.text))

\* The pieces have the atoms of the block, in order but for repeated headers.
Cuts(ps, b) ==
  /\ ps \in Seq(BlockT)
  /\ \A i \in 1..Len(ps) : PieceOk(ps[i])
  /\ Orderly(FlattenSeq(Texts(ps)))
  /\ ToSet(FlattenSeq(Texts(ps))) = ToSet(FlattenSeq(b.text))

\* A part of a text has part of its atoms.
LEMMA SubText ==
  ASSUME NEW t \in TextT, NEW u \in TextT, ToSet(t) \subseteq ToSet(u)
  PROVE  ToSet(FlattenSeq(t)) \subseteq ToSet(FlattenSeq(u))
<1>1. t \in Seq(Seq(Atom)) /\ u \in Seq(Seq(Atom))
  BY DEF TextT, LineT
<1>2. ToSet(FlattenSeq(t)) = UNION {ToSet(t[k]) : k \in 1..Len(t)}
  BY <1>1, FlattenToSet
<1>3. ToSet(FlattenSeq(u)) = UNION {ToSet(u[k]) : k \in 1..Len(u)}
  BY <1>1, FlattenToSet
<1>4. \A k \in 1..Len(t) : t[k] \in ToSet(t)
  BY <1>1, InToSet
<1>5. \A x \in ToSet(u) : \E k \in 1..Len(u) : x = u[k]
  BY <1>1, InToSet
<1> QED BY <1>2, <1>3, <1>4, <1>5

\* A group is made of the items packed.
LEMMA GroupInItems ==
  ASSUME NEW groups \in GroupsT, NEW items \in TextT, FlattenSeq(groups) = items,
         NEW g \in 1..Len(groups)
  PROVE  /\ groups[g] \in TextT
         /\ ToSet(groups[g]) \subseteq ToSet(items)
         /\ ToSet(FlattenSeq(groups[g])) \subseteq ToSet(FlattenSeq(items))
         /\ Len(groups[g]) = 1 =>
              \E l \in ToSet(items) : FlattenSeq(groups[g]) = l
<1>1. groups \in Seq(TextT) /\ groups \in Seq(Seq(LineT))
  BY DEF GroupsT, TextT
<1>2. groups[g] \in TextT
  BY <1>1, ElementOfSeq
<1>3. ToSet(FlattenSeq(groups)) = UNION {ToSet(groups[k]) : k \in 1..Len(groups)}
  BY <1>1, FlattenToSet
<1>4. ToSet(groups[g]) \subseteq ToSet(items)
  BY <1>3
<1>5. ToSet(FlattenSeq(groups[g])) \subseteq ToSet(FlattenSeq(items))
  BY <1>2, <1>4, SubText
<1>6. ASSUME Len(groups[g]) = 1
      PROVE  \E l \in ToSet(items) : FlattenSeq(groups[g]) = l
  <2> DEFINE t == groups[g]
             l == t[1]
  <2>1. t \in Seq(LineT) /\ Len(t) = 1
    BY <1>2, <1>6 DEF TextT
  <2> HIDE DEF t
  <2>2. l \in LineT /\ t = <<l>>
    BY <2>1
  <2>3. l \in ToSet(t)
    BY <2>1, <2>2 DEF ToSet
  <2>4. FlattenSeq(t) = l
    BY <2>2, FlatSingle
  <2> QED BY <1>4, <2>3, <2>4 DEF t
<1> QED BY <1>2, <1>4, <1>5, <1>6

\* A part of a block is sound if it has the header.
LEMMA SoundPart ==
  ASSUME markdown \in Seq(Lines), NEW b, NEW f, Covers(b, f),
         NEW S, S \subseteq ToSet(FlattenSeq(b.text)),
         b.is_table => ToSet(FlattenSeq(TableHeader(b.text))) \subseteq S
  PROVE  Sound(b.heading_path, S)
<1>1. \A a \in S : SectionPath(a.line) = b.heading_path /\ (IsRow(a.line) <=> b.is_table)
  BY CoveredAtoms
<1>2. ASSUME b.is_table, NEW a \in S
      PROVE  HeaderLines(a.line) \subseteq {x.line : x \in S}
  <2> DEFINE header == TableHeader(b.text)
             rows == SubSeq(b.text, Len(header) + 1, Len(b.text))
  <2>1. IsCut(b, header, rows)
    BY DEF IsCut
  <2> HIDE DEF rows
  <2>2. HeaderLines(a.line) \subseteq {x.line : x \in ToSet(FlattenSeq(header))}
    BY <1>2, <2>1, TableParts
  <2> QED BY <1>2, <2>2
<1> QED BY <1>1, <1>2 DEF Sound

\* A block that fits is its own piece.
LEMMA WholePiece ==
  ASSUME markdown \in Seq(Lines), NEW b, NEW f, Covers(b, f),
         FitsOrUncuttable(FlattenSeq(b.text))
  PROVE  Cuts(<<b>>, b)
<1>1. /\ b \in BlockT /\ b.text \in TextT /\ b.text \in Seq(LineT)
  BY CoveredLines DEF TextT
<1>2. FlattenSeq(b.text) # <<>> /\ Ascending(FlattenSeq(b.text))
  BY CoveredAtoms
<1>3. b.is_table => ToSet(FlattenSeq(TableHeader(b.text))) \subseteq ToSet(FlattenSeq(b.text))
  <2> SUFFICES ASSUME b.is_table
               PROVE  ToSet(FlattenSeq(TableHeader(b.text))) \subseteq ToSet(FlattenSeq(b.text))
    OBVIOUS
  <2> DEFINE header == TableHeader(b.text)
             rows == SubSeq(b.text, Len(header) + 1, Len(b.text))
  <2>1. IsCut(b, header, rows)
    BY DEF IsCut
  <2> HIDE DEF rows, header
  <2>2. /\ header \in TextT /\ rows \in TextT
        /\ FlattenSeq(b.text) = FlattenSeq(header) \o FlattenSeq(rows)
    BY <2>1, TableParts
  <2>3. FlattenSeq(header) \in Seq(Atom) /\ FlattenSeq(rows) \in Seq(Atom)
    BY <2>2, FlatTyped DEF LineT
  <2>4. ToSet(FlattenSeq(b.text)) = ToSet(FlattenSeq(header)) \cup ToSet(FlattenSeq(rows))
    BY <2>2, <2>3, ToSetConcat
  <2> QED BY <2>4 DEF header
<1>4. Sound(b.heading_path, ToSet(FlattenSeq(b.text)))
  BY <1>3, SoundPart
<1>5. PieceOk(b)
  BY <1>1, <1>2, <1>4 DEF PieceOk
<1>6. Texts(<<b>>) = b.text
  <2>1. <<>> \in Seq(BlockT) /\ Append(<<>>, b) = <<b>>
    OBVIOUS
  <2>2. Texts(<<b>>) = <<>> \o b.text
    BY <1>1, <2>1, TextsEmpty, TextsAppend
  <2> QED BY <1>1, <2>2, ConcatEmptySeq
<1>7. Orderly(FlattenSeq(b.text))
  BY <1>2, AscendingIsOrderly
<1>8. /\ <<b>> \in Seq(BlockT) /\ Len(<<b>>) = 1 /\ <<b>>[1] = b
  BY <1>1
<1> QED BY <1>5, <1>6, <1>7, <1>8 DEF Cuts

\* A header alone, or with one row, cannot be cut.
LEMMA HeaderAndOneFits ==
  ASSUME NEW h \in LineT, NEW l \in LineT, Len(l) \in 0..1, Ascending(h), Precedes(h, l),
         \A a \in ToSet(h), x \in ToSet(h \o l) : IsRow(x.line) /\ a.line \in HeaderLines(x.line),
         \A a \in ToSet(h), x \in ToSet(h \o l) : a.line = x.line => a = x
  PROVE  FitsOrUncuttable(h \o l)
<1> DEFINE s == h \o l
           m == Len(h)
<1>1. h \in Seq(Atom) /\ l \in Seq(Atom)
  BY DEF LineT
<1>2. m \in Nat /\ s \in Seq(Atom) /\ Len(s) = m + Len(l) /\ Len(s) - 1 <= m
  <2>1. m \in Nat /\ s \in Seq(Atom) /\ Len(s) = m + Len(l)
    BY <1>1, ConcatIndexes
  <2> HIDE DEF s, m
  <2> QED BY <2>1
<1>3. \A i \in 1..m : s[i] = h[i]
  BY <1>1, ConcatIndexes
<1>4. \A i \in 1..Len(l) : s[m + i] = l[i]
  BY <1>1, ConcatIndexes
<1>5. /\ \A i \in 1..m : h[i] \in ToSet(h) /\ h[i] \in Atom
      /\ \A i \in 1..Len(l) : l[i] \in ToSet(l)
  BY <1>1, InToSet
<1>6. \A i \in 1..Len(s) : s[i] \in ToSet(s)
  <2> HIDE DEF s
  <2> QED BY <1>2, InToSet
<1>7. \A a \in Atom : ~ Before(a, a)
  BY DEF Before, Atom
<1>8. \A q \in 1..m : \A p \in 1..(q - 1) : Before(h[p], h[q])
  BY DEF Ascending
<1>9. \A a \in ToSet(h), x \in ToSet(s) : IsRow(x.line) /\ a.line \in HeaderLines(x.line)
  OBVIOUS
<1>a. \A a \in ToSet(h), x \in ToSet(s) : a.line = x.line => a = x
  OBVIOUS
<1> HIDE DEF s, m
<1>10. ASSUME NEW p \in 1..(Len(s) - 1)
       PROVE  KeptTogether(s[p], s[p + 1])
  <2>0. p \in 1..m /\ p + 1 \in 1..Len(s)
    <3>1. Len(s) \in Nat
      BY <1>2, LenProperties
    <3> QED BY <1>2, <3>1
  <2>1. p \in 1..m /\ p + 1 \in 1..Len(s) /\ s[p] = h[p]
    BY <1>3, <2>0
  <2>2. Before(s[p], s[p + 1])
    <3>1. CASE p + 1 \in 1..m
      <4>1. p \in 1..((p + 1) - 1)
        BY <2>1
      <4> QED BY <1>3, <1>8, <2>1, <3>1, <4>1
    <3>2. CASE p = m
      <4>1. 1 \in 1..Len(l)
        BY <1>2, <3>2
      <4>2. s[p + 1] = l[1] /\ l[1] \in ToSet(l)
        BY <1>4, <1>5, <3>2, <4>1
      <4> QED BY <1>5, <2>1, <4>2 DEF Precedes
    <3> QED BY <1>2, <2>1, <3>1, <3>2
  <2>3. s[p] \in ToSet(h) /\ s[p] \in Atom /\ s[p + 1] \in ToSet(s)
    BY <1>5, <1>6, <2>1
  <2>4. s[p] # s[p + 1]
    BY <1>7, <2>2, <2>3
  <2>5. /\ IsRow(s[p + 1].line) /\ s[p].line \in HeaderLines(s[p + 1].line)
        /\ s[p].line = s[p + 1].line => s[p] = s[p + 1]
    BY <1>9, <1>a, <2>3, Zenon
  <2> QED BY <2>4, <2>5 DEF KeptTogether
<1>11. FitsOrUncuttable(s)
  BY <1>10 DEF FitsOrUncuttable
<1> QED BY <1>11 DEF s

\* _split_table cuts a table into sound pieces (chunker.py:145-170).
LEMMA TablePieces ==
  ASSUME markdown \in Seq(Lines), NEW b, NEW f, Covers(b, f), b.is_table
  PROVE  Cuts(SplitTable(b), b)
<1> DEFINE header == TableHeader(b.text)
           rows == SubSeq(b.text, Len(header) + 1, Len(b.text))
           overhead == CountTokens(FlattenSeq(header))
           groups == Packed(rows, overhead)
           H == FlattenSeq(header)
           R == FlattenSeq(rows)
           A == FlattenSeq(b.text)
           piece(g) == Block(header \o groups[g], b.heading_path, TRUE)
           ps == [g \in DOMAIN groups |-> piece(g)]
<1>1. SplitTable(b) = IF groups = <<>> THEN <<b>> ELSE ps
  BY DEF SplitTable
<1>2. IsCut(b, header, rows)
  BY DEF IsCut
<1>3. b \in BlockT /\ b.heading_path \in PathT
  BY CoveredLines
<1>4. A \in LineT /\ A # <<>> /\ Ascending(A)
  BY CoveredAtoms
<1> HIDE DEF rows, header
<1>5. /\ header \in TextT /\ rows \in TextT
      /\ b.text = header \o rows
      /\ A = H \o R
  BY <1>2, TableParts
<1>6. \A a \in ToSet(H) : IsHeader(a)
  BY <1>2, TableParts
<1>7. \A a \in ToSet(A) : HeaderLines(a.line) \subseteq {x.line : x \in ToSet(H)}
  BY <1>2, TableParts
<1>8. \A l \in ToSet(rows) : Len(l) = 1
  BY <1>2, TableParts
<1>9. /\ H \in LineT /\ R \in LineT /\ overhead \in Nat
      /\ TokensOf(H) \in Nat /\ TokensOf(H) <= overhead
  <2>1. H \in LineT /\ R \in LineT
    BY <1>5, FlatTyped
  <2> QED BY <2>1, CountTyped, CountAtLeast, TokensTyped DEF LineT
<1>10. ToSet(A) = ToSet(H) \cup ToSet(R)
  BY <1>5, <1>9, ToSetConcat DEF LineT
<1>11. H # <<>> /\ ToSet(H) # {}
  <2>1. PICK a \in ToSet(A) : TRUE
    BY <1>4, InToSet DEF LineT
  <2>2. HeaderLines(a.line) # {}
    BY DEF HeaderLines
  <2>3. ToSet(H) # {}
    BY <1>7, <2>1, <2>2
  <2> QED BY <1>9, <2>3, InToSet DEF LineT
<1> HIDE DEF overhead
<1>12. Packs(groups, rows, overhead)
  BY <1>5, <1>9, PackedPacks
<1> HIDE DEF groups
<1>13. /\ groups \in GroupsT /\ FlattenSeq(groups) = rows
       /\ \A g \in 1..Len(groups) :
             Len(groups[g]) = 1 \/ overhead + Together(groups[g]) <= TARGET_TOKENS
  BY <1>12 DEF Packs
<1>a. /\ Ascending(H) /\ Precedes(H, R)
      /\ \A a \in ToSet(H), x \in ToSet(A) : IsRow(x.line) /\ a.line \in HeaderLines(x.line)
      /\ \A a \in ToSet(H), x \in ToSet(A) : a.line = x.line => a = x
  <2>1. Ascending(H) /\ Precedes(H, R)
    <3>1. Ascending(H \o R)
      BY <1>4, <1>5
    <3>2. H \in Seq(Atom) /\ R \in Seq(Atom)
      BY <1>9 DEF LineT
    <3> HIDE DEF H, R
    <3> QED BY <3>1, <3>2, AscendingConcat
  <2>2. \A a \in ToSet(H), x \in ToSet(A) : IsRow(x.line) /\ a.line \in HeaderLines(x.line)
    BY <1>2, TableParts
  <2>3. \A a \in ToSet(A), x \in ToSet(A) : a.line = x.line => a = x
    BY RowIsAlone
  <2> QED BY <1>10, <2>1, <2>2, <2>3
<1>14. CASE groups = <<>>
  <2>1. rows = <<>>
    BY <1>13, <1>14, FlattenEmpty
  <2>2. A = H /\ R = <<>>
    <3>1. R = <<>>
      BY <2>1, FlattenEmpty
    <3> QED BY <1>5, <1>9, <3>1, ConcatEmptySeq DEF LineT
  <2>3. <<>> \in LineT /\ Len(<<>>) \in 0..1 /\ H \o <<>> = A
    <3>1. H \o R = A
      BY <1>5
    <3> QED BY <2>2, <3>1, FlatEmpty
  <2>4. FitsOrUncuttable(A)
    <3> HIDE DEF A, H, R
    <3> QED BY <1>9, <1>a, <2>2, <2>3, HeaderAndOneFits, Zenon
  <2> QED BY <1>1, <1>14, <2>4, WholePiece
<1>15. CASE groups # <<>>
  <2> DEFINE n == Len(groups)
             G(g) == FlattenSeq(groups[g])
  <2>0. DOMAIN groups = 1..n /\ n \in Nat /\ groups \in Seq(TextT)
    BY <1>13, LenProperties DEF GroupsT
  <2>1. ASSUME NEW g \in 1..n
        PROVE  /\ groups[g] \in TextT /\ header \o groups[g] \in TextT
               /\ G(g) \in LineT
               /\ ToSet(G(g)) \subseteq ToSet(R)
               /\ FlattenSeq(header \o groups[g]) = H \o G(g)
               /\ ToSet(H \o G(g)) = ToSet(H) \cup ToSet(G(g))
               /\ TokensOf(H \o G(g)) \in Nat /\ Together(groups[g]) \in Nat
               /\ TokensOf(H \o G(g)) <= overhead + Together(groups[g])
    <3>1. groups[g] \in TextT /\ ToSet(G(g)) \subseteq ToSet(R)
      BY <1>5, <1>13, GroupInItems
    <3>2. header \o groups[g] \in TextT /\ FlattenSeq(header \o groups[g]) = H \o G(g)
      BY <1>5, <3>1, FlatConcat
    <3>3. G(g) \in LineT
      BY <3>1, FlatTyped
    <3>4. ToSet(H \o G(g)) = ToSet(H) \cup ToSet(G(g))
      BY <1>9, <3>3, ToSetConcat DEF LineT
    <3>5. TokensOf(H \o G(g)) = TokensOf(H) + TokensOf(G(g))
      BY <1>9, <3>3, TokensConcat
    <3>6. /\ Together(groups[g]) \in Nat /\ TokensOf(G(g)) \in Nat
          /\ TokensOf(G(g)) <= Together(groups[g])
      BY <3>1, <3>3, TogetherBetween, TokensTyped DEF LineT
    <3>7. /\ TokensOf(H \o G(g)) \in Nat
          /\ TokensOf(H \o G(g)) <= overhead + Together(groups[g])
      <4> HIDE DEF H, G
      <4> QED BY <1>9, <3>5, <3>6
    <3> QED BY <3>1, <3>2, <3>3, <3>4, <3>6, <3>7
  <2>2. \A g \in 1..n : piece(g) \in BlockT /\ piece(g).text = header \o groups[g]
                        /\ piece(g).heading_path = b.heading_path
    <3>1. \A g \in 1..n : header \o groups[g] \in TextT
      BY <2>1
    <3> QED BY <1>3, <3>1 DEF Block, BlockT
  <2>3. ps \in Seq(BlockT) /\ Len(ps) = n /\ \A g \in 1..n : ps[g] = piece(g)
    <3> HIDE DEF piece
    <3> QED BY <2>0, <2>2
  <2> HIDE DEF piece
  <2>4. Texts(ps) = Headed(header, groups)
    <3>1. DOMAIN ps = DOMAIN groups
      OBVIOUS
    <3>2. \A i \in DOMAIN groups : ps[i].text = header \o groups[i]
      BY <2>0, <2>2, <2>3
    <3> HIDE DEF ps
    <3>3. [i \in DOMAIN ps |-> ps[i].text] = [i \in DOMAIN groups |-> header \o groups[i]]
      BY <3>1, <3>2
    <3> QED BY <3>3, Zenon DEF Texts, Headed
  <2>5. /\ Orderly(FlattenSeq(Headed(header, groups)))
        /\ ToSet(FlattenSeq(Headed(header, groups))) = ToSet(H) \cup ToSet(R)
    <3>1. Ascending(H \o FlattenSeq(FlattenSeq(groups)))
      BY <1>4, <1>5, <1>13
    <3>2. \A gs \in GroupsT :
           Ascending(FlattenSeq(header) \o FlattenSeq(FlattenSeq(gs))) /\ gs # <<>>
             => /\ Orderly(FlattenSeq(Headed(header, gs)))
                /\ ToSet(FlattenSeq(Headed(header, gs)))
                     = ToSet(FlattenSeq(header)) \cup ToSet(FlattenSeq(FlattenSeq(gs)))
      BY <1>5, <1>6, HeadedIsOrderly
    <3> QED BY <1>13, <1>15, <3>1, <3>2
  <2>6. ASSUME NEW g \in 1..n PROVE FitsOrUncuttable(H \o G(g))
    <3>1. CASE Len(groups[g]) = 1
      <4>1. PICK l \in ToSet(rows) : G(g) = l
        BY <1>5, <1>13, <3>1, GroupInItems
      <4>2. Len(G(g)) \in 0..1 /\ G(g) \in LineT
        BY <1>8, <2>1, <4>1
      <4>3. Precedes(H, G(g)) /\ ToSet(H \o G(g)) \subseteq ToSet(A)
        BY <1>10, <1>a, <2>1 DEF Precedes
      <4>4. /\ \A a \in ToSet(H), x \in ToSet(H \o G(g)) :
                  IsRow(x.line) /\ a.line \in HeaderLines(x.line)
            /\ \A a \in ToSet(H), x \in ToSet(H \o G(g)) : a.line = x.line => a = x
        BY <1>a, <4>3
      <4> HIDE DEF H, G, A
      <4> QED BY <1>9, <1>a, <4>2, <4>3, <4>4, HeaderAndOneFits
    <3>2. CASE overhead + Together(groups[g]) <= TARGET_TOKENS
      <4>1. TokensOf(H \o G(g)) <= TARGET_TOKENS
        <5> HIDE DEF H, G
        <5> QED BY <1>9, <2>1, <3>2, SizesAssumption
      <4> QED BY <4>1 DEF FitsOrUncuttable
    <3> QED BY <1>13, <3>1, <3>2
  <2>7. ASSUME NEW g \in 1..n PROVE PieceOk(ps[g])
    <3>1. ps[g] \in BlockT /\ ps[g].text = header \o groups[g] /\ ps[g].heading_path = b.heading_path
      BY <2>2, <2>3
    <3>2. FlattenSeq(ps[g].text) = H \o G(g)
      BY <2>1, <3>1
    <3>3. ToSet(H \o G(g)) \subseteq ToSet(A) /\ ToSet(H) \subseteq ToSet(H \o G(g))
      BY <1>10, <2>1
    <3>4. Sound(b.heading_path, ToSet(H \o G(g)))
      BY <3>3, SoundPart DEF header
    <3>5. H \o G(g) # <<>>
      <4>1. ToSet(H \o G(g)) # {}
        <5> DEFINE K == H \o G(g)
        <5>1. ToSet(H) \subseteq ToSet(K)
          BY <3>3
        <5> HIDE DEF K
        <5> QED BY <1>11, <5>1 DEF K
      <4>2. ToSet(<<>>) = {}
        BY DEF ToSet
      <4> QED BY <4>1, <4>2
    <3> HIDE DEF ps, G
    <3> QED BY <2>6, <3>1, <3>2, <3>4, <3>5 DEF PieceOk
  <2> HIDE DEF ps
  <2>8. Cuts(ps, b)
    BY <1>10, <2>3, <2>4, <2>5, <2>7 DEF Cuts
  <2> QED BY <1>1, <1>15, <2>8
<1> QED BY <1>14, <1>15

\* A part stands in the whole as it is.
LEMMA PartStands ==
  ASSUME NEW T
  PROVE  \A t \in Seq(Seq(T)) : \A p \in 1..Len(t) :
           \E m \in Nat : /\ m + Len(t[p]) <= Len(FlattenSeq(t))
                         /\ \A i \in 1..Len(t[p]) : t[p][i] = FlattenSeq(t)[m + i]
<1> DEFINE Stands(x, s) == \E m \in Nat : /\ m + Len(x) <= Len(s)
                                         /\ \A i \in 1..Len(x) : x[i] = s[m + i]
           U == Seq(T)
           S == {t \in Seq(U) : \A p \in 1..Len(t) : Stands(t[p], FlattenSeq(t))}
<1>1. <<>> \in S
  OBVIOUS
<1>2. ASSUME NEW t \in Seq(U), NEW x \in U, t \in S PROVE Append(t, x) \in S
  <2> DEFINE n == Len(t)
             u == Append(t, x)
             F == FlattenSeq(t)
             k == Len(F)
  <2>1. /\ n \in Nat /\ u \in Seq(U) /\ Len(u) = n + 1 /\ u[n + 1] = x
        /\ \A p \in 1..n : u[p] = t[p]
    BY AppendProperties, LenProperties
  <2>2. F \in Seq(T) /\ FlattenSeq(u) = F \o x
    BY FlattenTyped, FlattenAppend
  <2> DEFINE s == F \o x
  <2> HIDE DEF F
  <2>3. k \in Nat /\ Len(x) \in Nat
    BY <2>2, LenProperties
  <2>4. Len(s) = k + Len(x)
    BY <2>2, ConcatIndexes
  <2>5. \A i \in 1..k : s[i] = F[i]
    BY <2>2, ConcatIndexes
  <2>6. \A i \in 1..Len(x) : s[k + i] = x[i]
    BY <2>2, ConcatIndexes
  <2> HIDE DEF s, k, u, n
  <2>7. ASSUME NEW p \in 1..(n + 1) PROVE Stands(u[p], s)
    <3>1. CASE p = n + 1
      <4>1. k + Len(x) <= Len(s) /\ \A i \in 1..Len(x) : x[i] = s[k + i]
        BY <2>3, <2>4, <2>6
      <4> QED BY <2>1, <2>3, <3>1, <4>1
    <3>2. CASE p # n + 1
      <4>1. p \in 1..n
        BY <2>1, <3>2
      <4> DEFINE y == t[p]
      <4>2. Stands(y, F)
        BY <1>2, <4>1 DEF n, F
      <4>3. PICK m \in Nat : m + Len(y) <= k /\ \A i \in 1..Len(y) : y[i] = F[m + i]
        BY <4>2 DEF k
      <4>4. Len(y) \in Nat /\ u[p] = y
        BY <2>1, <4>1, ElementOfSeq, LenProperties DEF n
      <4> HIDE DEF y
      <4>5. m + Len(y) <= Len(s)
        BY <2>3, <2>4, <4>3, <4>4
      <4>6. \A i \in 1..Len(y) : m + i \in 1..k
        BY <2>3, <4>3, <4>4
      <4>7. \A i \in 1..Len(y) : y[i] = s[m + i]
        BY <2>5, <4>3, <4>6
      <4>8. Stands(y, s)
        BY <4>5, <4>7
      <4> HIDE DEF Stands
      <4> QED BY <4>4, <4>8
    <3> QED BY <3>1, <3>2
  <2> HIDE DEF Stands
  <2>8. u \in S
    BY <2>1, <2>2, <2>7 DEF s
  <2> QED BY <2>8 DEF u
<1> HIDE DEF S
<1>3. \A t \in Seq(U) : t \in S
  BY <1>1, <1>2, SeqInduction
<1> QED BY <1>3 DEF S, U

\* A sentence of a paragraph cannot be cut.
LEMMA SentenceFits ==
  ASSUME NEW A \in LineT, Flows(A), NEW items, Parts(items, A, TRUE), NEW p \in 1..Len(items)
  PROVE  FitsOrUncuttable(items[p])
<1> DEFINE s == items[p]
<1>1. items \in Seq(Seq(Atom)) /\ FlattenSeq(items) = A /\ A \in Seq(Atom)
  BY DEF Parts, TextT, LineT
<1>2. s \in Seq(Atom) /\ Len(s) \in Nat /\ Len(A) \in Nat
  <2>1. s \in Seq(Atom)
    BY <1>1, ElementOfSeq
  <2> HIDE DEF s
  <2> QED BY <1>1, <2>1, LenProperties
<1>3. \A k \in 1..(Len(s) - 1) : s[k].ends # TRUE
  BY DEF Parts
<1>4. \E m \in Nat : /\ m + Len(s) <= Len(FlattenSeq(items))
                     /\ \A i \in 1..Len(s) : s[i] = FlattenSeq(items)[m + i]
  BY <1>1, PartStands
<1>5. PICK m \in Nat : m + Len(s) <= Len(A) /\ \A i \in 1..Len(s) : s[i] = A[m + i]
  BY <1>1, <1>4
<1>6. \A k \in 1..(Len(A) - 1) : ~ A[k].ends => KeptTogether(A[k], A[k + 1])
  BY DEF Flows
<1> HIDE DEF s
<1>7. ASSUME NEW k \in 1..(Len(s) - 1)
      PROVE  KeptTogether(s[k], s[k + 1])
  <2> DEFINE i == m + k
  <2>1. k \in 1..Len(s) /\ k + 1 \in 1..Len(s) /\ i \in 1..(Len(A) - 1) /\ m + (k + 1) = i + 1
    BY <1>2, <1>5
  <2>2. s[k] = A[i] /\ s[k + 1] = A[i + 1]
    <3>1. s[k] = A[i]
      BY <1>5, <2>1
    <3>2. s[k + 1] = A[m + (k + 1)]
      BY <1>5, <2>1
    <3> QED BY <2>1, <3>1, <3>2
  <2>3. ~ s[k].ends
    BY <1>3
  <2> HIDE DEF i
  <2> QED BY <1>6, <2>1, <2>2, <2>3
<1>8. FitsOrUncuttable(s)
  BY <1>7 DEF FitsOrUncuttable
<1> QED BY <1>8 DEF s

\* _split_prose cuts a paragraph into sound pieces (chunker.py:239-257).
LEMMA ProsePieces ==
  ASSUME markdown \in Seq(Lines), NEW b, NEW f, Covers(b, f), ~ b.is_table
  PROVE  Cuts(SplitProse(b), b)
<1> DEFINE A == FlattenSeq(b.text)
           items == CutAfter(A, TRUE)
           groups == Packed(items, 0)
           G(g) == FlattenSeq(groups[g])
           L(g) == CutAfter(G(g), FALSE)
           piece(g) == Block(L(g), b.heading_path, FALSE)
           ps == [g \in DOMAIN groups |-> piece(g)]
<1>1. SplitProse(b) = ps
  BY DEF SplitProse
<1>2. b \in BlockT /\ b.heading_path \in PathT
  BY CoveredLines
<1>3. A \in LineT /\ A # <<>> /\ Ascending(A) /\ A \in Seq(Atom)
  BY CoveredAtoms DEF LineT
<1>4. Flows(A)
  BY ProseFlows
<1> HIDE DEF A
<1>5. Parts(items, A, TRUE)
  BY <1>3, CutAfterParts
<1> HIDE DEF items
<1>6. /\ items \in TextT /\ items \in Seq(Seq(Atom)) /\ FlattenSeq(items) = A
      /\ \A p \in 1..Len(items) : items[p] # <<>>
  BY <1>5 DEF Parts, TextT, LineT
<1>a. \A l \in ToSet(items) : l # <<>> /\ FitsOrUncuttable(l)
  <2>1. \A p \in 1..Len(items) : FitsOrUncuttable(items[p])
    BY <1>3, <1>4, <1>5, SentenceFits
  <2>2. \A l \in ToSet(items) : \E p \in 1..Len(items) : l = items[p]
    BY <1>6, InToSet
  <2> QED BY <1>6, <2>1, <2>2
<1>7. Packs(groups, items, 0)
  BY <1>6, PackedPacks
<1> HIDE DEF groups
<1>8. /\ groups \in GroupsT /\ FlattenSeq(groups) = items
      /\ \A g \in 1..Len(groups) :
            /\ groups[g] # <<>>
            /\ Len(groups[g]) = 1 \/ 0 + Together(groups[g]) <= TARGET_TOKENS
  BY <1>7 DEF Packs
<1> DEFINE n == Len(groups)
<1>9. DOMAIN groups = 1..n /\ n \in Nat /\ groups \in Seq(TextT)
  BY <1>8, LenProperties DEF GroupsT
<1> HIDE DEF n
<1>10. ASSUME NEW g \in 1..n
       PROVE  /\ L(g) \in TextT /\ FlattenSeq(L(g)) = G(g)
              /\ ToSet(G(g)) \subseteq ToSet(A)
              /\ G(g) # <<>>
              /\ FitsOrUncuttable(G(g))
  <2> DEFINE t == groups[g]
  <2>1. t \in TextT /\ ToSet(t) \subseteq ToSet(items) /\ ToSet(G(g)) \subseteq ToSet(A)
        /\ (Len(t) = 1 => \E l \in ToSet(items) : G(g) = l)
    BY <1>6, <1>8, GroupInItems DEF n
  <2>2. t # <<>> /\ (Len(t) = 1 \/ 0 + Together(t) <= TARGET_TOKENS)
    BY <1>8 DEF n
  <2> HIDE DEF t
  <2>3. G(g) \in LineT
    BY <2>1, FlatTyped DEF t
  <2>4. L(g) \in TextT /\ FlattenSeq(L(g)) = G(g)
    <3>1. Parts(L(g), G(g), FALSE)
      <4> HIDE DEF G
      <4> QED BY <2>3, CutAfterParts
    <3> QED BY <3>1 DEF Parts
  <2>5. G(g) # <<>>
    <3>1. t \in Seq(Seq(Atom))
      BY <2>1 DEF TextT, LineT
    <3>2. 1 \in 1..Len(t)
      BY <2>2, <3>1, EmptySeq
    <3>3. t[1] \in ToSet(t) /\ t[1] \in Seq(Atom)
      BY <3>1, <3>2, InToSet
    <3>4. t[1] # <<>>
      BY <1>a, <2>1, <3>3
    <3>5. ToSet(t[1]) # {}
      BY <3>3, <3>4, InToSet
    <3>6. ToSet(FlattenSeq(t)) = UNION {ToSet(t[k]) : k \in 1..Len(t)}
      BY <3>1, FlattenToSet
    <3>7. ToSet(FlattenSeq(t)) # {}
      BY <3>2, <3>5, <3>6
    <3>8. ToSet(<<>>) = {}
      BY DEF ToSet
    <3> QED BY <3>7, <3>8 DEF t
  <2>6. FitsOrUncuttable(G(g))
    <3>1. CASE Len(t) = 1
      BY <1>a, <2>1, <3>1
    <3>2. CASE 0 + Together(t) <= TARGET_TOKENS
      <4>1. /\ Together(t) \in Nat /\ TokensOf(G(g)) <= Together(t)
            /\ TokensOf(G(g)) \in Nat
        BY <2>1, <2>3, TogetherBetween, TokensTyped DEF t, LineT
      <4> HIDE DEF G
      <4>2. TokensOf(G(g)) <= TARGET_TOKENS
        BY <3>2, <4>1, SizesAssumption
      <4> QED BY <4>2 DEF FitsOrUncuttable
    <3> QED BY <2>2, <3>1, <3>2
  <2> QED BY <2>1, <2>4, <2>5, <2>6
<1>11. \A g \in 1..n : piece(g) \in BlockT /\ piece(g).text = L(g)
                       /\ piece(g).heading_path = b.heading_path
  <2>1. \A g \in 1..n : L(g) \in TextT
    BY <1>10
  <2> SUFFICES ASSUME NEW g \in 1..n
               PROVE  /\ piece(g) \in BlockT /\ piece(g).text = L(g)
                      /\ piece(g).heading_path = b.heading_path
    OBVIOUS
  <2> DEFINE l == L(g)
  <2>2. l \in TextT
    BY <2>1
  <2> HIDE DEF l
  <2>3. /\ Block(l, b.heading_path, FALSE) \in BlockT
        /\ Block(l, b.heading_path, FALSE).text = l
        /\ Block(l, b.heading_path, FALSE).heading_path = b.heading_path
    BY <1>2, <2>2 DEF Block, BlockT
  <2> QED BY <2>3 DEF l
<1>12. ps \in Seq(BlockT) /\ Len(ps) = n /\ \A g \in 1..n : ps[g] = piece(g)
  <2> HIDE DEF piece, L, G
  <2> QED BY <1>9, <1>11
<1> HIDE DEF piece
<1>13. Texts(ps) = Joined(groups)
  <2>1. DOMAIN ps = DOMAIN groups
    OBVIOUS
  <2>2. \A i \in DOMAIN groups : ps[i].text = CutAfter(FlattenSeq(groups[i]), FALSE)
    BY <1>9, <1>11, <1>12
  <2> HIDE DEF ps
  <2>3. [i \in DOMAIN ps |-> ps[i].text]
          = [i \in DOMAIN groups |-> CutAfter(FlattenSeq(groups[i]), FALSE)]
    BY <2>1, <2>2
  <2> QED BY <2>3, Zenon DEF Texts, Joined
<1> HIDE DEF ps
<1>14. FlattenSeq(Texts(ps)) = A
  <2>1. FlattenSeq(Joined(groups)) = FlattenSeq(FlattenSeq(groups))
    BY <1>8, JoinedFlattens
  <2> QED BY <1>6, <1>8, <1>13, <2>1
<1>15. ASSUME NEW g \in 1..n PROVE PieceOk(ps[g])
  <2>1. ps[g] \in BlockT /\ ps[g].text = L(g) /\ ps[g].heading_path = b.heading_path
    BY <1>11, <1>12
  <2>2. FlattenSeq(ps[g].text) = G(g)
    BY <1>10, <2>1
  <2>3. Sound(b.heading_path, ToSet(G(g)))
    BY <1>10, SoundPart DEF A
  <2> HIDE DEF G, L
  <2> QED BY <1>10, <2>1, <2>2, <2>3 DEF PieceOk
<1>16. Orderly(A)
  BY <1>3, AscendingIsOrderly
<1>17. Cuts(ps, b)
  BY <1>12, <1>14, <1>15, <1>16 DEF Cuts, A
<1> QED BY <1>1, <1>17

\* Whichever way a block is split, its pieces are cut from it.
LEMMA PiecesCut ==
  ASSUME markdown \in Seq(Lines), NEW b, NEW f, Covers(b, f)
  PROVE  Cuts(Pieces(b), b)
<1>1. CASE CountTokens(FlattenSeq(b.text)) <= TARGET_TOKENS
  <2>1. FitsOrUncuttable(FlattenSeq(b.text))
    <3> DEFINE A == FlattenSeq(b.text)
    <3>1. A \in LineT
      BY CoveredAtoms
    <3> HIDE DEF A
    <3>2. TokensOf(A) \in Nat /\ CountTokens(A) \in Nat /\ TokensOf(A) <= CountTokens(A)
      BY <3>1, TokensTyped, CountTyped, CountAtLeast DEF LineT
    <3>3. TokensOf(A) <= TARGET_TOKENS
      BY <1>1, <3>2, SizesAssumption DEF A
    <3> QED BY <3>3 DEF A, FitsOrUncuttable
  <2>2. Cuts(<<b>>, b)
    BY <2>1, WholePiece
  <2> QED BY <1>1, <2>2 DEF Pieces
<1>2. CASE ~(CountTokens(FlattenSeq(b.text)) <= TARGET_TOKENS) /\ b.is_table
  BY <1>2, TablePieces DEF Pieces
<1>3. CASE ~(CountTokens(FlattenSeq(b.text)) <= TARGET_TOKENS) /\ ~ b.is_table
  BY <1>3, ProsePieces DEF Pieces
<1> QED BY <1>1, <1>2, <1>3

-----------------------------------------------------------------------------
(***************************************************************************)
(* The pieces of all blocks.                                               *)
(***************************************************************************)

\* The blocks that stand somewhere in the document.
Covered == {b \in BlockT : \E f : Covers(b, f)}

AllPieces(bs) == FlattenSeq([i \in DOMAIN bs |-> Pieces(bs[i])])

LEMMA CoveredPieces ==
  ASSUME markdown \in Seq(Lines), NEW b \in Covered
  PROVE  Cuts(Pieces(b), b) /\ Pieces(b) \in Seq(BlockT)
<1>1. PICK f : Covers(b, f)
  BY DEF Covered
<1>2. Cuts(Pieces(b), b)
  BY <1>1, PiecesCut
<1> QED BY <1>2 DEF Cuts

\* The pieces of all blocks, typed, and growing with the blocks.
LEMMA AllPiecesTyped ==
  ASSUME markdown \in Seq(Lines), NEW s \in Seq(Covered)
  PROVE  /\ [i \in DOMAIN s |-> Pieces(s[i])] \in Seq(Seq(BlockT))
         /\ AllPieces(s) \in Seq(BlockT)
<1> DEFINE U == Seq(BlockT)
           m == [i \in DOMAIN s |-> Pieces(s[i])]
<1>1. DOMAIN s = 1..Len(s) /\ Len(s) \in Nat /\ \A i \in 1..Len(s) : s[i] \in Covered
  BY LenProperties
<1>2. \A i \in 1..Len(s) : Pieces(s[i]) \in U
  BY <1>1, CoveredPieces
<1> HIDE DEF U
<1>3. m \in Seq(U)
  BY <1>1, <1>2
<1> HIDE DEF m
<1>4. FlattenSeq(m) \in Seq(BlockT)
  BY <1>3, FlattenTyped DEF U
<1> QED BY <1>3, <1>4 DEF U, m, AllPieces

LEMMA AllPiecesEmpty ==
  ASSUME markdown \in Seq(Lines)
  PROVE  AllPieces(<<>>) = <<>>
<1>1. [i \in DOMAIN <<>> |-> Pieces(<<>>[i])] = <<>>
  OBVIOUS
<1> QED BY <1>1, FlattenEmpty, Zenon DEF AllPieces

LEMMA AllPiecesAppend ==
  ASSUME markdown \in Seq(Lines), NEW s \in Seq(Covered), NEW e \in Covered
  PROVE  AllPieces(Append(s, e)) = AllPieces(s) \o Pieces(e)
<1> DEFINE U == Seq(BlockT)
           t == Append(s, e)
           n == Len(s)
           m == [i \in DOMAIN s |-> Pieces(s[i])]
           k == [i \in DOMAIN t |-> Pieces(t[i])]
           x == Pieces(e)
<1>1. /\ n \in Nat /\ t \in Seq(Covered) /\ DOMAIN s = 1..n /\ DOMAIN t = 1..(n + 1)
      /\ \A i \in 1..n : t[i] = s[i]
      /\ t[n + 1] = e
  BY AppendProperties, LenProperties
<1>2. m \in Seq(U) /\ k \in Seq(U)
  <2> HIDE DEF t
  <2> QED BY <1>1, AllPiecesTyped
<1>3. x \in U
  BY CoveredPieces
<1> HIDE DEF t, n, U
<1>4. DOMAIN m = 1..n /\ DOMAIN k = 1..(n + 1)
  BY <1>1
<1>5. \A i \in 1..n : k[i] = m[i]
  <2>1. \A i \in 1..n : i \in 1..(n + 1)
    BY <1>1
  <2> QED BY <1>1, <2>1
<1>6. k[n + 1] = x
  <2>1. n + 1 \in 1..(n + 1)
    BY <1>1
  <2> QED BY <1>1, <2>1
<1> HIDE DEF m, k, x
<1>7. k = Append(m, x)
  <2>1. Len(m) = n /\ Len(k) = n + 1
    BY <1>1, <1>2, <1>4, LenProperties
  <2>2. /\ Append(m, x) \in Seq(U) /\ Len(Append(m, x)) = n + 1
        /\ \A i \in 1..n : Append(m, x)[i] = m[i]
        /\ Append(m, x)[n + 1] = x
    BY <1>2, <1>3, <2>1, AppendProperties
  <2>3. \A i \in 1..(n + 1) : k[i] = Append(m, x)[i]
    <3> SUFFICES ASSUME NEW i \in 1..(n + 1) PROVE k[i] = Append(m, x)[i]
      OBVIOUS
    <3>1. i \in 1..n \/ i = n + 1
      BY <1>1
    <3> QED BY <1>5, <1>6, <2>2, <3>1
  <2> QED BY <1>2, <2>1, <2>2, <2>3, SeqEqual
<1>8. FlattenSeq(k) = FlattenSeq(m) \o x
  BY <1>2, <1>3, <1>7, FlattenAppend DEF U
<1>9. FlattenSeq(m) = AllPieces(s)
  BY Zenon DEF m, AllPieces
<1>10. FlattenSeq(k) = AllPieces(Append(s, e))
  BY Zenon DEF k, t, AllPieces
<1> QED BY <1>8, <1>9, <1>10 DEF x

\* The lines of two runs of blocks are those of the one, then of the other.
LEMMA TextsConcat ==
  ASSUME NEW s \in Seq(BlockT)
  PROVE  \A t \in Seq(BlockT) : Texts(s \o t) = Texts(s) \o Texts(t)
<1> DEFINE S == {t \in Seq(BlockT) : Texts(s \o t) = Texts(s) \o Texts(t)}
<1>0. Texts(s) \in Seq(LineT)
  BY TextsTyped
<1>1. <<>> \in S
  <2>1. s \o <<>> = s /\ Texts(s) \o <<>> = Texts(s)
    BY <1>0, ConcatEmptySeq
  <2>2. Texts(s \o <<>>) = Texts(s) \o Texts(<<>>)
    BY <2>1, TextsEmpty
  <2>3. <<>> \in Seq(BlockT)
    OBVIOUS
  <2> QED BY <2>2, <2>3
<1>2. ASSUME NEW t \in Seq(BlockT), NEW e \in BlockT, t \in S PROVE Append(t, e) \in S
  <2>1. /\ Append(t, e) \in Seq(BlockT) /\ s \o t \in Seq(BlockT)
        /\ s \o Append(t, e) = Append(s \o t, e)
    <3>1. Append(t, e) \in Seq(BlockT) /\ s \o t \in Seq(BlockT)
      BY AppendProperties, ConcatProperties
    <3>2. <<e>> \in Seq(BlockT) /\ Append(t, e) = t \o <<e>> /\ Append(s \o t, e) = (s \o t) \o <<e>>
      BY <3>1, AppendIsConcat
    <3>3. s \o (t \o <<e>>) = (s \o t) \o <<e>>
      BY <3>2, ConcatAssociative
    <3> QED BY <3>1, <3>2, <3>3
  <2>2. Texts(Append(t, e)) = Texts(t) \o e.text
    BY TextsAppend
  <2>3. Texts(Append(s \o t, e)) = Texts(s \o t) \o e.text
    BY <2>1, TextsAppend
  <2>4. Texts(t) \in Seq(LineT) /\ e.text \in Seq(LineT)
    BY TextsTyped DEF BlockT, TextT
  <2>5. (Texts(s) \o Texts(t)) \o e.text = Texts(s) \o (Texts(t) \o e.text)
    <3> DEFINE x == Texts(s)
               y == Texts(t)
               z == e.text
    <3>1. x \in Seq(LineT) /\ y \in Seq(LineT) /\ z \in Seq(LineT)
      BY <1>0, <2>4
    <3> HIDE DEF x, y, z
    <3>2. (x \o y) \o z = x \o (y \o z)
      BY <3>1, ConcatAssociative
    <3> QED BY <3>2 DEF x, y, z
  <2>6. Texts(s \o t) = Texts(s) \o Texts(t)
    BY <1>2
  <2>7. Texts(s \o Append(t, e)) = Texts(s) \o Texts(Append(t, e))
    BY <2>1, <2>2, <2>3, <2>5, <2>6
  <2> QED BY <2>1, <2>7
<1> HIDE DEF S
<1>3. \A t \in Seq(BlockT) : t \in S
  BY <1>1, <1>2, SeqInduction
<1> QED BY <1>3 DEF S

\* The blocks stand one after the other in the document.
InOrder(bs) ==
  \A i, j \in 1..Len(bs) :
     i < j => Precedes(FlattenSeq(bs[i].text), FlattenSeq(bs[j].text))

\* All atoms of some blocks.
BlockAtoms(bs) == UNION {ToSet(FlattenSeq(bs[i].text)) : i \in 1..Len(bs)}

\* The pieces have the atoms of the blocks, in order but for repeated headers.
CutInto(ps, bs) ==
  /\ ps \in Seq(BlockT)
  /\ \A i \in 1..Len(ps) : PieceOk(ps[i])
  /\ Orderly(FlattenSeq(Texts(ps)))
  /\ ToSet(FlattenSeq(Texts(ps))) = BlockAtoms(bs)

\* The pieces of blocks in order are in order, and have their atoms.
LEMMA AllPiecesCut ==
  ASSUME markdown \in Seq(Lines)
  PROVE  \A bs \in Seq(Covered) : InOrder(bs) => CutInto(AllPieces(bs), bs)
<1> DEFINE S == {bs \in Seq(Covered) : InOrder(bs) => CutInto(AllPieces(bs), bs)}
<1>1. <<>> \in S
  <2>1. AllPieces(<<>>) = <<>>
    BY AllPiecesEmpty
  <2>2. FlattenSeq(Texts(<<>>)) = <<>>
    BY TextsEmpty, FlattenEmpty
  <2>3. BlockAtoms(<<>>) = {} /\ ToSet(<<>>) = {} /\ Orderly(<<>>) /\ <<>> \in Seq(BlockT)
        /\ <<>> \in Seq(Covered) /\ Len(<<>>) = 0
    BY DEF BlockAtoms, ToSet, Orderly
  <2>4. CutInto(<<>>, <<>>)
    <3>1. \A i \in 1..Len(<<>>) : PieceOk(<<>>[i])
      BY <2>3
    <3>2. /\ Orderly(FlattenSeq(Texts(<<>>)))
          /\ ToSet(FlattenSeq(Texts(<<>>))) = BlockAtoms(<<>>)
      BY <2>2, <2>3, Zenon
    <3> QED BY <2>3, <3>1, <3>2, Zenon DEF CutInto
  <2> QED BY <2>1, <2>3, <2>4
<1>2. ASSUME NEW bs \in Seq(Covered), NEW b \in Covered, bs \in S PROVE Append(bs, b) \in S
  <2> DEFINE n == Len(bs)
             cs == Append(bs, b)
             ps == AllPieces(bs)
             qs == Pieces(b)
             B == FlattenSeq(b.text)
  <2>1. /\ n \in Nat /\ cs \in Seq(Covered) /\ Len(cs) = n + 1 /\ cs[n + 1] = b
        /\ \A i \in 1..n : cs[i] = bs[i]
    BY AppendProperties, LenProperties
  <2>2. AllPieces(cs) = ps \o qs
    BY AllPiecesAppend
  <2>3. Cuts(qs, b)
    BY CoveredPieces
  <2> HIDE DEF n, cs, ps, qs
  <2> SUFFICES ASSUME InOrder(cs) PROVE CutInto(ps \o qs, cs)
    BY <2>1, <2>2 DEF cs
  <2>4. \A i, j \in 1..(n + 1) :
          i < j => Precedes(FlattenSeq(cs[i].text), FlattenSeq(cs[j].text))
    BY <2>1 DEF InOrder
  <2>5. \A i \in 1..n : i \in 1..(n + 1) /\ i < n + 1 /\ n + 1 \in 1..(n + 1)
    BY <2>1
  <2>6. InOrder(bs)
    BY <2>1, <2>4, <2>5 DEF InOrder, n
  <2>7. \A i \in 1..n : Precedes(FlattenSeq(bs[i].text), B)
    BY <2>1, <2>4, <2>5
  <2>8. CutInto(ps, bs)
    BY <1>2, <2>6 DEF ps
  <2>9. ps \in Seq(BlockT) /\ qs \in Seq(BlockT)
    BY <2>3, <2>8 DEF CutInto, Cuts
  <2> DEFINE P == FlattenSeq(Texts(ps))
             Q == FlattenSeq(Texts(qs))
  <2>10. Texts(ps) \in TextT /\ Texts(qs) \in TextT
    BY <2>9, TextsTyped DEF TextT
  <2>11. P \in Seq(Atom) /\ Q \in Seq(Atom)
    BY <2>10, FlatTyped DEF LineT
  <2>12. FlattenSeq(Texts(ps \o qs)) = P \o Q
    <3>1. Texts(ps \o qs) = Texts(ps) \o Texts(qs)
      BY <2>9, TextsConcat
    <3> QED BY <2>10, <3>1, FlatConcat
  <2> HIDE DEF P, Q, B
  <2>13. /\ Orderly(P) /\ ToSet(P) = BlockAtoms(bs)
         /\ Orderly(Q) /\ ToSet(Q) = ToSet(B)
    BY <2>3, <2>8 DEF CutInto, Cuts, P, Q, B
  <2>14. Precedes(P, Q)
    <3> SUFFICES ASSUME NEW x \in ToSet(P), NEW y \in ToSet(B) PROVE Before(x, y)
      BY <2>13 DEF Precedes
    <3>1. PICK i \in 1..n : x \in ToSet(FlattenSeq(bs[i].text))
      BY <2>13 DEF BlockAtoms, n
    <3> QED BY <2>7, <3>1 DEF Precedes
  <2>15. Orderly(P \o Q)
    BY <2>11, <2>13, <2>14, OrderlyConcat
  <2>16. ToSet(P \o Q) = ToSet(P) \cup ToSet(Q)
    BY <2>11, ToSetConcat
  <2>17. BlockAtoms(cs) = BlockAtoms(bs) \cup ToSet(B)
    <3>1. BlockAtoms(cs) = UNION {ToSet(FlattenSeq(cs[i].text)) : i \in 1..(n + 1)}
      BY <2>1 DEF BlockAtoms
    <3>2. BlockAtoms(bs) = UNION {ToSet(FlattenSeq(bs[i].text)) : i \in 1..n}
      BY DEF BlockAtoms, n
    <3>3. \A i \in 1..(n + 1) : i \in 1..n \/ i = n + 1
      BY <2>1
    <3>4. n + 1 \in 1..(n + 1)
      BY <2>1
    <3> QED BY <2>1, <2>5, <3>1, <3>2, <3>3, <3>4 DEF B
  <2>18. ASSUME NEW i \in 1..Len(ps \o qs) PROVE PieceOk((ps \o qs)[i])
    <3>1. /\ Len(ps \o qs) = Len(ps) + Len(qs)
          /\ \A k \in 1..Len(ps) : (ps \o qs)[k] = ps[k]
          /\ \A k \in 1..Len(qs) : (ps \o qs)[Len(ps) + k] = qs[k]
      BY <2>9, ConcatIndexes
    <3>2. \A k \in 1..(Len(ps) + Len(qs)) :
               k \in 1..Len(ps) \/ \E j \in 1..Len(qs) : k = Len(ps) + j
      BY <2>9, ConcatIndexes
    <3>3. /\ \A k \in 1..Len(ps) : PieceOk(ps[k])
          /\ \A k \in 1..Len(qs) : PieceOk(qs[k])
      BY <2>3, <2>8 DEF CutInto, Cuts
    <3> QED BY <3>1, <3>2, <3>3
  <2>19. ps \o qs \in Seq(BlockT)
    BY <2>9, ConcatProperties
  <2> QED BY <2>12, <2>13, <2>15, <2>16, <2>17, <2>18, <2>19 DEF CutInto
<1> HIDE DEF S
<1>3. \A bs \in Seq(Covered) : bs \in S
  BY <1>1, <1>2, SeqInduction
<1> QED BY <1>3 DEF S

-----------------------------------------------------------------------------
(***************************************************************************)
(* Pieces in chunks.                                                       *)
(***************************************************************************)

\* The pieces that a chunk is made of.
PiecesT == {p \in BlockT : PieceOk(p)}

\* The size of what has a text, and of the pieces collected for a chunk.
Size(p) == CountTokens(FlattenSeq(p.text))

Held(current) == Together(TextsOf(current))

\* A chunk before small ones are merged: not empty, sound, and it fits or
\* cannot be cut.
ChunkOk(c) ==
  /\ c \in ChunkT
  /\ c.body # <<>>
  /\ Sound(c.heading_path, ToSet(c.body))
  /\ FitsOrUncuttable(c.body)
  /\ CountTokens(c.body) <= Size(c)

\* What may be carried over from the last of these chunks.
LastAtoms(cs) == IF cs = <<>> THEN {} ELSE ToSet(Last(cs).body)

\* The last chunk is as full as its section allows.
Full(cs, path, tokens) ==
  cs # <<>> /\ Last(cs).heading_path = path
     => CountTokens(Last(cs).body) + tokens > TARGET_TOKENS

\* The chunk's text is its own and what it carries over of these atoms.
CarriesFrom(c, atoms) == ToSet(FlattenSeq(c.text)) \subseteq ToSet(c.body) \cup atoms

\* Each chunk carries over from the one before only, and what two neighbours of
\* a section own would not have fitted into one.
Chain(cs) ==
  /\ cs \in Seq(ChunkT)
  /\ \A i \in 1..Len(cs) :
        /\ ChunkOk(cs[i])
        /\ i = 1 => CarriesFrom(cs[i], {})
        /\ i > 1 => /\ CarriesFrom(cs[i], ToSet(cs[i - 1].body))
                    /\ cs[i - 1].heading_path = cs[i].heading_path
                         => CountTokens(cs[i - 1].body) + CountTokens(cs[i].body) > TARGET_TOKENS

\* The chunk may come next.
Links(cs, c) ==
  /\ ChunkOk(c)
  /\ CarriesFrom(c, LastAtoms(cs))
  /\ Full(cs, c.heading_path, CountTokens(c.body))

\* The last of a sequence.
LEMMA LastIs ==
  ASSUME NEW T, NEW s \in Seq(T)
  PROVE  /\ Len(s) \in Nat /\ DOMAIN s = 1..Len(s)
         /\ s # <<>> <=> Len(s) > 0
         /\ s # <<>> => Len(s) \in 1..Len(s) /\ Last(s) = s[Len(s)] /\ Last(s) \in T
<1>1. Len(s) \in Nat /\ DOMAIN s = 1..Len(s)
  BY LenProperties
<1>2. s # <<>> => Len(s) \in Nat \ {0}
  BY EmptySeq
<1>3. s = <<>> => Len(s) = 0
  BY EmptySeq
<1>4. s # <<>> => s[Len(s)] \in T
  BY <1>1, <1>2, ElementOfSeq
<1> QED BY <1>1, <1>2, <1>3, <1>4 DEF Last

\* A chain is extended link by link.
LEMMA ChainLinks ==
  ASSUME NEW cs \in Seq(ChunkT), NEW c \in ChunkT
  PROVE  Chain(Append(cs, c)) <=> Chain(cs) /\ Links(cs, c)
<1> DEFINE n == Len(cs)
           ds == Append(cs, c)
           At(i, ss) == /\ ChunkOk(ss[i])
                        /\ i = 1 => CarriesFrom(ss[i], {})
                        /\ i > 1 => /\ CarriesFrom(ss[i], ToSet(ss[i - 1].body))
                                    /\ ss[i - 1].heading_path = ss[i].heading_path
                                         => CountTokens(ss[i - 1].body) + CountTokens(ss[i].body)
                                              > TARGET_TOKENS
<1>1. /\ n \in Nat /\ ds \in Seq(ChunkT) /\ Len(ds) = n + 1 /\ ds[n + 1] = c
      /\ \A i \in 1..n : ds[i] = cs[i]
  BY AppendProperties, LenProperties
<1>2. cs # <<>> <=> n > 0
  BY LastIs
<1>3. cs # <<>> => Last(cs) = cs[n]
  BY LastIs
<1>4. Chain(cs) <=> \A i \in 1..n : At(i, cs)
  BY DEF Chain
<1>5. Chain(ds) <=> \A i \in 1..(n + 1) : At(i, ds)
  BY <1>1 DEF Chain
<1> HIDE DEF n, ds
<1>6. \A i \in 1..n : At(i, ds) <=> At(i, cs)
  <2> SUFFICES ASSUME NEW i \in 1..n PROVE At(i, ds) <=> At(i, cs)
    OBVIOUS
  <2>1. ds[i] = cs[i] /\ (i > 1 => ds[i - 1] = cs[i - 1])
    BY <1>1
  <2> QED BY <2>1
<1>7. At(n + 1, ds) <=> Links(cs, c)
  <2>1. CASE n = 0
    <3>1. cs = <<>> /\ n + 1 = 1
      BY <1>2, <2>1
    <3>2. At(n + 1, ds) <=> ChunkOk(c) /\ CarriesFrom(c, {})
      BY <1>1, <3>1
    <3>3. Links(cs, c) <=> ChunkOk(c) /\ CarriesFrom(c, {})
      BY <3>1 DEF Links, LastAtoms, Full
    <3> QED BY <3>2, <3>3
  <2>2. CASE n > 0
    <3>1. cs # <<>> /\ Last(cs) = cs[n] /\ n + 1 > 1 /\ n + 1 # 1 /\ (n + 1) - 1 = n
          /\ n \in 1..n
      BY <1>1, <1>2, <1>3, <2>2
    <3>2. ds[n + 1] = c /\ ds[(n + 1) - 1] = Last(cs)
      BY <1>1, <3>1
    <3>3. At(n + 1, ds) <=>
            /\ ChunkOk(c)
            /\ CarriesFrom(c, ToSet(Last(cs).body))
            /\ Last(cs).heading_path = c.heading_path
                  => CountTokens(Last(cs).body) + CountTokens(c.body) > TARGET_TOKENS
      BY <3>1, <3>2
    <3> HIDE DEF At
    <3> QED BY <3>1, <3>3 DEF Links, LastAtoms, Full
  <2> QED BY <1>1, <2>1, <2>2
<1> HIDE DEF At
<1>8. (\A i \in 1..(n + 1) : At(i, ds)) <=> (\A i \in 1..n : At(i, ds)) /\ At(n + 1, ds)
  <2>1. \A i \in 1..(n + 1) : i \in 1..n \/ i = n + 1
    BY <1>1
  <2>2. n + 1 \in 1..(n + 1) /\ \A i \in 1..n : i \in 1..(n + 1)
    BY <1>1
  <2> QED BY <2>1, <2>2
<1> QED BY <1>4, <1>5, <1>6, <1>7, <1>8 DEF ds

-----------------------------------------------------------------------------
(***************************************************************************)
(* One piece is added.                                                     *)
(***************************************************************************)

\* The chunk being filled is sound, and fits or cannot be cut.
Open(current) ==
  current # <<>> =>
     /\ FlattenSeq(Texts(current)) # <<>>
     /\ Sound(current[1].heading_path, ToSet(FlattenSeq(Texts(current))))
     /\ FitsOrUncuttable(FlattenSeq(Texts(current)))

\* The states of the loop of chunk_markdown (chunker.py:198-232).
StateT ==
  {s \in [chunks: Seq(ChunkT), current: Seq(PiecesT), carry: TextT] :
     /\ Chain(s.chunks)
     /\ Open(s.current)
     /\ ToSet(FlattenSeq(s.carry)) \subseteq LastAtoms(s.chunks)
     /\ IF s.current = <<>>
          THEN s.chunks = <<>>
          ELSE Full(s.chunks, s.current[1].heading_path, Held(s.current))}

\* The atoms that a state has taken in, in the order of its chunks.
Taken(s) == Bodies(s.chunks) \o FlattenSeq(Texts(s.current))

\* _tail_overlap takes lines of the text it is given (chunker.py:173-184).
LEMMA TailOverlaps ==
  ASSUME NEW t \in TextT, t # <<>>
  PROVE  /\ TailOverlap(t) \in TextT
         /\ ToSet(FlattenSeq(TailOverlap(t))) \subseteq ToSet(FlattenSeq(t))
<1> DEFINE Fits(k) == Together(SubSeq(t, k, Len(t))) <= OVERLAP_TOKENS
           Short == {k \in 1..Len(t) : Fits(k)}
           k0 == Min(Short \cup {Len(t)})
<1>1. t \in Seq(LineT) /\ Len(t) \in Nat \ {0} /\ DOMAIN t = 1..Len(t)
  BY LenProperties, EmptySeq DEF TextT
<1>2. TailOverlap(t) = SubSeq(t, k0, Len(t))
  BY DEF TailOverlap
<1>3. k0 \in 1..Len(t)
  <2> DEFINE S == Short \cup {Len(t)}
  <2>1. S \in SUBSET Nat /\ S # {} /\ S \subseteq 1..Len(t)
    BY <1>1
  <2> HIDE DEF S
  <2>2. Min(S) \in S
    BY <2>1, LeastMember
  <2> QED BY <2>1, <2>2 DEF S
<1> HIDE DEF Short, k0
<1> DEFINE u == SubSeq(t, k0, Len(t))
<1>4. \A i \in k0..Len(t) : t[i] \in LineT /\ i \in 1..Len(t)
  BY <1>1, <1>3
<1>5. u \in TextT /\ \A x \in ToSet(u) : x \in ToSet(t)
  <2>1. /\ u \in Seq(LineT) /\ Len(u) = Len(t) - k0 + 1
        /\ \A i \in 1..(Len(t) - k0 + 1) : u[i] = t[k0 + i - 1]
    BY <1>1, <1>3, <1>4, SubSeqProperties
  <2> HIDE DEF u
  <2> SUFFICES ASSUME NEW x \in ToSet(u) PROVE x \in ToSet(t)
    BY <2>1 DEF TextT
  <2>2. PICK i \in 1..Len(u) : x = u[i]
    BY <2>1, InToSet
  <2>3. x = t[k0 + i - 1] /\ k0 + i - 1 \in 1..Len(t)
    BY <1>1, <1>3, <2>1, <2>2
  <2> QED BY <1>1, <2>3, InToSet
<1> HIDE DEF u
<1>6. ToSet(FlattenSeq(u)) \subseteq ToSet(FlattenSeq(t))
  BY <1>5, SubText
<1> QED BY <1>2, <1>5, <1>6 DEF u

\* The texts of the pieces collected, piece by piece.
LEMMA HeldTexts ==
  ASSUME NEW s \in Seq(BlockT)
  PROVE  TextsOf(s) \in TextT
<1>1. DOMAIN s = 1..Len(s) /\ Len(s) \in Nat /\ \A i \in 1..Len(s) : s[i] \in BlockT
  BY LenProperties
<1>2. \A i \in 1..Len(s) : FlattenSeq(s[i].text) \in LineT
  BY <1>1, FlatTyped DEF BlockT
<1> QED BY <1>1, <1>2 DEF TextsOf, TextT

LEMMA HeldAppend ==
  ASSUME NEW s \in Seq(BlockT), NEW e \in BlockT
  PROVE  TextsOf(Append(s, e)) = Append(TextsOf(s), FlattenSeq(e.text))
<1> DEFINE t == Append(s, e)
           n == Len(s)
           m == TextsOf(s)
           k == TextsOf(t)
           x == FlattenSeq(e.text)
<1>1. /\ n \in Nat /\ t \in Seq(BlockT) /\ DOMAIN s = 1..n /\ DOMAIN t = 1..(n + 1)
      /\ \A i \in 1..n : t[i] = s[i]
      /\ t[n + 1] = e
  BY AppendProperties, LenProperties
<1> HIDE DEF t, n
<1>2. m \in Seq(LineT) /\ k \in Seq(LineT) /\ x \in LineT
  BY <1>1, HeldTexts, FlatTyped DEF TextT, BlockT
<1>3. m = [i \in 1..n |-> FlattenSeq(s[i].text)] /\ k = [i \in 1..(n + 1) |-> FlattenSeq(t[i].text)]
  BY <1>1 DEF TextsOf
<1>4. DOMAIN m = 1..n /\ DOMAIN k = 1..(n + 1) /\ k[n + 1] = x
      /\ \A i \in 1..n : k[i] = m[i]
  <2>1. n + 1 \in 1..(n + 1) /\ \A i \in 1..n : i \in 1..(n + 1)
    BY <1>1
  <2> QED BY <1>1, <1>3, <2>1
<1> HIDE DEF m, k, x
<1>5. Len(m) = n /\ Len(k) = n + 1
  BY <1>1, <1>2, <1>4, LenProperties
<1>6. /\ Append(m, x) \in Seq(LineT) /\ Len(Append(m, x)) = n + 1
      /\ \A i \in 1..n : Append(m, x)[i] = m[i]
      /\ Append(m, x)[n + 1] = x
  BY <1>2, <1>5, AppendProperties
<1>7. \A i \in 1..(n + 1) : k[i] = Append(m, x)[i]
  <2> SUFFICES ASSUME NEW i \in 1..(n + 1) PROVE k[i] = Append(m, x)[i]
    OBVIOUS
  <2>1. i \in 1..n \/ i = n + 1
    BY <1>1
  <2> QED BY <1>4, <1>6, <2>1
<1>8. k = Append(m, x)
  BY <1>2, <1>5, <1>6, <1>7, SeqEqual
<1> QED BY <1>8 DEF m, k, x, t

\* They are the lines of all of them, in other portions.
LEMMA HeldFlat ==
  \A s \in Seq(BlockT) : FlattenSeq(TextsOf(s)) = FlattenSeq(Texts(s))
<1> DEFINE S == {s \in Seq(BlockT) : FlattenSeq(TextsOf(s)) = FlattenSeq(Texts(s))}
<1>1. <<>> \in S
  <2>1. TextsOf(<<>>) = <<>> /\ <<>> \in Seq(BlockT)
    BY DEF TextsOf
  <2> QED BY <2>1, TextsEmpty
<1>2. ASSUME NEW s \in Seq(BlockT), NEW e \in BlockT, s \in S PROVE Append(s, e) \in S
  <2> DEFINE x == FlattenSeq(e.text)
  <2>1. e.text \in TextT /\ Texts(s) \in TextT /\ TextsOf(s) \in TextT /\ x \in LineT
    BY TextsTyped, HeldTexts, FlatTyped DEF BlockT, TextT
  <2>2. FlattenSeq(TextsOf(Append(s, e))) = FlattenSeq(TextsOf(s)) \o x
    BY <2>1, HeldAppend, FlatAppend
  <2>3. FlattenSeq(Texts(Append(s, e))) = FlattenSeq(Texts(s)) \o x
    BY <2>1, TextsAppend, FlatConcat
  <2>4. Append(s, e) \in Seq(BlockT) /\ FlattenSeq(TextsOf(s)) = FlattenSeq(Texts(s))
    BY <1>2, AppendProperties
  <2> QED BY <2>2, <2>3, <2>4
<1> HIDE DEF S
<1>3. \A s \in Seq(BlockT) : s \in S
  BY <1>1, <1>2, SeqInduction
<1> QED BY <1>3 DEF S

\* What is held lies between the atoms alone and the text they will make.
LEMMA HeldBetween ==
  ASSUME NEW s \in Seq(BlockT)
  PROVE  /\ Held(s) \in Nat
         /\ TokensOf(FlattenSeq(Texts(s))) <= Held(s)
         /\ Held(s) <= CountTokens(FlattenSeq(Texts(s)))
<1>1. TextsOf(s) \in TextT /\ FlattenSeq(TextsOf(s)) = FlattenSeq(Texts(s))
  BY HeldTexts, HeldFlat
<1> QED BY <1>1, TogetherBetween DEF Held

LEMMA HeldMore ==
  ASSUME NEW s \in Seq(BlockT), NEW e \in BlockT
  PROVE  Held(Append(s, e)) = Held(s) + Size(e)
<1>1. TextsOf(s) \in Seq(LineT) /\ FlattenSeq(e.text) \in LineT
  BY HeldTexts, FlatTyped DEF BlockT, TextT
<1> QED BY <1>1, HeldAppend, TogetherAppend DEF Held, Size, SumOne

LEMMA HeldOne ==
  ASSUME NEW e \in BlockT
  PROVE  Held(<<e>>) = Size(e)
<1>1. <<>> \in Seq(BlockT) /\ <<e>> = Append(<<>>, e)
  OBVIOUS
<1>2. Held(<<>>) = 0
  <2>1. TextsOf(<<>>) = <<>>
    BY DEF TextsOf
  <2> QED BY <2>1, TogetherEmpty DEF Held
<1>3. Size(e) \in Nat
  BY FlatTyped, CountTyped DEF Size, BlockT, LineT
<1>4. Held(Append(<<>>, e)) = Held(<<>>) + Size(e)
  BY <1>1, HeldMore, Zenon
<1>5. Held(Append(<<>>, e)) = Size(e)
  BY <1>2, <1>3, <1>4
<1> QED BY <1>1, <1>5, Zenon

\* Sound parts under one path are sound together.
LEMMA SoundUnion ==
  ASSUME NEW path, NEW A, NEW B, Sound(path, A), Sound(path, B)
  PROVE  Sound(path, A \cup B)
BY DEF Sound

\* The parts of a piece are typed; so are those of the chunk being filled.
LEMMA PieceIs ==
  ASSUME NEW p \in PiecesT
  PROVE  /\ p \in BlockT /\ PieceOk(p) /\ p.text \in TextT /\ p.heading_path \in PathT
         /\ FlattenSeq(p.text) \in LineT /\ Size(p) \in Nat
         /\ p.text # <<>>
<1>1. p \in BlockT /\ PieceOk(p) /\ p.text \in TextT /\ p.heading_path \in PathT
  BY DEF PiecesT, BlockT
<1>2. FlattenSeq(p.text) \in LineT /\ Size(p) \in Nat
  BY <1>1, FlatTyped, CountTyped DEF Size, LineT
<1>3. p.text # <<>>
  BY <1>1, FlattenEmpty DEF PieceOk
<1> QED BY <1>1, <1>2, <1>3

LEMMA CurrentIs ==
  ASSUME NEW current \in Seq(PiecesT)
  PROVE  /\ current \in Seq(BlockT)
         /\ Texts(current) \in TextT
         /\ FlattenSeq(Texts(current)) \in LineT
         /\ Held(current) \in Nat
         /\ TokensOf(FlattenSeq(Texts(current))) <= Held(current)
         /\ Held(current) <= CountTokens(FlattenSeq(Texts(current)))
         /\ TokensOf(FlattenSeq(Texts(current))) \in Nat
         /\ CountTokens(FlattenSeq(Texts(current))) \in Nat
         /\ current # <<>> => current[1] \in PiecesT /\ current[1].heading_path \in PathT
<1>1. current \in Seq(BlockT)
  BY SeqMonotonic DEF PiecesT
<1>2. Texts(current) \in TextT
  BY <1>1, TextsTyped DEF TextT
<1>3. FlattenSeq(Texts(current)) \in LineT
  BY <1>2, FlatTyped
<1>5. /\ TokensOf(FlattenSeq(Texts(current))) \in Nat
      /\ CountTokens(FlattenSeq(Texts(current))) \in Nat
  BY <1>3, TokensTyped, CountTyped DEF LineT
<1>4. current # <<>> => current[1] \in PiecesT
  BY EmptySeq, ElementOfSeq
<1> QED BY <1>1, <1>2, <1>3, <1>4, <1>5, HeldBetween, PieceIs

\* A block starts the next chunk.
LEMMA OpenOne ==
  ASSUME NEW p \in PiecesT
  PROVE  /\ <<p>> \in Seq(PiecesT) /\ <<p>> # <<>> /\ <<p>>[1] = p
         /\ Texts(<<p>>) = p.text /\ Held(<<p>>) = Size(p)
         /\ Open(<<p>>)
<1>1. <<p>> \in Seq(PiecesT) /\ <<p>> # <<>> /\ <<p>>[1] = p
  OBVIOUS
<1>2. Texts(<<p>>) = p.text
  <2>1. <<>> \in Seq(BlockT) /\ <<p>> = Append(<<>>, p) /\ p \in BlockT
    BY PieceIs
  <2>2. Texts(Append(<<>>, p)) = Texts(<<>>) \o p.text
    BY <2>1, TextsAppend
  <2>3. <<>> \o p.text = p.text
    BY PieceIs, ConcatEmptySeq DEF TextT
  <2> QED BY <2>1, <2>2, <2>3, TextsEmpty
<1>3. PieceOk(p) /\ Held(<<p>>) = Size(p)
  BY PieceIs, HeldOne
<1> HIDE <1>1
<1>4. Open(<<p>>)
  BY <1>1, <1>2, <1>3 DEF Open, PieceOk
<1> QED BY <1>1, <1>2, <1>3, <1>4

\* A block joins the chunk being filled.
LEMMA OpenMore ==
  ASSUME NEW current \in Seq(PiecesT), current # <<>>, Open(current), NEW p \in PiecesT,
         p.heading_path = current[1].heading_path,
         Held(current) + Size(p) <= TARGET_TOKENS
  PROVE  /\ Append(current, p) \in Seq(PiecesT) /\ Append(current, p) # <<>>
         /\ Append(current, p)[1] = current[1]
         /\ FlattenSeq(Texts(Append(current, p)))
              = FlattenSeq(Texts(current)) \o FlattenSeq(p.text)
         /\ Held(Append(current, p))
              = Held(current) + Size(p)
         /\ Open(Append(current, p))
<1> DEFINE c == Append(current, p)
           A == FlattenSeq(Texts(current))
           B == FlattenSeq(p.text)
<1>1. c \in Seq(PiecesT) /\ c # <<>> /\ c[1] = current[1]
  <2>1. 1 \in 1..Len(current)
    BY EmptySeq
  <2> QED BY <2>1, AppendProperties
<1>2. Texts(c) = Texts(current) \o p.text
  BY CurrentIs, PieceIs, TextsAppend
<1> HIDE DEF c
<1>3. Texts(current) \in TextT /\ p.text \in TextT /\ A \in Seq(Atom) /\ B \in Seq(Atom)
  BY CurrentIs, PieceIs DEF LineT
<1>4. FlattenSeq(Texts(c)) = A \o B
      /\ Held(c) = Held(current) + Size(p)
  BY <1>2, <1>3, FlatConcat, HeldMore, CurrentIs, PieceIs DEF c
<1>5. /\ A # <<>> /\ Sound(c[1].heading_path, ToSet(A))
      /\ PieceOk(p)
  BY <1>1, PieceIs DEF Open
<1>6. Sound(c[1].heading_path, ToSet(B))
  BY <1>1, <1>5 DEF PieceOk
<1> HIDE DEF A, B
<1>7. Sound(c[1].heading_path, ToSet(A \o B))
  BY <1>3, <1>5, <1>6, SoundUnion, ToSetConcat
<1>8. A \o B # <<>>
  BY <1>3, <1>5, ConcatEqualIffEmpty
<1>9. FitsOrUncuttable(A \o B)
  <2>1. TokensOf(A \o B) <= Held(c) /\ TokensOf(A \o B) \in Nat /\ Held(c) \in Nat
    BY <1>1, <1>4, CurrentIs
  <2>2. TokensOf(A \o B) <= TARGET_TOKENS
    BY <1>4, <2>1, SizesAssumption
  <2> QED BY <2>2 DEF FitsOrUncuttable
<1>10. Open(c)
  BY <1>4, <1>7, <1>8, <1>9 DEF Open
<1> QED BY <1>1, <1>4, <1>10 DEF c, A, B

\* What emit leaves, before the next piece is added.
RawT == [chunks: Seq(ChunkT), current: Seq(PiecesT), carry: TextT]

\* What emitting a chunk does.
Emits(s, e) ==
  /\ e \in RawT /\ e.current = <<>> /\ e.chunks # <<>>
  /\ Chain(e.chunks)
  /\ Bodies(e.chunks) = Taken(s)
  /\ ToSet(FlattenSeq(e.carry)) \subseteq LastAtoms(e.chunks)
  /\ Last(e.chunks).heading_path = s.current[1].heading_path
  /\ CountTokens(Last(e.chunks).body) >= Held(s.current)

\* emit makes a chunk of the pieces collected, that may come next
\* (chunker.py:203-222).
LEMMA EmitEmits ==
  ASSUME NEW s \in StateT, s.current # <<>>
  PROVE  Emits(s, Emit(s))
<1> DEFINE own == Texts(s.current)
           c == [ordinal      |-> Len(s.chunks),
                 heading_path |-> s.current[1].heading_path,
                 text         |-> s.carry \o own,
                 body         |-> FlattenSeq(own)]
           carry == IF Last(s.current).is_table THEN <<>> ELSE TailOverlap(own)
           e == [chunks |-> Append(s.chunks, c), current |-> <<>>, carry |-> carry]
<1>1. Emit(s) = e
  BY DEF Emit, Texts
<1>2. /\ s.chunks \in Seq(ChunkT) /\ s.current \in Seq(PiecesT) /\ s.carry \in TextT
      /\ Chain(s.chunks) /\ Open(s.current)
      /\ ToSet(FlattenSeq(s.carry)) \subseteq LastAtoms(s.chunks)
      /\ Full(s.chunks, s.current[1].heading_path, Held(s.current))
  BY DEF StateT
<1>3. /\ own \in TextT /\ FlattenSeq(own) \in LineT /\ Held(s.current) \in Nat
      /\ Held(s.current) <= CountTokens(FlattenSeq(own)) /\ CountTokens(FlattenSeq(own)) \in Nat
      /\ s.current[1].heading_path \in PathT
  BY <1>2, CurrentIs
<1>4. /\ FlattenSeq(own) # <<>>
      /\ Sound(s.current[1].heading_path, ToSet(FlattenSeq(own)))
      /\ FitsOrUncuttable(FlattenSeq(own))
  BY <1>2 DEF Open
<1>5. /\ s.carry \o own \in TextT
      /\ FlattenSeq(s.carry \o own) = FlattenSeq(s.carry) \o FlattenSeq(own)
      /\ FlattenSeq(s.carry) \in LineT
  BY <1>2, <1>3, FlatConcat, FlatTyped
<1>6. Len(s.chunks) \in Nat
  BY <1>2, LenProperties
<1> HIDE DEF own
<1>7. /\ c \in ChunkT
      /\ c.heading_path = s.current[1].heading_path /\ c.text = s.carry \o own
      /\ c.body = FlattenSeq(own)
  BY <1>3, <1>5, <1>6 DEF ChunkT
<1> HIDE DEF c
<1>8. ChunkOk(c)
  <2> DEFINE x == FlattenSeq(s.carry)
             y == FlattenSeq(own)
  <2>1. x \in LineT /\ y \in LineT /\ c.body = y /\ Size(c) = CountTokens(x \o y)
    BY <1>3, <1>5, <1>7 DEF Size
  <2> HIDE DEF x, y
  <2>3. CountTokens(x) \in Nat /\ CountTokens(y) \in Nat /\ CountTokens(x \o y) \in Nat
    BY <2>1, CountTyped, ConcatProperties DEF LineT
  <2>4. CountTokens(x) + CountTokens(y) <= CountTokens(x \o y)
    BY <2>1, CountConcat
  <2>2. CountTokens(c.body) <= Size(c)
    BY <2>1, <2>3, <2>4
  <2> QED BY <1>4, <1>7, <2>2 DEF ChunkOk
<1>9. CarriesFrom(c, LastAtoms(s.chunks))
  <2> DEFINE x == FlattenSeq(s.carry)
             y == FlattenSeq(own)
  <2>1. x \in Seq(Atom) /\ y \in Seq(Atom)
    BY <1>3, <1>5 DEF LineT
  <2>2. ToSet(FlattenSeq(c.text)) = ToSet(x \o y)
    BY <1>5, <1>7
  <2> HIDE DEF x, y
  <2>3. ToSet(x \o y) = ToSet(x) \cup ToSet(y)
    BY <2>1, ToSetConcat
  <2> QED BY <1>2, <1>7, <2>2, <2>3 DEF CarriesFrom, x, y
<1>10. Links(s.chunks, c)
  <2> SUFFICES Full(s.chunks, c.heading_path, CountTokens(c.body))
    BY <1>8, <1>9 DEF Links
  <2> SUFFICES ASSUME s.chunks # <<>>, Last(s.chunks).heading_path = s.current[1].heading_path
               PROVE  CountTokens(Last(s.chunks).body) + CountTokens(c.body) > TARGET_TOKENS
    BY <1>7 DEF Full
  <2>1. CountTokens(Last(s.chunks).body) + Held(s.current) > TARGET_TOKENS
    BY <1>2 DEF Full
  <2>2. CountTokens(Last(s.chunks).body) \in Nat /\ TARGET_TOKENS \in Nat
    <3>1. Last(s.chunks) \in ChunkT
      BY <1>2, LastIs
    <3>2. Last(s.chunks).body \in Seq(Atom)
      BY <3>1 DEF ChunkT, LineT
    <3> QED BY <3>2, CountTyped, SizesAssumption
  <2> QED BY <1>3, <1>7, <2>1, <2>2
<1>11. Chain(Append(s.chunks, c))
  BY <1>2, <1>7, <1>10, ChainLinks
<1>12. carry \in TextT /\ ToSet(FlattenSeq(carry)) \subseteq ToSet(c.body)
  <2>1. CASE Last(s.current).is_table
    <3>1. ToSet(<<>>) = {}
      BY DEF ToSet
    <3> QED BY <2>1, <3>1, FlatEmpty
  <2>2. CASE ~ Last(s.current).is_table
    <3>1. own # <<>>
      BY <1>4, FlattenEmpty
    <3>2. TailOverlap(own) \in TextT
          /\ ToSet(FlattenSeq(TailOverlap(own))) \subseteq ToSet(FlattenSeq(own))
      BY <1>3, <3>1, TailOverlaps
    <3> QED BY <1>7, <2>2, <3>2
  <2> QED BY <2>1, <2>2
<1> HIDE DEF carry
<1>13. /\ Append(s.chunks, c) \in Seq(ChunkT) /\ Append(s.chunks, c) # <<>>
       /\ Last(Append(s.chunks, c)) = c
  BY <1>2, <1>7, AppendProperties, LastOfAppend
<1>14. Bodies(Append(s.chunks, c)) = Bodies(s.chunks) \o FlattenSeq(own)
  BY <1>2, <1>7, BodiesAppend
<1>15. /\ e.chunks = Append(s.chunks, c) /\ e.current = <<>> /\ e.carry = carry
       /\ e \in RawT
  <2>1. <<>> \in Seq(PiecesT)
    OBVIOUS
  <2> QED BY <1>12, <1>13, <2>1 DEF RawT
<1> HIDE DEF e
<1>16. LastAtoms(e.chunks) = ToSet(c.body)
  BY <1>13, <1>15 DEF LastAtoms
<1>17. Emits(s, e)
  BY <1>3, <1>7, <1>11, <1>12, <1>13, <1>14, <1>15, <1>16 DEF Emits, Taken, own
<1> QED BY <1>1, <1>17

\* Adding a piece keeps what is said of a state, and takes in its atoms.
Adds(s, p, e) ==
  /\ e \in StateT
  /\ Taken(e) = Taken(s) \o FlattenSeq(p.text)

\* The three ways in which a piece is added: after emitting what does not go
\* with it, as the first, and to those collected (chunker.py:224-232).
LEMMA AddAfterEmit ==
  ASSUME NEW s \in StateT, s.current # <<>>, NEW p \in PiecesT, NEW e, Emits(s, e),
         p.heading_path # s.current[1].heading_path
           \/ Held(s.current) + Size(p) > TARGET_TOKENS
  PROVE  Adds(s, p, [e EXCEPT !.current = Append(@, p)])
<1> DEFINE d == [e EXCEPT !.current = Append(@, p)]
<1>1. e \in RawT /\ e.current = <<>> /\ Append(<<>>, p) = <<p>>
  BY DEF Emits
<1>2. /\ <<p>> \in Seq(PiecesT) /\ <<p>> # <<>> /\ <<p>>[1] = p
      /\ Texts(<<p>>) = p.text /\ Held(<<p>>) = Size(p)
      /\ Open(<<p>>)
  BY OpenOne
<1> DEFINE one == <<p>>
<1> HIDE DEF one
<1>3. /\ one \in Seq(PiecesT) /\ one # <<>> /\ one[1] = p
      /\ Texts(one) = p.text /\ Held(one) = Size(p) /\ Open(one)
  BY <1>2 DEF one
<1>4. /\ d \in RawT
      /\ d.chunks = e.chunks /\ d.current = one /\ d.carry = e.carry
  BY <1>1, <1>3 DEF RawT, one
<1> HIDE DEF d
<1>5. Full(d.chunks, p.heading_path, Size(p))
  <2> SUFFICES ASSUME p.heading_path = s.current[1].heading_path
               PROVE  CountTokens(Last(e.chunks).body) + Size(p) > TARGET_TOKENS
    BY <1>4 DEF Full, Emits
  <2>1. e.chunks # <<>> /\ e.chunks \in Seq(ChunkT)
        /\ CountTokens(Last(e.chunks).body) >= Held(s.current)
    BY DEF Emits, RawT
  <2>2. CountTokens(Last(e.chunks).body) \in Nat
    <3>1. Last(e.chunks) \in ChunkT
      BY <2>1, LastIs
    <3>2. Last(e.chunks).body \in Seq(Atom)
      BY <3>1 DEF ChunkT, LineT
    <3> QED BY <3>2, CountTyped
  <2>3. Held(s.current) \in Nat /\ Size(p) \in Nat /\ TARGET_TOKENS \in Nat
    BY CurrentIs, PieceIs, SizesAssumption DEF StateT
  <2> QED BY <2>1, <2>2, <2>3
<1>6. d \in StateT
  BY <1>3, <1>4, <1>5 DEF StateT, RawT, Emits
<1>7. Taken(d) = Taken(s) \o FlattenSeq(p.text)
  BY <1>3, <1>4 DEF Taken, Emits
<1> QED BY <1>6, <1>7 DEF Adds, d

LEMMA AddToFirst ==
  ASSUME NEW s \in StateT, s.current = <<>>, NEW p \in PiecesT
  PROVE  Adds(s, p, [s EXCEPT !.current = Append(@, p)])
<1> DEFINE d == [s EXCEPT !.current = Append(@, p)]
           one == <<p>>
<1>1. /\ s \in RawT /\ s.chunks = <<>> /\ Append(<<>>, p) = one
      /\ Chain(s.chunks) /\ ToSet(FlattenSeq(s.carry)) \subseteq LastAtoms(s.chunks)
  BY DEF StateT, RawT
<1>2. /\ one \in Seq(PiecesT) /\ one # <<>> /\ one[1] = p
      /\ Texts(one) = p.text /\ Held(one) = Size(p) /\ Open(one)
  BY OpenOne
<1> HIDE DEF one
<1>3. /\ d \in RawT
      /\ d.chunks = s.chunks /\ d.current = one /\ d.carry = s.carry
  BY <1>1, <1>2 DEF RawT
<1> HIDE DEF d
<1>4. Full(d.chunks, p.heading_path, Size(p))
  BY <1>1, <1>3 DEF Full
<1>5. d \in StateT
  BY <1>1, <1>2, <1>3, <1>4 DEF StateT, RawT
<1>6. Taken(d) = Taken(s) \o FlattenSeq(p.text)
  <2>1. Taken(s) = <<>>
    <3>1. Taken(s) = Bodies(<<>>) \o FlattenSeq(Texts(<<>>))
      BY <1>1 DEF Taken
    <3>2. <<>> \o <<>> = <<>>
      OBVIOUS
    <3> QED BY <3>1, <3>2, BodiesEmpty, TextsEmpty, FlattenEmpty
  <2>2. Taken(d) = <<>> \o FlattenSeq(p.text)
    BY <1>1, <1>2, <1>3, BodiesEmpty DEF Taken
  <2> QED BY <2>1, <2>2
<1> QED BY <1>5, <1>6 DEF Adds, d

LEMMA AddToOpen ==
  ASSUME NEW s \in StateT, s.current # <<>>, NEW p \in PiecesT,
         p.heading_path = s.current[1].heading_path,
         Held(s.current) + Size(p) <= TARGET_TOKENS
  PROVE  Adds(s, p, [s EXCEPT !.current = Append(@, p)])
<1> DEFINE d == [s EXCEPT !.current = Append(@, p)]
           c == Append(s.current, p)
<1>1. /\ s \in RawT /\ s.chunks \in Seq(ChunkT) /\ s.current \in Seq(PiecesT)
      /\ Chain(s.chunks) /\ ToSet(FlattenSeq(s.carry)) \subseteq LastAtoms(s.chunks)
      /\ Open(s.current)
      /\ Full(s.chunks, s.current[1].heading_path, Held(s.current))
  BY DEF StateT, RawT
<1>2. /\ c \in Seq(PiecesT) /\ c # <<>> /\ c[1] = s.current[1]
      /\ FlattenSeq(Texts(c)) = FlattenSeq(Texts(s.current)) \o FlattenSeq(p.text)
      /\ Held(c) = Held(s.current) + Size(p)
      /\ Open(c)
  BY <1>1, OpenMore
<1> HIDE DEF c
<1>3. /\ d \in RawT
      /\ d.chunks = s.chunks /\ d.current = c /\ d.carry = s.carry
  BY <1>1, <1>2 DEF RawT, c
<1> HIDE DEF d
<1>4. Full(d.chunks, c[1].heading_path, Held(c))
  <2> SUFFICES ASSUME s.chunks # <<>>, Last(s.chunks).heading_path = s.current[1].heading_path
               PROVE  CountTokens(Last(s.chunks).body) + Held(c) > TARGET_TOKENS
    BY <1>2, <1>3 DEF Full
  <2>1. CountTokens(Last(s.chunks).body) + Held(s.current) > TARGET_TOKENS
    BY <1>1 DEF Full
  <2>2. Size(p) \in Nat /\ Held(s.current) \in Nat
    BY <1>1, CurrentIs, PieceIs
  <2>3. CountTokens(Last(s.chunks).body) \in Nat
    <3>1. Last(s.chunks) \in ChunkT
      BY <1>1, LastIs
    <3>2. Last(s.chunks).body \in Seq(Atom)
      BY <3>1 DEF ChunkT, LineT
    <3> QED BY <3>2, CountTyped
  <2>4. TARGET_TOKENS \in Nat
    BY SizesAssumption
  <2> QED BY <1>2, <2>1, <2>2, <2>3, <2>4
<1>5. d \in StateT
  BY <1>1, <1>2, <1>3, <1>4 DEF StateT, RawT
<1>6. Taken(d) = Taken(s) \o FlattenSeq(p.text)
  <2> DEFINE x == Bodies(s.chunks)
             y == FlattenSeq(Texts(s.current))
             z == FlattenSeq(p.text)
  <2>1. x \in Seq(Atom) /\ y \in Seq(Atom) /\ z \in Seq(Atom)
    BY <1>1, BodiesTyped, CurrentIs, PieceIs DEF LineT
  <2>2. Taken(s) = x \o y /\ Taken(d) = x \o (y \o z)
    BY <1>2, <1>3 DEF Taken
  <2> HIDE DEF x, y, z
  <2>3. (x \o y) \o z = x \o (y \o z)
    BY <2>1, ConcatAssociative
  <2> QED BY <2>2, <2>3 DEF z
<1> QED BY <1>5, <1>6 DEF Adds, d

\* However a piece is added, the loop's state stays as it is described, and
\* takes in the piece's atoms behind all others.
LEMMA AddAdds ==
  ASSUME NEW s \in StateT, NEW p \in PiecesT
  PROVE  Adds(s, p, Add(s, p))
<1>0. /\ Held(s.current) \in Nat /\ Size(p) \in Nat
      /\ TARGET_TOKENS \in Nat
  BY CurrentIs, PieceIs, SizesAssumption DEF StateT
<1>1. TooBig(s.current, p)
        <=> Held(s.current) + Size(p) > TARGET_TOKENS
  BY DEF TooBig, Held, Size
<1>2. CASE s.current = <<>>
  <2>1. Add(s, p) = [s EXCEPT !.current = Append(@, p)]
    BY <1>2 DEF Add
  <2>2. Adds(s, p, [s EXCEPT !.current = Append(@, p)])
    BY <1>2, AddToFirst
  <2> QED BY <2>1, <2>2
<1>3. CASE s.current # <<>> /\ (StartsNewSection(s.current, p) \/ TooBig(s.current, p))
  <2> DEFINE e == Emit(s)
  <2>1. Add(s, p) = [e EXCEPT !.current = Append(@, p)]
    BY <1>3 DEF Add
  <2>2. Emits(s, e)
    BY <1>3, EmitEmits
  <2> HIDE DEF e
  <2>3. Adds(s, p, [e EXCEPT !.current = Append(@, p)])
    BY <1>1, <1>3, <2>2, AddAfterEmit DEF StartsNewSection
  <2> QED BY <2>1, <2>3
<1>4. CASE s.current # <<>> /\ ~ StartsNewSection(s.current, p) /\ ~ TooBig(s.current, p)
  <2>1. Add(s, p) = [s EXCEPT !.current = Append(@, p)]
    BY <1>4 DEF Add
  <2>2. Held(s.current) + Size(p) <= TARGET_TOKENS
    BY <1>0, <1>1, <1>4
  <2>3. Adds(s, p, [s EXCEPT !.current = Append(@, p)])
    BY <1>4, <2>2, AddToOpen DEF StartsNewSection
  <2> QED BY <2>1, <2>3
<1> QED BY <1>2, <1>3, <1>4

-----------------------------------------------------------------------------
(***************************************************************************)
(* All pieces are added.                                                   *)
(***************************************************************************)

\* The loop of chunk_markdown as a fold of Add over the pieces.
Nothing == [chunks |-> <<>>, current |-> <<>>, carry |-> <<>>]

Adding == [p \in StateT \X PiecesT |-> Add(p[1], p[2])]

Added(ps) == FoldLeft(Add, Nothing, ps)

\* It starts with nothing.
LEMMA NothingTaken ==
  Nothing \in StateT /\ Taken(Nothing) = <<>>
<1>1. /\ Nothing.chunks = <<>> /\ Nothing.current = <<>> /\ Nothing.carry = <<>>
      /\ Nothing \in RawT
  BY FlatEmpty DEF Nothing, RawT
<1>2. Chain(<<>>)
  BY DEF Chain
<1>3. Open(<<>>)
  BY Zenon DEF Open
<1>4. ToSet(FlattenSeq(<<>>)) \subseteq LastAtoms(<<>>)
  <2>1. ToSet(<<>>) = {}
    BY DEF ToSet
  <2> QED BY <2>1, FlattenEmpty
<1>5. Taken(Nothing) = Bodies(<<>>) \o FlattenSeq(Texts(<<>>))
  BY <1>1, Zenon DEF Taken
<1>6. <<>> \o <<>> = <<>>
  OBVIOUS
<1>7. Taken(Nothing) = <<>>
  BY <1>5, <1>6, BodiesEmpty, TextsEmpty, FlattenEmpty
<1> HIDE DEF Nothing
<1>8. Nothing \in StateT
  BY <1>1, <1>2, <1>3, <1>4, Zenon DEF StateT, RawT
<1> QED BY <1>7, <1>8

LEMMA AddingTyped ==
  Nothing \in StateT /\ Adding \in [StateT \X PiecesT -> StateT]
<1>1. \A s \in StateT, p \in PiecesT : Add(s, p) \in StateT
  BY AddAdds DEF Adds
<1> QED BY <1>1, NothingTaken DEF Adding

\* The loop's state after some pieces is the value of a function on prefixes.
LEMMA AddedFold ==
  ASSUME NEW s \in Seq(PiecesT)
  PROVE  \E h : IsFold(h, StateT, Adding, Nothing, s, Len(s)) /\ Added(s) = h[1..Len(s)]
<1> DEFINE n == Len(s)
           R(it) == it = [x \in SUBSET (DOMAIN s) |->
                            IF x = {} THEN Nothing
                            ELSE Add(it[x \ {Max(x)}], s[Max(x)])]
           C == CHOOSE it : R(it)
<1>1. n \in Nat /\ n = Len(s) /\ DOMAIN s = 1..n /\ \A i \in 1..n : s[i] \in PiecesT
  BY LenProperties
<1> HIDE DEF n
<1>2. Nothing \in StateT /\ Adding \in [StateT \X PiecesT -> StateT]
  BY AddingTyped
<1>3. PICK h : IsFold(h, StateT, Adding, Nothing, s, Len(s))
  BY <1>2, FoldExists
<1>4. /\ h \in [SUBSET (1..n) -> StateT]
      /\ FoldsTo(h, Adding, Nothing, s, n)
      /\ h[{}] = Nothing
      /\ \A x \in SUBSET (1..n) :
            x # {} => h[x] = Adding[<<h[x \ {Max(x)}], s[Max(x)]>>]
  BY <1>1, <1>3, Zenon DEF IsFold
<1>5. \A x \in SUBSET (1..n) :
        x # {} => Max(x) \in 1..n /\ x \ {Max(x)} \in SUBSET (1..n)
  <2> SUFFICES ASSUME NEW x \in SUBSET (1..n), x # {} PROVE Max(x) \in x
    OBVIOUS
  <2>1. x \in SUBSET (0..n)
    BY <1>1
  <2> QED BY <1>1, <2>1, GreatestMember
<1>6. \A a \in StateT, b \in PiecesT : Adding[<<a, b>>] = Add(a, b)
  BY DEF Adding
<1>7. \A x \in SUBSET (1..n) :
        h[x] = IF x = {} THEN Nothing ELSE Add(h[x \ {Max(x)}], s[Max(x)])
  <2> SUFFICES ASSUME NEW x \in SUBSET (1..n), x # {}
               PROVE  h[x] = Add(h[x \ {Max(x)}], s[Max(x)])
    BY <1>4
  <2>1. h[x \ {Max(x)}] \in StateT /\ s[Max(x)] \in PiecesT
    BY <1>1, <1>4, <1>5
  <2> QED BY <1>4, <1>6, <2>1
<1>8. R(h)
  <2>1. h = [x \in SUBSET (1..n) |-> h[x]]
    BY <1>4
  <2>2. h = [x \in SUBSET (1..n) |->
              IF x = {} THEN Nothing ELSE Add(h[x \ {Max(x)}], s[Max(x)])]
    BY <1>7, <2>1
  <2> QED BY <1>1, <2>2, Zenon
<1>9. R(C)
  BY <1>8, Zenon
<1>10. Added(s) = C[DOMAIN s]
  BY Zenon DEF Added, FoldLeft, MapThenFoldSet
<1> HIDE DEF C
<1> DEFINE G == [p \in (StateT \X PiecesT) \cup {<<C[x], s[i]>> : x \in SUBSET (1..n), i \in 1..n} |->
                   Add(p[1], p[2])]
<1>11. \A x \in SUBSET (1..n) :
         C[x] = IF x = {} THEN Nothing ELSE Add(C[x \ {Max(x)}], s[Max(x)])
  <2> DEFINE D == [x \in SUBSET (1..n) |->
                     IF x = {} THEN Nothing ELSE Add(C[x \ {Max(x)}], s[Max(x)])]
  <2>1. \A x \in SUBSET (1..n) :
         D[x] = IF x = {} THEN Nothing ELSE Add(C[x \ {Max(x)}], s[Max(x)])
    OBVIOUS
  <2>2. C = D
    BY <1>1, <1>9, Zenon
  <2> HIDE DEF D
  <2> QED BY <2>1, <2>2
<1>12. C = [x \in SUBSET (1..n) |-> C[x]]
  <2> DEFINE D == [x \in SUBSET (1..n) |->
                     IF x = {} THEN Nothing ELSE Add(C[x \ {Max(x)}], s[Max(x)])]
  <2>1. C = D
    BY <1>1, <1>9, Zenon
  <2>2. D = [x \in SUBSET (1..n) |-> D[x]]
    OBVIOUS
  <2> HIDE DEF D
  <2> QED BY <2>1, <2>2
<1>13. \A x \in SUBSET (1..n), i \in 1..n : G[<<C[x], s[i]>>] = Add(C[x], s[i])
  OBVIOUS
<1>14. \A a \in StateT, b \in PiecesT : G[<<a, b>>] = Add(a, b)
  OBVIOUS
<1> HIDE DEF G
<1>15. FoldsTo(C, G, Nothing, s, n)
  <2>1. \A x \in SUBSET (1..n) :
          C[x] = IF x = {} THEN Nothing ELSE G[<<C[x \ {Max(x)}], s[Max(x)]>>]
    BY <1>5, <1>11, <1>13
  <2> QED BY <1>12, <2>1 DEF FoldsTo
<1>16. FoldsTo(h, G, Nothing, s, n)
  <2>1. \A x \in SUBSET (1..n) :
          h[x] = IF x = {} THEN Nothing ELSE G[<<h[x \ {Max(x)}], s[Max(x)]>>]
    <3> SUFFICES ASSUME NEW x \in SUBSET (1..n), x # {}
                 PROVE  h[x] = G[<<h[x \ {Max(x)}], s[Max(x)]>>]
      BY <1>7
    <3>1. h[x \ {Max(x)}] \in StateT /\ s[Max(x)] \in PiecesT
      BY <1>1, <1>4, <1>5
    <3> QED BY <1>7, <1>14, <3>1
  <2>2. h = [x \in SUBSET (1..n) |-> h[x]]
    BY <1>4
  <2> QED BY <2>1, <2>2 DEF FoldsTo
<1>17. C[1..n] = h[1..n]
  <2>1. n <= n /\ \A i \in 1..n : s[i] = s[i]
    BY <1>1
  <2> QED BY <1>1, <1>15, <1>16, <2>1, FoldAgrees
<1> QED BY <1>1, <1>3, <1>10, <1>17

LEMMA AddedTyped ==
  ASSUME NEW s \in Seq(PiecesT)
  PROVE  Added(s) \in StateT
<1>1. PICK h : IsFold(h, StateT, Adding, Nothing, s, Len(s)) /\ Added(s) = h[1..Len(s)]
  BY AddedFold
<1>2. 1..Len(s) \in SUBSET (1..Len(s)) /\ h \in [SUBSET (1..Len(s)) -> StateT]
  BY <1>1, Zenon DEF IsFold
<1> QED BY <1>1, <1>2, Zenon

LEMMA AddedEmpty ==
  Added(<<>>) = Nothing
<1>1. <<>> \in Seq(PiecesT) /\ 1..Len(<<>>) = {}
  OBVIOUS
<1>2. PICK h : IsFold(h, StateT, Adding, Nothing, <<>>, Len(<<>>)) /\ Added(<<>>) = h[1..Len(<<>>)]
  BY <1>1, AddedFold
<1>3. h[{}] = Nothing
  BY <1>2, Zenon DEF IsFold
<1> QED BY <1>1, <1>2, <1>3, Zenon

LEMMA AddedAppend ==
  ASSUME NEW s \in Seq(PiecesT), NEW e \in PiecesT
  PROVE  Added(Append(s, e)) = Add(Added(s), e)
<1> DEFINE t == Append(s, e)
<1>1. t \in Seq(PiecesT)
  BY AppendProperties
<1>2. PICK h : IsFold(h, StateT, Adding, Nothing, s, Len(s)) /\ Added(s) = h[1..Len(s)]
  BY AddedFold
<1>3. PICK g : IsFold(g, StateT, Adding, Nothing, t, Len(t)) /\ Added(t) = g[1..Len(t)]
  <2> HIDE DEF t
  <2> QED BY <1>1, AddedFold
<1>4. FoldsTo(h, Adding, Nothing, s, Len(s)) /\ FoldsTo(g, Adding, Nothing, t, Len(t))
  BY <1>2, <1>3, Zenon DEF IsFold
<1>5. g[1..Len(t)] = Adding[<<h[1..Len(s)], e>>]
  BY <1>4, FoldAppends
<1>6. Added(s) \in StateT
  BY AddedTyped
<1>7. \A a \in StateT, b \in PiecesT : Adding[<<a, b>>] = Add(a, b)
  BY DEF Adding
<1>8. Adding[<<Added(s), e>>] = Add(Added(s), e)
  BY <1>6, <1>7, Zenon
<1> HIDE DEF t
<1>9. Added(t) = Add(Added(s), e)
  BY <1>2, <1>3, <1>5, <1>8, Zenon
<1> QED BY <1>9, Zenon DEF t

\* The loop takes in every piece, in order.
LEMMA AddedTakes ==
  \A ps \in Seq(PiecesT) : Taken(Added(ps)) = FlattenSeq(Texts(ps))
<1> DEFINE S == {ps \in Seq(PiecesT) : Taken(Added(ps)) = FlattenSeq(Texts(ps))}
<1>1. <<>> \in S
  <2>1. Taken(Added(<<>>)) = <<>>
    BY AddedEmpty, NothingTaken
  <2>2. FlattenSeq(Texts(<<>>)) = <<>>
    BY TextsEmpty, FlattenEmpty
  <2>3. <<>> \in Seq(PiecesT)
    OBVIOUS
  <2> QED BY <2>1, <2>2, <2>3
<1>2. ASSUME NEW ps \in Seq(PiecesT), NEW p \in PiecesT, ps \in S PROVE Append(ps, p) \in S
  <2>1. Append(ps, p) \in Seq(PiecesT) /\ ps \in Seq(BlockT) /\ p \in BlockT
    BY AppendProperties, CurrentIs, PieceIs
  <2>2. Added(Append(ps, p)) = Add(Added(ps), p)
    BY AddedAppend
  <2>3. Added(ps) \in StateT
    BY AddedTyped
  <2>4. Taken(Add(Added(ps), p)) = Taken(Added(ps)) \o FlattenSeq(p.text)
    BY <2>3, AddAdds DEF Adds
  <2>5. Texts(Append(ps, p)) = Texts(ps) \o p.text
    BY <2>1, TextsAppend
  <2>6. FlattenSeq(Texts(ps) \o p.text) = FlattenSeq(Texts(ps)) \o FlattenSeq(p.text)
    BY CurrentIs, PieceIs, FlatConcat
  <2>7. Taken(Added(ps)) = FlattenSeq(Texts(ps))
    BY <1>2
  <2> QED BY <2>1, <2>2, <2>4, <2>5, <2>6, <2>7
<1> HIDE DEF S
<1>3. \A ps \in Seq(PiecesT) : ps \in S
  BY <1>1, <1>2, SeqInduction
<1> QED BY <1>3 DEF S

\* The chunks that the pieces make before small ones are merged.
LEMMA EmittedChain ==
  ASSUME NEW ps \in Seq(PiecesT)
  PROVE  /\ Chain(Emit(Added(ps)).chunks)
         /\ Bodies(Emit(Added(ps)).chunks) = FlattenSeq(Texts(ps))
<1> DEFINE s == Added(ps)
<1>1. s \in StateT /\ Taken(s) = FlattenSeq(Texts(ps))
  BY AddedTyped, AddedTakes
<1> HIDE DEF s
<1>2. CASE s.current = <<>>
  <2>1. Emit(s) = s /\ Chain(s.chunks) /\ s.chunks \in Seq(ChunkT)
    BY <1>1, <1>2 DEF Emit, StateT
  <2>2. Taken(s) = Bodies(s.chunks) \o <<>>
    BY <1>2, TextsEmpty, FlattenEmpty DEF Taken
  <2>3. Bodies(s.chunks) \o <<>> = Bodies(s.chunks)
    BY <2>1, BodiesTyped, ConcatEmptySeq
  <2> QED BY <1>1, <2>1, <2>2, <2>3 DEF s
<1>3. CASE s.current # <<>>
  <2>1. Emits(s, Emit(s))
    BY <1>1, <1>3, EmitEmits
  <2> QED BY <1>1, <2>1 DEF Emits, s
<1> QED BY <1>2, <1>3

-----------------------------------------------------------------------------
(***************************************************************************)
(* Small chunks are merged into the one before.                            *)
(***************************************************************************)

\* Fits or cannot be cut, but for a small chunk merged into it.
SizeOk(body) ==
  \/ FitsOrUncuttable(body)
  \/ \E n \in 2..Len(body) :
        /\ FitsOrUncuttable(SubSeq(body, 1, n - 1))
        /\ TokensOf(SubSeq(body, n, Len(body))) < MIN_CHUNK_TOKENS

\* A chunk of the result.
MergedOk(c) ==
  /\ c \in ChunkT
  /\ c.body # <<>>
  /\ Sound(c.heading_path, ToSet(c.body))
  /\ SizeOk(c.body)

\* The result: sound chunks, each carrying over from the one before only.
Kept(m) ==
  /\ m \in Seq(ChunkT)
  /\ \A i \in 1..Len(m) :
        /\ MergedOk(m[i])
        /\ i = 1 => CarriesFrom(m[i], {})
        /\ i > 1 => CarriesFrom(m[i], ToSet(m[i - 1].body))

\* It is extended chunk by chunk.
LEMMA KeptLinks ==
  ASSUME NEW cs \in Seq(ChunkT), NEW c \in ChunkT
  PROVE  Kept(Append(cs, c)) <=> Kept(cs) /\ MergedOk(c) /\ CarriesFrom(c, LastAtoms(cs))
<1> DEFINE n == Len(cs)
           ds == Append(cs, c)
           At(i, ss) == /\ MergedOk(ss[i])
                        /\ i = 1 => CarriesFrom(ss[i], {})
                        /\ i > 1 => CarriesFrom(ss[i], ToSet(ss[i - 1].body))
<1>1. /\ n \in Nat /\ ds \in Seq(ChunkT) /\ Len(ds) = n + 1 /\ ds[n + 1] = c
      /\ \A i \in 1..n : ds[i] = cs[i]
  BY AppendProperties, LenProperties
<1>2. cs # <<>> <=> n > 0
  BY LastIs
<1>3. cs # <<>> => Last(cs) = cs[n]
  BY LastIs
<1>4. Kept(cs) <=> \A i \in 1..n : At(i, cs)
  BY DEF Kept
<1>5. Kept(ds) <=> \A i \in 1..(n + 1) : At(i, ds)
  BY <1>1 DEF Kept
<1> HIDE DEF n, ds
<1>6. \A i \in 1..n : At(i, ds) <=> At(i, cs)
  <2> SUFFICES ASSUME NEW i \in 1..n PROVE At(i, ds) <=> At(i, cs)
    OBVIOUS
  <2>1. ds[i] = cs[i] /\ (i > 1 => ds[i - 1] = cs[i - 1])
    BY <1>1
  <2> QED BY <2>1
<1>7. At(n + 1, ds) <=> MergedOk(c) /\ CarriesFrom(c, LastAtoms(cs))
  <2>1. CASE n = 0
    <3>1. cs = <<>> /\ n + 1 = 1
      BY <1>2, <2>1
    <3>2. At(n + 1, ds) <=> MergedOk(c) /\ CarriesFrom(c, {})
      BY <1>1, <3>1
    <3> QED BY <3>1, <3>2 DEF LastAtoms
  <2>2. CASE n > 0
    <3>1. cs # <<>> /\ Last(cs) = cs[n] /\ n + 1 > 1 /\ n + 1 # 1 /\ (n + 1) - 1 = n
          /\ n \in 1..n
      BY <1>1, <1>2, <1>3, <2>2
    <3>2. ds[n + 1] = c /\ ds[(n + 1) - 1] = Last(cs)
      BY <1>1, <3>1
    <3>3. At(n + 1, ds) <=> MergedOk(c) /\ CarriesFrom(c, ToSet(Last(cs).body))
      BY <3>1, <3>2
    <3> HIDE DEF At
    <3> QED BY <3>1, <3>3 DEF LastAtoms
  <2> QED BY <1>1, <2>1, <2>2
<1> HIDE DEF At
<1>8. (\A i \in 1..(n + 1) : At(i, ds)) <=> (\A i \in 1..n : At(i, ds)) /\ At(n + 1, ds)
  <2>1. \A i \in 1..(n + 1) : i \in 1..n \/ i = n + 1
    BY <1>1
  <2>2. n + 1 \in 1..(n + 1) /\ \A i \in 1..n : i \in 1..(n + 1)
    BY <1>1
  <2> QED BY <2>1, <2>2
<1> QED BY <1>4, <1>5, <1>6, <1>7, <1>8 DEF ds

\* Chunk x takes in chunk c.
Joins(x, before, c) ==
  /\ x \in ChunkT
  /\ x.heading_path = before.heading_path
  /\ x.text = before.text \o c.text
  /\ x.body = before.body \o c.body

\* What merging does to the last chunk (chunker.py:272-283).
LEMMA MergeSplits ==
  ASSUME NEW m \in Seq(ChunkT), m # <<>>, NEW c \in ChunkT
  PROVE  \E x : /\ Joins(x, Last(m), c)
                /\ Tiny(Last(m), c) => Merge(m, c) = Append(Front(m), x)
<1> DEFINE b == Last(m)
           x == [b EXCEPT !.text = @ \o c.text, !.body = @ \o c.body]
<1>1. b \in ChunkT
  BY LastIs
<1>2. Tiny(b, c) => Merge(m, c) = Append(Front(m), x)
  BY DEF Merge
<1> HIDE DEF b
<1>3. b.text \in TextT /\ c.text \in TextT /\ b.body \in LineT /\ c.body \in LineT
  BY <1>1 DEF ChunkT
<1>4. b.text \o c.text \in TextT
  BY <1>3, FlatConcat
<1>5. b.body \o c.body \in LineT
  BY <1>3, ConcatProperties DEF LineT
<1>6. Joins(x, b, c)
  BY <1>1, <1>4, <1>5 DEF Joins, ChunkT
<1> HIDE DEF x
<1> QED BY <1>2, <1>6 DEF b

\* _merge_tiny, too, is a fold; its step is Merge.
LEMMA MergeTyped ==
  ASSUME NEW m \in Seq(ChunkT), NEW c \in ChunkT
  PROVE  Merge(m, c) \in Seq(ChunkT)
<1>1. CASE m # <<>> /\ Tiny(Last(m), c)
  <2>1. PICK x : Joins(x, Last(m), c) /\ Merge(m, c) = Append(Front(m), x)
    BY <1>1, MergeSplits
  <2>2. Front(m) \in Seq(ChunkT) /\ x \in ChunkT
    BY <1>1, <2>1, FrontAndLast DEF Joins
  <2> QED BY <2>1, <2>2, AppendProperties
<1>2. CASE ~ (m # <<>> /\ Tiny(Last(m), c))
  BY <1>2, AppendProperties DEF Merge
<1> QED BY <1>1, <1>2

Merging == [p \in Seq(ChunkT) \X ChunkT |-> Merge(p[1], p[2])]

MergeAll(cs) == FoldLeft(Merge, <<>>, cs)

LEMMA MergingTyped ==
  <<>> \in Seq(ChunkT) /\ Merging \in [Seq(ChunkT) \X ChunkT -> Seq(ChunkT)]
<1> DEFINE U == Seq(ChunkT)
<1>1. \A m \in U, c \in ChunkT : Merge(m, c) \in U
  BY MergeTyped
<1>2. <<>> \in U
  OBVIOUS
<1> HIDE DEF U
<1>3. [p \in U \X ChunkT |-> Merge(p[1], p[2])] \in [U \X ChunkT -> U]
  BY <1>1
<1> QED BY <1>2, <1>3 DEF Merging, U

LEMMA MergeAllFold ==
  ASSUME NEW s \in Seq(ChunkT)
  PROVE  \E h : IsFold(h, Seq(ChunkT), Merging, <<>>, s, Len(s)) /\ MergeAll(s) = h[1..Len(s)]
<1> DEFINE n == Len(s)
           R(it) == it = [x \in SUBSET (DOMAIN s) |->
                            IF x = {} THEN <<>>
                            ELSE Merge(it[x \ {Max(x)}], s[Max(x)])]
           C == CHOOSE it : R(it)
<1>1. n \in Nat /\ n = Len(s) /\ DOMAIN s = 1..n /\ \A i \in 1..n : s[i] \in ChunkT
  BY LenProperties
<1> HIDE DEF n
<1>2. <<>> \in Seq(ChunkT) /\ Merging \in [Seq(ChunkT) \X ChunkT -> Seq(ChunkT)]
  BY MergingTyped
<1>3. PICK h : IsFold(h, Seq(ChunkT), Merging, <<>>, s, Len(s))
  BY <1>2, FoldExists
<1>4. /\ h \in [SUBSET (1..n) -> Seq(ChunkT)]
      /\ FoldsTo(h, Merging, <<>>, s, n)
      /\ h[{}] = <<>>
      /\ \A x \in SUBSET (1..n) :
            x # {} => h[x] = Merging[<<h[x \ {Max(x)}], s[Max(x)]>>]
  BY <1>1, <1>3, Zenon DEF IsFold
<1>5. \A x \in SUBSET (1..n) :
        x # {} => Max(x) \in 1..n /\ x \ {Max(x)} \in SUBSET (1..n)
  <2> SUFFICES ASSUME NEW x \in SUBSET (1..n), x # {} PROVE Max(x) \in x
    OBVIOUS
  <2>1. x \in SUBSET (0..n)
    BY <1>1
  <2> QED BY <1>1, <2>1, GreatestMember
<1>6. \A a \in Seq(ChunkT), b \in ChunkT : Merging[<<a, b>>] = Merge(a, b)
  BY DEF Merging
<1>7. \A x \in SUBSET (1..n) :
        h[x] = IF x = {} THEN <<>> ELSE Merge(h[x \ {Max(x)}], s[Max(x)])
  <2> SUFFICES ASSUME NEW x \in SUBSET (1..n), x # {}
               PROVE  h[x] = Merge(h[x \ {Max(x)}], s[Max(x)])
    BY <1>4
  <2>1. h[x \ {Max(x)}] \in Seq(ChunkT) /\ s[Max(x)] \in ChunkT
    BY <1>1, <1>4, <1>5
  <2> QED BY <1>4, <1>6, <2>1
<1>8. R(h)
  <2>1. h = [x \in SUBSET (1..n) |-> h[x]]
    BY <1>4
  <2>2. h = [x \in SUBSET (1..n) |->
              IF x = {} THEN <<>> ELSE Merge(h[x \ {Max(x)}], s[Max(x)])]
    BY <1>7, <2>1
  <2> QED BY <1>1, <2>2, Zenon
<1>9. R(C)
  BY <1>8, Zenon
<1>10. MergeAll(s) = C[DOMAIN s]
  BY Zenon DEF MergeAll, FoldLeft, MapThenFoldSet
<1> HIDE DEF C
<1> DEFINE G == [p \in (Seq(ChunkT) \X ChunkT) \cup {<<C[x], s[i]>> : x \in SUBSET (1..n), i \in 1..n} |->
                   Merge(p[1], p[2])]
<1>11. \A x \in SUBSET (1..n) :
         C[x] = IF x = {} THEN <<>> ELSE Merge(C[x \ {Max(x)}], s[Max(x)])
  <2> DEFINE D == [x \in SUBSET (1..n) |->
                     IF x = {} THEN <<>> ELSE Merge(C[x \ {Max(x)}], s[Max(x)])]
  <2>1. \A x \in SUBSET (1..n) :
         D[x] = IF x = {} THEN <<>> ELSE Merge(C[x \ {Max(x)}], s[Max(x)])
    OBVIOUS
  <2>2. C = D
    BY <1>1, <1>9, Zenon
  <2> HIDE DEF D
  <2> QED BY <2>1, <2>2
<1>12. C = [x \in SUBSET (1..n) |-> C[x]]
  <2> DEFINE D == [x \in SUBSET (1..n) |->
                     IF x = {} THEN <<>> ELSE Merge(C[x \ {Max(x)}], s[Max(x)])]
  <2>1. C = D
    BY <1>1, <1>9, Zenon
  <2>2. D = [x \in SUBSET (1..n) |-> D[x]]
    OBVIOUS
  <2> HIDE DEF D
  <2> QED BY <2>1, <2>2
<1>13. \A x \in SUBSET (1..n), i \in 1..n : G[<<C[x], s[i]>>] = Merge(C[x], s[i])
  OBVIOUS
<1>14. \A a \in Seq(ChunkT), b \in ChunkT : G[<<a, b>>] = Merge(a, b)
  OBVIOUS
<1> HIDE DEF G
<1>15. FoldsTo(C, G, <<>>, s, n)
  <2>1. \A x \in SUBSET (1..n) :
          C[x] = IF x = {} THEN <<>> ELSE G[<<C[x \ {Max(x)}], s[Max(x)]>>]
    BY <1>5, <1>11, <1>13
  <2> QED BY <1>12, <2>1 DEF FoldsTo
<1>16. FoldsTo(h, G, <<>>, s, n)
  <2>1. \A x \in SUBSET (1..n) :
          h[x] = IF x = {} THEN <<>> ELSE G[<<h[x \ {Max(x)}], s[Max(x)]>>]
    <3> SUFFICES ASSUME NEW x \in SUBSET (1..n), x # {}
                 PROVE  h[x] = G[<<h[x \ {Max(x)}], s[Max(x)]>>]
      BY <1>7
    <3>1. h[x \ {Max(x)}] \in Seq(ChunkT) /\ s[Max(x)] \in ChunkT
      BY <1>1, <1>4, <1>5
    <3> QED BY <1>7, <1>14, <3>1
  <2>2. h = [x \in SUBSET (1..n) |-> h[x]]
    BY <1>4
  <2> QED BY <2>1, <2>2 DEF FoldsTo
<1>17. C[1..n] = h[1..n]
  <2>1. n <= n /\ \A i \in 1..n : s[i] = s[i]
    BY <1>1
  <2> QED BY <1>1, <1>15, <1>16, <2>1, FoldAgrees
<1> QED BY <1>1, <1>3, <1>10, <1>17

LEMMA MergeAllTyped ==
  ASSUME NEW s \in Seq(ChunkT)
  PROVE  MergeAll(s) \in Seq(ChunkT)
<1>1. PICK h : IsFold(h, Seq(ChunkT), Merging, <<>>, s, Len(s)) /\ MergeAll(s) = h[1..Len(s)]
  BY MergeAllFold
<1>2. 1..Len(s) \in SUBSET (1..Len(s)) /\ h \in [SUBSET (1..Len(s)) -> Seq(ChunkT)]
  BY <1>1, Zenon DEF IsFold
<1> QED BY <1>1, <1>2, Zenon

LEMMA MergeAllEmpty ==
  MergeAll(<<>>) = <<>>
<1>1. <<>> \in Seq(ChunkT) /\ 1..Len(<<>>) = {}
  OBVIOUS
<1>2. PICK h : IsFold(h, Seq(ChunkT), Merging, <<>>, <<>>, Len(<<>>)) /\ MergeAll(<<>>) = h[1..Len(<<>>)]
  BY <1>1, MergeAllFold
<1>3. h[{}] = <<>>
  BY <1>2, Zenon DEF IsFold
<1> QED BY <1>1, <1>2, <1>3, Zenon

LEMMA MergeAllAppend ==
  ASSUME NEW s \in Seq(ChunkT), NEW e \in ChunkT
  PROVE  MergeAll(Append(s, e)) = Merge(MergeAll(s), e)
<1> DEFINE t == Append(s, e)
<1>1. t \in Seq(ChunkT)
  BY AppendProperties
<1>2. PICK h : IsFold(h, Seq(ChunkT), Merging, <<>>, s, Len(s)) /\ MergeAll(s) = h[1..Len(s)]
  BY MergeAllFold
<1>3. PICK g : IsFold(g, Seq(ChunkT), Merging, <<>>, t, Len(t)) /\ MergeAll(t) = g[1..Len(t)]
  <2> HIDE DEF t
  <2> QED BY <1>1, MergeAllFold
<1>4. FoldsTo(h, Merging, <<>>, s, Len(s)) /\ FoldsTo(g, Merging, <<>>, t, Len(t))
  BY <1>2, <1>3, Zenon DEF IsFold
<1>5. g[1..Len(t)] = Merging[<<h[1..Len(s)], e>>]
  BY <1>4, FoldAppends
<1>6. MergeAll(s) \in Seq(ChunkT)
  BY MergeAllTyped
<1>7. \A a \in Seq(ChunkT), b \in ChunkT : Merging[<<a, b>>] = Merge(a, b)
  BY DEF Merging
<1>8. Merging[<<MergeAll(s), e>>] = Merge(MergeAll(s), e)
  BY <1>6, <1>7, Zenon
<1> HIDE DEF t
<1>9. MergeAll(t) = Merge(MergeAll(s), e)
  BY <1>2, <1>3, <1>5, <1>8, Zenon
<1> QED BY <1>9, Zenon DEF t

\* What is said of the merged chunks m of the chunks cs.  A chunk that is small
\* cannot follow a small one of its section: together they would fill a chunk.
Merges(m, cs) ==
  /\ Kept(m)
  /\ Bodies(m) = Bodies(cs)
  /\ cs = <<>> => m = <<>>
  /\ cs # <<>> =>
        /\ m # <<>>
        /\ Last(m).heading_path = Last(cs).heading_path
        /\ ToSet(Last(cs).body) \subseteq ToSet(Last(m).body)
        /\ FitsOrUncuttable(Last(m).body) \/ CountTokens(Last(cs).body) < MIN_CHUNK_TOKENS

\* A chunk that fits and a small one have the size allowed.
LEMMA SizeOfMerged ==
  ASSUME NEW b \in LineT, b # <<>>, NEW c \in LineT, c # <<>>,
         FitsOrUncuttable(b), TokensOf(c) < MIN_CHUNK_TOKENS
  PROVE  SizeOk(b \o c)
<1> DEFINE m == Len(b)
           n == m + 1
           k == Len(c)
           d == b \o c
<1>1. m \in Nat \ {0} /\ k \in Nat \ {0} /\ b \in Seq(Atom) /\ c \in Seq(Atom)
  BY EmptySeq DEF LineT
<1>2. /\ d \in Seq(Atom) /\ Len(d) = m + k
      /\ \A i \in 1..m : d[i] = b[i]
      /\ \A i \in 1..k : d[m + i] = c[i]
  BY <1>1, ConcatIndexes
<1> HIDE DEF d
<1>3. m \in 0..Len(d) /\ \A i \in 1..Len(d) : d[i] \in Atom
  BY <1>1, <1>2
<1>4. SubSeq(d, 1, m) = b
  <2> DEFINE u == SubSeq(d, 1, m)
  <2>1. \A i \in 1..m : d[i] \in Atom
    BY <1>2, <1>3, <1>1
  <2>2. u \in Seq(Atom) /\ Len(u) = m /\ \A i \in 1..m : u[i] = d[1 + i - 1]
    BY <1>1, <2>1, SubSeqProperties
  <2> HIDE DEF u
  <2>3. \A i \in 1..m : u[i] = b[i]
    BY <1>1, <1>2, <2>2
  <2>4. u = b
    BY <1>1, <2>2, <2>3, SeqEqual
  <2> QED BY <2>4 DEF u
<1>5. SubSeq(d, n, Len(d)) = c
  <2> DEFINE u == SubSeq(d, n, Len(d))
  <2>1. \A i \in n..Len(d) : d[i] \in Atom
    BY <1>1, <1>2, <1>3
  <2>2. n \in Int /\ Len(d) \in Int /\ n <= Len(d) /\ Len(d) - n + 1 = k
    BY <1>1, <1>2
  <2>3. u \in Seq(Atom) /\ Len(u) = k /\ \A i \in 1..k : u[i] = d[n + i - 1]
    BY <2>1, <2>2, SubSeqProperties
  <2>4. \A i \in 1..k : n + i - 1 = m + i
    BY <1>1
  <2> HIDE DEF u, n
  <2>5. \A i \in 1..k : u[i] = c[i]
    BY <1>2, <2>3, <2>4
  <2>6. u = c
    BY <1>1, <2>3, <2>5, SeqEqual
  <2> QED BY <2>6 DEF u
<1>6. n \in 2..Len(d) /\ n - 1 = m
  BY <1>1, <1>2
<1> HIDE DEF n, m
<1>7. FitsOrUncuttable(SubSeq(d, 1, n - 1)) /\ TokensOf(SubSeq(d, n, Len(d))) < MIN_CHUNK_TOKENS
  BY <1>4, <1>5, <1>6
<1>8. SizeOk(d)
  BY <1>6, <1>7 DEF SizeOk
<1> QED BY <1>8 DEF d

\* The parts of a chunk are typed.
LEMMA ChunkIs ==
  ASSUME NEW c \in ChunkT
  PROVE  /\ c.text \in TextT /\ FlattenSeq(c.text) \in Seq(Atom) /\ Size(c) \in Nat
         /\ c.body \in LineT /\ c.body \in Seq(Atom) /\ CountTokens(c.body) \in Nat
         /\ TokensOf(c.body) \in Nat /\ TokensOf(c.body) <= CountTokens(c.body)
         /\ c.heading_path \in PathT
<1>1. c.text \in TextT /\ c.body \in LineT /\ c.heading_path \in PathT
  BY DEF ChunkT
<1>2. c.body \in Seq(Atom)
  BY <1>1 DEF LineT
<1>3. /\ CountTokens(c.body) \in Nat
      /\ TokensOf(c.body) \in Nat /\ TokensOf(c.body) <= CountTokens(c.body)
  BY <1>1, <1>2, TokensTyped, CountTyped, CountAtLeast
<1>4. FlattenSeq(c.text) \in Seq(Atom) /\ Size(c) \in Nat
  BY <1>1, FlatTyped, CountTyped DEF Size, LineT
<1> QED BY <1>1, <1>2, <1>3, <1>4

\* The merged chunk x, of chunk b and the small chunk c after it.
LEMMA JoinedOk ==
  ASSUME NEW b \in ChunkT, NEW c \in ChunkT, NEW x, Joins(x, b, c),
         NEW atoms, MergedOk(b), CarriesFrom(b, atoms), FitsOrUncuttable(b.body),
         ChunkOk(c), CarriesFrom(c, ToSet(b.body)),
         c.heading_path = b.heading_path, CountTokens(c.body) < MIN_CHUNK_TOKENS
  PROVE  /\ MergedOk(x) /\ CarriesFrom(x, atoms)
         /\ ToSet(c.body) \subseteq ToSet(x.body)
<1>1. x \in ChunkT /\ x.heading_path = b.heading_path /\ x.text = b.text \o c.text
      /\ x.body = b.body \o c.body
  BY DEF Joins
<1>2. /\ b.text \in TextT /\ c.text \in TextT /\ b.body \in LineT /\ c.body \in LineT
      /\ b.body \in Seq(Atom) /\ c.body \in Seq(Atom)
  BY ChunkIs
<1>3. b.body # <<>> /\ c.body # <<>>
  BY DEF MergedOk, ChunkOk
<1>4. ToSet(x.body) = ToSet(b.body) \cup ToSet(c.body)
  BY <1>1, <1>2, ToSetConcat
<1>5. SizeOk(x.body)
  <2>1. TokensOf(c.body) < MIN_CHUNK_TOKENS
    BY ChunkIs, SizesAssumption
  <2> QED BY <1>1, <1>2, <1>3, <2>1, SizeOfMerged
<1>6. x.body # <<>>
  BY <1>1, <1>2, <1>3, ConcatEqualIffEmpty
<1>7. Sound(x.heading_path, ToSet(x.body))
  <2>1. Sound(x.heading_path, ToSet(b.body)) /\ Sound(x.heading_path, ToSet(c.body))
    BY <1>1 DEF MergedOk, ChunkOk
  <2> QED BY <1>4, <2>1, SoundUnion
<1>8. CarriesFrom(x, atoms)
  <2> DEFINE y == FlattenSeq(b.text)
             z == FlattenSeq(c.text)
  <2>1. FlattenSeq(x.text) = y \o z
    BY <1>1, <1>2, FlatConcat
  <2>2. y \in Seq(Atom) /\ z \in Seq(Atom)
    BY ChunkIs
  <2> HIDE DEF y, z
  <2>3. ToSet(y \o z) = ToSet(y) \cup ToSet(z)
    BY <2>2, ToSetConcat
  <2> QED BY <1>4, <2>1, <2>3 DEF CarriesFrom, y, z
<1>9. MergedOk(x)
  BY <1>1, <1>5, <1>6, <1>7 DEF MergedOk
<1> QED BY <1>4, <1>8, <1>9

\* One chunk more is merged or kept.  Nothing is merged into a chunk twice: two
\* small chunks of a section in a row would have fitted into one.
LEMMA MergeMerges ==
  ASSUME NEW cs \in Seq(ChunkT), NEW c \in ChunkT, Chain(cs), Links(cs, c),
         NEW m \in Seq(ChunkT), Merges(m, cs)
  PROVE  Merges(Merge(m, c), Append(cs, c))
<1> DEFINE ds == Append(cs, c)
<1>1. ds \in Seq(ChunkT) /\ ds # <<>> /\ Last(ds) = c
  BY AppendProperties, LastOfAppend
<1>2. Bodies(ds) = Bodies(cs) \o c.body
  BY BodiesAppend
<1> HIDE DEF ds
<1>3. /\ ChunkOk(c) /\ CarriesFrom(c, LastAtoms(cs))
      /\ Full(cs, c.heading_path, CountTokens(c.body))
      /\ Kept(m) /\ Bodies(m) = Bodies(cs) /\ Bodies(m) \in Seq(Atom)
  BY BodiesTyped DEF Links, Merges
<1>4. cs = <<>> <=> m = <<>>
  BY DEF Merges
<1>5. LastAtoms(cs) \subseteq LastAtoms(m)
  BY <1>4 DEF LastAtoms, Merges
<1>6. /\ CountTokens(c.body) \in Nat /\ Size(c) \in Nat
      /\ TARGET_TOKENS \in Nat /\ MIN_CHUNK_TOKENS \in Nat
      /\ 2 * MIN_CHUNK_TOKENS <= TARGET_TOKENS
      /\ CountTokens(c.body) <= Size(c)
  BY <1>3, ChunkIs, SizesAssumption DEF ChunkOk
<1>7. CASE m # <<>> /\ Tiny(Last(m), c)
  <2> DEFINE b == Last(m)
             f == Front(m)
  <2>1. PICK x : Joins(x, b, c) /\ Merge(m, c) = Append(f, x)
    BY <1>7, MergeSplits
  <2>2. f \in Seq(ChunkT) /\ b \in ChunkT /\ m = Append(f, b)
    BY <1>7, FrontAndLast
  <2>3. /\ b.heading_path = c.heading_path /\ Size(c) < MIN_CHUNK_TOKENS
        /\ cs # <<>> /\ b.heading_path = Last(cs).heading_path
        /\ FitsOrUncuttable(b.body) \/ CountTokens(Last(cs).body) < MIN_CHUNK_TOKENS
        /\ LastAtoms(m) = ToSet(b.body)
    BY <1>4, <1>7 DEF Tiny, Size, Merges, LastAtoms
  <2> HIDE DEF b, f
  <2>4. CountTokens(c.body) < MIN_CHUNK_TOKENS
    BY <1>6, <2>3
  <2>5. FitsOrUncuttable(b.body)
    <3>1. CountTokens(Last(cs).body) + CountTokens(c.body) > TARGET_TOKENS
      BY <1>3, <2>3 DEF Full
    <3>2. Last(cs) \in ChunkT
      BY <2>3, LastIs
    <3>3. CountTokens(Last(cs).body) \in Nat
      BY <3>2, ChunkIs
    <3>4. ~ (CountTokens(Last(cs).body) < MIN_CHUNK_TOKENS)
      BY <1>6, <2>4, <3>1, <3>3
    <3> QED BY <2>3, <3>4
  <2>6. Kept(f) /\ MergedOk(b) /\ CarriesFrom(b, LastAtoms(f))
    BY <1>3, <2>2, KeptLinks
  <2>7. CarriesFrom(c, ToSet(b.body))
    BY <1>3, <1>5, <2>3 DEF CarriesFrom
  <2>8. /\ MergedOk(x) /\ CarriesFrom(x, LastAtoms(f))
        /\ ToSet(c.body) \subseteq ToSet(x.body)
    BY <1>3, <2>1, <2>2, <2>3, <2>4, <2>5, <2>6, <2>7, JoinedOk
  <2>9. x \in ChunkT /\ x.heading_path = b.heading_path /\ x.body = b.body \o c.body
    BY <2>1 DEF Joins
  <2>10. Kept(Append(f, x))
    BY <2>2, <2>6, <2>8, <2>9, KeptLinks
  <2>11. Append(f, x) # <<>> /\ Last(Append(f, x)) = x
    BY <2>2, <2>9, AppendProperties, LastOfAppend
  <2>12. Bodies(Append(f, x)) = Bodies(m) \o c.body
    <3> DEFINE p == Bodies(f)
               q == b.body
               r == c.body
    <3>1. p \in Seq(Atom) /\ q \in Seq(Atom) /\ r \in Seq(Atom)
      BY <2>2, BodiesTyped, ChunkIs
    <3>2. Bodies(Append(f, x)) = p \o (q \o r)
      BY <2>2, <2>9, BodiesAppend
    <3>3. Bodies(m) = p \o q
      BY <2>2, BodiesAppend
    <3> HIDE DEF p, q, r
    <3>4. (p \o q) \o r = p \o (q \o r)
      BY <3>1, ConcatAssociative
    <3> QED BY <3>2, <3>3, <3>4 DEF r
  <2>13. Merges(Append(f, x), ds)
    BY <1>1, <1>2, <1>3, <2>3, <2>4, <2>8, <2>9, <2>10, <2>11, <2>12 DEF Merges
  <2> QED BY <2>1, <2>13 DEF ds
<1>8. CASE ~ (m # <<>> /\ Tiny(Last(m), c))
  <2>1. Merge(m, c) = Append(m, c)
    BY <1>8 DEF Merge
  <2>2. Append(m, c) # <<>> /\ Last(Append(m, c)) = c
    BY AppendProperties, LastOfAppend
  <2>3. MergedOk(c) /\ FitsOrUncuttable(c.body)
    BY <1>3 DEF ChunkOk, MergedOk, SizeOk
  <2>4. CarriesFrom(c, LastAtoms(m))
    BY <1>3, <1>5 DEF CarriesFrom
  <2>5. Kept(Append(m, c))
    BY <1>3, <2>3, <2>4, KeptLinks
  <2>6. Bodies(Append(m, c)) = Bodies(m) \o c.body
    BY BodiesAppend
  <2>7. Merges(Append(m, c), ds)
    BY <1>1, <1>2, <1>3, <2>2, <2>3, <2>5, <2>6 DEF Merges
  <2> QED BY <2>1, <2>7 DEF ds
<1> QED BY <1>7, <1>8

\* _merge_tiny keeps what is said of a chain, and its atoms
\* (chunker.py:260-293).
LEMMA MergeAllMerges ==
  \A cs \in Seq(ChunkT) : Chain(cs) => Merges(MergeAll(cs), cs)
<1> DEFINE S == {cs \in Seq(ChunkT) : Chain(cs) => Merges(MergeAll(cs), cs)}
<1>1. <<>> \in S
  <2>1. Kept(<<>>) /\ <<>> \in Seq(ChunkT)
    BY DEF Kept
  <2>2. Merges(<<>>, <<>>)
    BY <2>1, Zenon DEF Merges
  <2> QED BY <2>1, <2>2, MergeAllEmpty
<1>2. ASSUME NEW cs \in Seq(ChunkT), NEW c \in ChunkT, cs \in S PROVE Append(cs, c) \in S
  <2>1. Append(cs, c) \in Seq(ChunkT)
    BY AppendProperties
  <2> SUFFICES ASSUME Chain(Append(cs, c)) PROVE Merges(MergeAll(Append(cs, c)), Append(cs, c))
    BY <2>1
  <2>2. Chain(cs) /\ Links(cs, c)
    BY ChainLinks
  <2>3. Merges(MergeAll(cs), cs) /\ MergeAll(cs) \in Seq(ChunkT)
    BY <1>2, <2>2, MergeAllTyped
  <2>4. MergeAll(Append(cs, c)) = Merge(MergeAll(cs), c)
    BY MergeAllAppend
  <2> QED BY <2>2, <2>3, <2>4, MergeMerges
<1> HIDE DEF S
<1>3. \A cs \in Seq(ChunkT) : cs \in S
  BY <1>1, <1>2, SeqInduction
<1> QED BY <1>3 DEF S

-----------------------------------------------------------------------------
(***************************************************************************)
(* From blocks to chunks.                                                  *)
(***************************************************************************)

\* What is said of the chunks cs of the blocks bs.
Result(cs, bs) ==
  /\ Kept(cs)
  /\ \A i \in DOMAIN cs : cs[i].ordinal = i - 1
  /\ Orderly(Bodies(cs))
  /\ ToSet(Bodies(cs)) = BlockAtoms(bs)

\* Numbering the chunks changes nothing else (chunker.py:285-293).
LEMMA Numbering ==
  ASSUME NEW m, Kept(m), NEW r, r = [i \in DOMAIN m |-> [m[i] EXCEPT !.ordinal = i - 1]]
  PROVE  /\ Kept(r)
         /\ \A i \in DOMAIN r : r[i].ordinal = i - 1
         /\ Bodies(r) = Bodies(m)
<1> DEFINE n == Len(m)
           c(i) == [m[i] EXCEPT !.ordinal = i - 1]
<1>1. /\ m \in Seq(ChunkT) /\ n \in Nat /\ DOMAIN m = 1..n
      /\ \A i \in 1..n : m[i] \in ChunkT
  BY LenProperties DEF Kept
<1>2. ASSUME NEW i \in 1..n
      PROVE  /\ c(i) \in ChunkT /\ c(i).ordinal = i - 1
             /\ c(i).text = m[i].text /\ c(i).body = m[i].body
             /\ c(i).heading_path = m[i].heading_path
  <2>1. m[i] \in ChunkT /\ i - 1 \in Nat
    BY <1>1
  <2> QED BY <2>1 DEF ChunkT
<1>3. r = [i \in 1..n |-> c(i)]
  BY <1>1
<1> HIDE DEF c
<1>4. /\ r \in Seq(ChunkT) /\ Len(r) = n /\ DOMAIN r = 1..n
      /\ \A i \in 1..n : r[i] = c(i)
  BY <1>1, <1>2, <1>3
<1> HIDE DEF n
<1>5. \A i \in 1..n : /\ r[i] \in ChunkT
                      /\ r[i].text = m[i].text /\ r[i].body = m[i].body
                      /\ r[i].heading_path = m[i].heading_path
  BY <1>2, <1>4
<1>6. Kept(r)
  <2>1. \A i \in 1..n : MergedOk(m[i]) /\ (i = 1 => CarriesFrom(m[i], {}))
                        /\ (i > 1 => CarriesFrom(m[i], ToSet(m[i - 1].body)))
    BY DEF Kept, n
  <2>2. \A i \in 1..n : MergedOk(r[i])
    BY <1>5, <2>1 DEF MergedOk
  <2>3. \A i \in 1..n : i = 1 => CarriesFrom(r[i], {})
    BY <1>5, <2>1 DEF CarriesFrom
  <2>4. ASSUME NEW i \in 1..n, i > 1 PROVE CarriesFrom(r[i], ToSet(r[i - 1].body))
    <3>1. i - 1 \in 1..n
      BY <1>1, <2>4
    <3> QED BY <1>5, <2>1, <2>4, <3>1 DEF CarriesFrom
  <2> QED BY <1>4, <2>2, <2>3, <2>4 DEF Kept
<1>7. Bodies(r) = Bodies(m)
  <2>1. [i \in DOMAIN r |-> r[i].body] = [i \in DOMAIN m |-> m[i].body]
    BY <1>1, <1>4, <1>5
  <2> QED BY <2>1, Zenon DEF Bodies
<1> QED BY <1>2, <1>4, <1>6, <1>7

\* chunk_markdown of blocks that stand in the document in order
\* (chunker.py:187-236).
LEMMA ChunkMarkdownResult ==
  ASSUME markdown \in Seq(Lines), NEW bs \in Seq(Covered), InOrder(bs)
  PROVE  Result(ChunkMarkdown(bs), bs)
<1> DEFINE ps == AllPieces(bs)
           cs == Emit(Added(ps)).chunks
           m == MergeAll(cs)
           r == [i \in DOMAIN m |-> [m[i] EXCEPT !.ordinal = i - 1]]
<1>1. ChunkMarkdown(bs) = r
  <2>1. MergeTiny(cs) = r
    BY Zenon DEF MergeTiny, MergeAll
  <2>2. ChunkMarkdown(bs) = MergeTiny(cs)
    BY Zenon DEF ChunkMarkdown, Added, AllPieces, Nothing
  <2> QED BY <2>1, <2>2
<1>2. CutInto(ps, bs)
  BY AllPiecesCut
<1> HIDE DEF ps
<1>3. ps \in Seq(PiecesT)
  <2>1. ps \in Seq(BlockT) /\ \A i \in 1..Len(ps) : PieceOk(ps[i])
    BY <1>2 DEF CutInto
  <2>2. \A i \in 1..Len(ps) : ps[i] \in PiecesT
    BY <2>1 DEF PiecesT
  <2> QED BY <2>1, <2>2
<1>4. Chain(cs) /\ Bodies(cs) = FlattenSeq(Texts(ps))
  BY <1>3, EmittedChain
<1> HIDE DEF cs
<1>5. Merges(m, cs)
  BY <1>4, MergeAllMerges DEF Chain
<1> HIDE DEF m
<1>6. Kept(m) /\ Bodies(m) = FlattenSeq(Texts(ps))
  BY <1>4, <1>5 DEF Merges
<1>7. /\ Kept(r)
      /\ \A i \in DOMAIN r : r[i].ordinal = i - 1
      /\ Bodies(r) = Bodies(m)
  BY <1>6, Numbering
<1> HIDE DEF r
<1>8. Result(r, bs)
  BY <1>2, <1>6, <1>7 DEF Result, CutInto
<1> QED BY <1>1, <1>8

-----------------------------------------------------------------------------
(***************************************************************************)
(* The heading path of the lines md, as the parser's stack has it.         *)
(***************************************************************************)

\* The headings that line i stands under, and the path that they make.
InForceIn(md, i) ==
  {j \in 1..i : /\ md[j].kind = "heading"
                /\ \A k \in (j + 1)..i :
                      md[k].kind = "heading" => md[k].level > md[j].level}

PathIn(md, i) ==
  [l \in 1..Max({md[j].level : j \in InForceIn(md, i)} \cup {0}) |->
      IF \E j \in InForceIn(md, i) : md[j].level = l
        THEN md[CHOOSE j \in InForceIn(md, i) : md[j].level = l].title
        ELSE NoTitle]

\* The path p names the headings S of md, one at each level.
Names(md, S, p) ==
  /\ p \in PathT
  /\ \A j \in S : md[j].level \in 1..Len(p) /\ p[md[j].level] = md[j].title
  /\ Len(p) > 0 => \E j \in S : md[j].level = Len(p)
  /\ \A l \in 1..Len(p) : (\A j \in S : md[j].level # l) => p[l] = NoTitle

\* A level skipped is named by nothing.
LEMMA NoTitleIs == NoTitle \in Titles
BY DEF Titles

\* The parts of a line are typed.
LEMMA LineIs ==
  ASSUME NEW line \in Lines
  PROVE  /\ line.kind \in Kinds /\ line.level \in 0..6 /\ line.title \in Titles
         /\ line.kind = "heading" => line.level \in 1..6
<1>1. line \in [kind: Kinds, level: 0..6, title: STRING,
                sizes: Seq(Nat \ {0}), gap: Nat, ends: BOOLEAN]
  BY LinesAssumption
<1>2. line.kind = "heading" => line.level > 0
  BY LinesAssumption
<1>3. line.title \in Titles
  BY DEF Titles
<1> QED BY <1>1, <1>2, <1>3

\* So are the lines read.
LEMMA MarkdownIs ==
  ASSUME NEW md \in Seq(Lines)
  PROVE  /\ Len(md) \in Nat /\ DOMAIN md = 1..Len(md)
         /\ \A i \in 1..Len(md) : md[i] \in Lines
BY LenProperties

\* Two headings in force have different levels.
LEMMA InForceOnce ==
  ASSUME NEW md \in Seq(Lines), NEW i \in 0..Len(md),
         NEW j \in InForceIn(md, i), NEW k \in InForceIn(md, i), md[j].level = md[k].level
  PROVE  j = k
<1>1. \A x \in InForceIn(md, i), y \in InForceIn(md, i) : md[x].level = md[y].level => ~ (x < y)
  <2> SUFFICES ASSUME NEW x \in InForceIn(md, i), NEW y \in InForceIn(md, i),
                      md[x].level = md[y].level, x < y
               PROVE  FALSE
    OBVIOUS
  <2>1. /\ x \in 1..i /\ y \in 1..i /\ md[y].kind = "heading"
        /\ \A z \in (x + 1)..i : md[z].kind = "heading" => md[z].level > md[x].level
    BY DEF InForceIn
  <2>2. i \in Nat /\ y \in (x + 1)..i /\ y \in 1..Len(md)
    BY <2>1, MarkdownIs
  <2>3. md[y].level > md[x].level
    BY <2>1, <2>2
  <2>4. md[y].level \in 0..6
    BY <2>2, MarkdownIs, LineIs
  <2> QED BY <2>3, <2>4
<1>2. j \in Nat /\ k \in Nat
  BY DEF InForceIn
<1> QED BY <1>1, <1>2

\* A heading path names the headings in force and nothing else.
LEMMA PathNames ==
  ASSUME NEW md \in Seq(Lines), NEW i \in 0..Len(md)
  PROVE  Names(md, InForceIn(md, i), PathIn(md, i))
<1> DEFINE S == InForceIn(md, i)
           L == {md[j].level : j \in S} \cup {0}
           m == Max(L)
           at(l) == CHOOSE j \in S : md[j].level = l
           p == PathIn(md, i)
<1>1. \A j \in S : /\ j \in 1..Len(md) /\ md[j].level \in 1..6 /\ md[j].title \in Titles
  <2> SUFFICES ASSUME NEW j \in S
               PROVE  j \in 1..Len(md) /\ md[j].level \in 1..6 /\ md[j].title \in Titles
    OBVIOUS
  <2>1. j \in 1..i /\ md[j].kind = "heading"
    BY DEF InForceIn
  <2>2. j \in 1..Len(md) /\ md[j] \in Lines
    BY <2>1, MarkdownIs
  <2> QED BY <2>1, <2>2, LineIs
<1>2. \A j, k \in S : md[j].level = md[k].level => j = k
  BY InForceOnce
<1>3. p = [l \in 1..m |-> IF \E j \in S : md[j].level = l THEN md[at(l)].title ELSE NoTitle]
  BY DEF PathIn
<1> HIDE DEF S, p
<1>4. L \in SUBSET (0..6) /\ L # {} /\ \A j \in S : md[j].level \in L
  BY <1>1
<1>5. \A x \in L : x = 0 \/ \E j \in S : md[j].level = x
  OBVIOUS
<1> HIDE DEF L
<1>6. m \in L /\ \A y \in L : y <= m
  BY <1>4, GreatestMember
<1> HIDE DEF m
<1>7. m \in Nat /\ m \in 0..6
  BY <1>4, <1>6
<1>8. \A j \in S : md[j].level \in 1..m
  BY <1>1, <1>4, <1>6, <1>7
<1>9. \A j \in S : at(md[j].level) = j
  <2> SUFFICES ASSUME NEW j \in S PROVE at(md[j].level) = j
    OBVIOUS
  <2>1. at(md[j].level) \in S /\ md[at(md[j].level)].level = md[j].level
    OBVIOUS
  <2> HIDE DEF at
  <2> QED BY <1>2, <2>1
<1> HIDE DEF at
<1>10. \A l \in 1..m : p[l] \in Titles
  <2> SUFFICES ASSUME NEW l \in 1..m PROVE p[l] \in Titles
    OBVIOUS
  <2>1. CASE \E j \in S : md[j].level = l
    <3>1. PICK j \in S : md[j].level = l
      BY <2>1
    <3>2. p[l] = md[j].title
      BY <1>3, <1>9, <3>1
    <3> QED BY <1>1, <3>2
  <2>2. CASE ~ \E j \in S : md[j].level = l
    BY <1>3, <2>2, NoTitleIs
  <2> QED BY <2>1, <2>2
<1>11. p \in PathT /\ Len(p) = m
  <2>1. p \in [1..m -> Titles]
    BY <1>3, <1>10
  <2> QED BY <1>7, <2>1 DEF PathT
<1>12. \A j \in S : p[md[j].level] = md[j].title
  BY <1>3, <1>8, <1>9
<1>13. m > 0 => \E j \in S : md[j].level = m
  BY <1>5, <1>6
<1>14. \A l \in 1..m : (\A j \in S : md[j].level # l) => p[l] = NoTitle
  BY <1>3
<1>15. Names(md, S, p)
  BY <1>8, <1>11, <1>12, <1>13, <1>14 DEF Names
<1> QED BY <1>15 DEF S, p

\* There is one such path.
LEMMA NamesOnce ==
  ASSUME NEW md, NEW S, NEW p, NEW q, Names(md, S, p), Names(md, S, q)
  PROVE  p = q
<1>1. p \in Seq(Titles) /\ q \in Seq(Titles) /\ Len(p) \in Nat /\ Len(q) \in Nat
  BY LenProperties DEF Names, PathT
<1>2. Len(p) <= Len(q)
  <2> SUFFICES ASSUME Len(p) > 0 PROVE Len(p) <= Len(q)
    BY <1>1
  <2>1. PICK j \in S : md[j].level = Len(p)
    BY DEF Names
  <2>2. md[j].level \in 1..Len(q)
    BY DEF Names
  <2> QED BY <1>1, <2>1, <2>2
<1>3. Len(q) <= Len(p)
  <2> SUFFICES ASSUME Len(q) > 0 PROVE Len(q) <= Len(p)
    BY <1>1
  <2>1. PICK j \in S : md[j].level = Len(q)
    BY DEF Names
  <2>2. md[j].level \in 1..Len(p)
    BY DEF Names
  <2> QED BY <1>1, <2>1, <2>2
<1>4. Len(p) = Len(q)
  BY <1>1, <1>2, <1>3
<1>5. ASSUME NEW l \in 1..Len(p) PROVE p[l] = q[l]
  <2>1. CASE \E j \in S : md[j].level = l
    <3>1. PICK j \in S : md[j].level = l
      BY <2>1
    <3>2. p[md[j].level] = md[j].title /\ q[md[j].level] = md[j].title
      BY DEF Names
    <3> QED BY <3>1, <3>2
  <2>2. CASE \A j \in S : md[j].level # l
    <3>1. p[l] = NoTitle /\ q[l] = NoTitle
      BY <1>4, <1>5, <2>2 DEF Names
    <3> QED BY <3>1
  <2> QED BY <2>1, <2>2
<1> QED BY <1>1, <1>4, <1>5, SeqEqual

\* The lines read with one more.
LEMMA NextLine ==
  ASSUME NEW md \in Seq(Lines), NEW line \in Lines
  PROVE  /\ Len(md) \in Nat
         /\ Append(md, line) \in Seq(Lines) /\ Len(Append(md, line)) = Len(md) + 1
         /\ \A i \in 1..Len(md) : Append(md, line)[i] = md[i]
         /\ Append(md, line)[Len(md) + 1] = line
BY AppendProperties, LenProperties

\* What stands in the document so far does not change under a line after it.
LEMMA PathStays ==
  ASSUME NEW md \in Seq(Lines), NEW line \in Lines, NEW i \in 0..Len(md)
  PROVE  PathIn(Append(md, line), i) = PathIn(md, i)
<1> DEFINE e == Append(md, line)
           n == Len(md)
           S == InForceIn(md, i)
           p == PathIn(md, i)
           q == PathIn(e, i)
<1>1. /\ n \in Nat /\ e \in Seq(Lines) /\ Len(e) = n + 1 /\ \A k \in 1..n : e[k] = md[k]
  BY NextLine
<1> HIDE DEF e
<1>2. \A k \in 1..i : k \in 1..n /\ e[k] = md[k]
  BY <1>1
<1>3. InForceIn(e, i) = S
  <2>1. \A j \in 1..i : \A k \in (j + 1)..i : k \in 1..i
    OBVIOUS
  <2> QED BY <1>2, <2>1 DEF InForceIn
<1>4. i \in 0..Len(e)
  BY <1>1
<1>5. Names(e, S, q)
  BY <1>1, <1>3, <1>4, PathNames
<1>6. Names(md, S, p)
  BY PathNames
<1>7. \A j \in S : e[j] = md[j]
  BY <1>2 DEF InForceIn
<1> HIDE DEF S, p, q
<1>8. Names(e, S, p)
  BY <1>6, <1>7 DEF Names
<1>9. p = q
  BY <1>5, <1>8, NamesOnce
<1> QED BY <1>9 DEF p, q, e

\* A line that is no heading stands under the same headings.
LEMMA PathContinues ==
  ASSUME NEW md \in Seq(Lines), NEW line \in Lines, line.kind # "heading"
  PROVE  PathIn(Append(md, line), Len(md) + 1) = PathIn(md, Len(md))
<1> DEFINE e == Append(md, line)
           n == Len(md)
           S == InForceIn(md, n)
           p == PathIn(md, n)
           q == PathIn(e, n + 1)
<1>1. /\ n \in Nat /\ e \in Seq(Lines) /\ Len(e) = n + 1 /\ \A k \in 1..n : e[k] = md[k]
      /\ e[n + 1] = line
  BY NextLine
<1> HIDE DEF e, n
<1>2. InForceIn(e, n + 1) = S
  <2>1. \A k \in 1..(n + 1) : k \in 1..n \/ k = n + 1
    BY <1>1
  <2>2. \A j \in 1..n : j \in 1..(n + 1) /\ \A k \in (j + 1)..n : k \in 1..n /\ k \in (j + 1)..(n + 1)
    BY <1>1
  <2>3. \A j \in 1..n : \A k \in (j + 1)..(n + 1) : k \in (j + 1)..n \/ k = n + 1
    BY <1>1
  <2>4. ASSUME NEW j \in InForceIn(e, n + 1) PROVE j \in S
    <3>1. /\ j \in 1..(n + 1) /\ e[j].kind = "heading"
          /\ \A k \in (j + 1)..(n + 1) : e[k].kind = "heading" => e[k].level > e[j].level
      BY <2>4 DEF InForceIn
    <3>2. j \in 1..n
      BY <1>1, <2>1, <3>1
    <3> QED BY <1>1, <2>2, <3>1, <3>2 DEF InForceIn
  <2>5. ASSUME NEW j \in S PROVE j \in InForceIn(e, n + 1)
    <3>1. /\ j \in 1..n /\ md[j].kind = "heading"
          /\ \A k \in (j + 1)..n : md[k].kind = "heading" => md[k].level > md[j].level
      BY <2>5 DEF InForceIn
    <3>2. \A k \in (j + 1)..(n + 1) : e[k].kind = "heading" => e[k].level > e[j].level
      BY <1>1, <2>2, <2>3, <3>1
    <3> QED BY <1>1, <2>2, <3>1, <3>2 DEF InForceIn
  <2> QED BY <2>4, <2>5
<1>3. Names(e, S, q)
  <2>1. n + 1 \in 0..Len(e)
    BY <1>1
  <2> QED BY <1>1, <1>2, <2>1, PathNames
<1>4. Names(md, S, p)
  <2>1. n \in 0..Len(md)
    BY <1>1 DEF n
  <2> QED BY <2>1, PathNames
<1>5. \A j \in S : e[j] = md[j]
  BY <1>1 DEF InForceIn
<1> HIDE DEF S, p, q
<1>6. Names(e, S, p)
  BY <1>4, <1>5 DEF Names
<1>7. p = q
  BY <1>3, <1>6, NamesOnce
<1> QED BY <1>7 DEF p, q, e, n

\* A heading ends the headings of its level and below.
LEMMA PathPushed ==
  ASSUME NEW md \in Seq(Lines), NEW line \in Lines, line.kind = "heading"
  PROVE  PathIn(Append(md, line), Len(md) + 1)
           = Pushed(PathIn(md, Len(md)), line.level, line.title)
<1> DEFINE e == Append(md, line)
           n == Len(md)
           S == InForceIn(md, n)
           T == InForceIn(e, n + 1)
           v == line.level
           p == PathIn(md, n)
           q == PathIn(e, n + 1)
           r == Pushed(p, v, line.title)
<1>1. /\ n \in Nat /\ e \in Seq(Lines) /\ Len(e) = n + 1 /\ \A k \in 1..n : e[k] = md[k]
      /\ e[n + 1] = line
  BY NextLine
<1> HIDE DEF e, n
<1>2. v \in 1..6 /\ line.title \in Titles
  BY LineIs
<1>3. n + 1 \in T
  <2>1. \A k \in ((n + 1) + 1)..(n + 1) : FALSE
    BY <1>1
  <2>2. n + 1 \in 1..(n + 1)
    BY <1>1
  <2> QED BY <1>1, <2>1, <2>2 DEF InForceIn
<1>4. ASSUME NEW j \in T PROVE j = n + 1 \/ (j \in S /\ e[j] = md[j] /\ md[j].level < v)
  <2>1. /\ j \in 1..(n + 1) /\ e[j].kind = "heading"
        /\ \A k \in (j + 1)..(n + 1) : e[k].kind = "heading" => e[k].level > e[j].level
    BY <1>4 DEF InForceIn
  <2> SUFFICES ASSUME j # n + 1 PROVE j \in S /\ e[j] = md[j] /\ md[j].level < v
    OBVIOUS
  <2>2. j \in 1..n /\ n + 1 \in (j + 1)..(n + 1) /\ e[j] = md[j]
    BY <1>1, <2>1
  <2>3. v > md[j].level
    BY <1>1, <2>1, <2>2
  <2>4. \A k \in (j + 1)..n : k \in (j + 1)..(n + 1) /\ e[k] = md[k]
    BY <1>1, <2>2
  <2>5. j \in S
    BY <2>1, <2>2, <2>4 DEF InForceIn
  <2>6. md[j].level \in 0..6
    <3>1. j \in 1..Len(md)
      BY <2>2 DEF n
    <3> QED BY <3>1, MarkdownIs, LineIs
  <2> QED BY <1>2, <2>2, <2>3, <2>5, <2>6
<1>5. ASSUME NEW j \in S, md[j].level < v PROVE j \in T /\ e[j] = md[j]
  <2>1. /\ j \in 1..n /\ md[j].kind = "heading"
        /\ \A k \in (j + 1)..n : md[k].kind = "heading" => md[k].level > md[j].level
    BY <1>5 DEF InForceIn
  <2>2. e[j] = md[j] /\ j \in 1..(n + 1)
    BY <1>1, <2>1
  <2>3. ASSUME NEW k \in (j + 1)..(n + 1), e[k].kind = "heading" PROVE e[k].level > e[j].level
    <3>1. CASE k = n + 1
      <4>1. md[j].level \in 0..6
        <5>1. j \in 1..Len(md)
          BY <2>1 DEF n
        <5> QED BY <5>1, MarkdownIs, LineIs
      <4> QED BY <1>1, <1>2, <1>5, <2>2, <3>1, <4>1
    <3>2. CASE k # n + 1
      <4>1. k \in (j + 1)..n /\ k \in 1..n
        BY <1>1, <2>1, <3>2
      <4> QED BY <1>1, <2>1, <2>2, <2>3, <4>1
    <3> QED BY <3>1, <3>2
  <2> QED BY <2>1, <2>2, <2>3 DEF InForceIn
<1>6. Names(md, S, p)
  <2>1. n \in 0..Len(md)
    BY <1>1 DEF n
  <2> QED BY <2>1, PathNames
<1>7. Names(e, T, q)
  <2>1. n + 1 \in 0..Len(e)
    BY <1>1
  <2> QED BY <1>1, <2>1, PathNames
<1> HIDE DEF S, T, p, q, v
<1>8. /\ p \in Seq(Titles) /\ Len(p) \in Nat
      /\ \A l \in 1..Len(p) : p[l] \in Titles
      /\ \A j \in S : md[j].level \in 1..Len(p) /\ p[md[j].level] = md[j].title
      /\ \A l \in 1..Len(p) : (\A j \in S : md[j].level # l) => p[l] = NoTitle
  BY <1>6, LenProperties DEF Names, PathT
<1>9. r = [l \in 1..v |-> IF l = v THEN line.title ELSE IF l <= Len(p) THEN p[l] ELSE NoTitle]
  BY DEF Pushed
<1> HIDE DEF r
<1>10. r \in PathT /\ Len(r) = v
  <2>1. \A l \in 1..v : l <= Len(p) => l \in 1..Len(p)
    BY <1>2, <1>8
  <2>2. \A l \in 1..v : r[l] \in Titles
    BY <1>2, <1>8, <1>9, <2>1, NoTitleIs
  <2>3. r \in [1..v -> Titles]
    BY <1>9, <2>2
  <2> QED BY <1>2, <2>3 DEF PathT
<1>11. \A j \in T : e[j].level \in 1..v /\ r[e[j].level] = e[j].title
  <2> SUFFICES ASSUME NEW j \in T PROVE e[j].level \in 1..v /\ r[e[j].level] = e[j].title
    OBVIOUS
  <2>1. CASE j = n + 1
    <3>1. e[j].level = v /\ e[j].title = line.title /\ v \in 1..v
      BY <1>1, <1>2, <2>1 DEF v
    <3> QED BY <1>9, <3>1
  <2>2. CASE j # n + 1
    <3>1. j \in S /\ e[j] = md[j] /\ md[j].level < v
      BY <1>4, <2>2
    <3>2. md[j].level \in 1..Len(p) /\ p[md[j].level] = md[j].title
      BY <1>8, <3>1
    <3>3. md[j].level \in 1..v /\ md[j].level # v /\ md[j].level <= Len(p)
      BY <1>2, <1>8, <3>1, <3>2
    <3>4. r[md[j].level] = p[md[j].level]
      BY <1>9, <3>3
    <3> QED BY <3>1, <3>2, <3>3, <3>4
  <2> QED BY <2>1, <2>2
<1>12. \E j \in T : e[j].level = v
  BY <1>1, <1>3 DEF v
<1>13. ASSUME NEW l \in 1..v, \A j \in T : e[j].level # l PROVE r[l] = NoTitle
  <2>1. l # v
    BY <1>12, <1>13
  <2>2. l < v /\ l \in Nat \ {0}
    BY <1>2, <1>13, <2>1
  <2>3. \A j \in S : md[j].level # l
    <3> SUFFICES ASSUME NEW j \in S, md[j].level = l PROVE FALSE
      OBVIOUS
    <3>1. j \in T /\ e[j] = md[j]
      BY <1>5, <2>2
    <3> QED BY <1>13, <3>1
  <2>4. CASE l <= Len(p)
    <3>1. l \in 1..Len(p)
      BY <1>8, <2>2, <2>4
    <3> QED BY <1>8, <1>9, <2>1, <2>3, <2>4, <3>1
  <2>5. CASE ~ (l <= Len(p))
    BY <1>9, <2>1, <2>5
  <2> QED BY <2>4, <2>5
<1>14. Names(e, T, r)
  BY <1>10, <1>11, <1>12, <1>13 DEF Names
<1>15. q = r
  BY <1>7, <1>14, NamesOnce
<1> QED BY <1>15 DEF q, r, p, v, e, n

-----------------------------------------------------------------------------
(***************************************************************************)
(* Where the blocks stand in the lines md.                                 *)
(***************************************************************************)

RowIn(md, i) == md[i].kind \in {"row", "separator"}

\* Covers, of the lines md rather than of the document.
CoversIn(md, b, f) ==
  /\ b \in BlockT
  /\ f \in 1..Len(md)
  /\ b.text # <<>>
  /\ f + Len(b.text) - 1 <= Len(md)
  /\ \A k \in 1..Len(b.text) :
        /\ b.text[k] = AtomsOf(f + k - 1, md[f + k - 1])
        /\ PathIn(md, f + k - 1) = b.heading_path
        /\ IF b.is_table THEN RowIn(md, f + k - 1) ELSE md[f + k - 1].kind = "text"
  /\ b.is_table =>
        /\ f = 1 \/ ~ RowIn(md, f - 1)
        /\ f + Len(b.text) <= Len(md) => ~ RowIn(md, f + Len(b.text))

\* The block ends with the last line read.
EndsIn(md, b, f) == f + Len(b.text) = Len(md) + 1

\* The parts of a block that stands in the lines are typed.
LEMMA CoversIs ==
  ASSUME NEW md \in Seq(Lines), NEW b, NEW f, CoversIn(md, b, f)
  PROVE  /\ b \in BlockT /\ b.text \in Seq(LineT) /\ b.heading_path \in PathT
         /\ f \in Nat \ {0} /\ Len(b.text) \in Nat \ {0} /\ Len(md) \in Nat
         /\ f + Len(b.text) - 1 <= Len(md)
         /\ \A k \in 1..Len(b.text) : f + k - 1 \in 1..Len(md)
<1>1. b \in BlockT /\ f \in 1..Len(md) /\ b.text # <<>> /\ f + Len(b.text) - 1 <= Len(md)
  BY DEF CoversIn
<1>2. b.text \in Seq(LineT) /\ b.heading_path \in PathT
  BY <1>1 DEF BlockT, TextT
<1>3. Len(b.text) \in Nat \ {0}
  BY <1>1, <1>2, EmptySeq
<1>4. Len(md) \in Nat
  BY LenProperties
<1> QED BY <1>1, <1>2, <1>3, <1>4

\* A line after it leaves a block as it is, unless it is a row of its table.
LEMMA CoversStays ==
  ASSUME NEW md \in Seq(Lines), NEW line \in Lines, NEW b, NEW f, CoversIn(md, b, f),
         b.is_table /\ EndsIn(md, b, f) => line.kind \notin {"row", "separator"}
  PROVE  CoversIn(Append(md, line), b, f)
<1> DEFINE e == Append(md, line)
           n == Len(md)
           m == Len(b.text)
<1>1. /\ n \in Nat /\ e \in Seq(Lines) /\ Len(e) = n + 1 /\ \A k \in 1..n : e[k] = md[k]
      /\ e[n + 1] = line
  BY NextLine
<1>2. \A i \in 0..n : PathIn(e, i) = PathIn(md, i)
  BY PathStays
<1>3. /\ f \in Nat \ {0} /\ m \in Nat \ {0} /\ f + m - 1 <= n
      /\ \A k \in 1..m : f + k - 1 \in 1..n
  BY CoversIs
<1>a. EndsIn(md, b, f) <=> f + m = n + 1
  BY DEF EndsIn
<1> HIDE DEF e, n, m
<1>4. ASSUME NEW k \in 1..m
      PROVE  /\ b.text[k] = AtomsOf(f + k - 1, e[f + k - 1])
             /\ PathIn(e, f + k - 1) = b.heading_path
             /\ IF b.is_table THEN RowIn(e, f + k - 1) ELSE e[f + k - 1].kind = "text"
  <2>a. f + k - 1 \in 1..n
    BY <1>3
  <2>1. f + k - 1 \in 1..n /\ f + k - 1 \in 0..n
    BY <1>1, <2>a
  <2>2. e[f + k - 1] = md[f + k - 1] /\ PathIn(e, f + k - 1) = PathIn(md, f + k - 1)
    BY <1>1, <1>2, <2>1
  <2>3. /\ b.text[k] = AtomsOf(f + k - 1, md[f + k - 1])
        /\ PathIn(md, f + k - 1) = b.heading_path
        /\ IF b.is_table THEN RowIn(md, f + k - 1) ELSE md[f + k - 1].kind = "text"
    BY DEF CoversIn, m
  <2> QED BY <2>2, <2>3 DEF RowIn
<1>5. ASSUME b.is_table PROVE f = 1 \/ ~ RowIn(e, f - 1)
  <2> SUFFICES ASSUME f # 1 PROVE ~ RowIn(e, f - 1)
    OBVIOUS
  <2>1. f - 1 \in 1..n
    BY <1>1, <1>3
  <2>2. ~ RowIn(md, f - 1)
    BY <1>5 DEF CoversIn
  <2> QED BY <1>1, <2>1, <2>2 DEF RowIn
<1>6. ASSUME b.is_table, f + m <= n + 1 PROVE ~ RowIn(e, f + m)
  <2>1. CASE f + m = n + 1
    BY <1>1, <1>a, <1>6, <2>1 DEF RowIn
  <2>2. CASE f + m # n + 1
    <3>1. f + m \in 1..n /\ f + m <= n
      BY <1>1, <1>3, <1>6, <2>2
    <3>2. ~ RowIn(md, f + m)
      BY <1>6, <3>1 DEF CoversIn, m, n
    <3> QED BY <1>1, <3>1, <3>2 DEF RowIn
  <2> QED BY <2>1, <2>2
<1>7. f \in 1..(n + 1) /\ f + m - 1 <= n + 1
  BY <1>1, <1>3
<1>8. b \in BlockT /\ b.text # <<>>
  BY DEF CoversIn
<1>9. CoversIn(e, b, f)
  BY <1>1, <1>4, <1>5, <1>6, <1>7, <1>8 DEF CoversIn, m
<1> QED BY <1>9 DEF e

\* Block c is block b with one more line.
Grows(c, b, md, line) ==
  c = Block(Append(b.text, AtomsOf(Len(md) + 1, line)), b.heading_path, b.is_table)

\* A block that ends with the last line stands in the lines with one more.
LEMMA CoversGrows ==
  ASSUME NEW md \in Seq(Lines), NEW line \in Lines, NEW b, NEW f,
         CoversIn(md, b, f), EndsIn(md, b, f), NEW c, Grows(c, b, md, line),
         b.heading_path = PathIn(md, Len(md)),
         IF b.is_table THEN line.kind \in {"row", "separator"} ELSE line.kind = "text"
  PROVE  /\ CoversIn(Append(md, line), c, f)
         /\ EndsIn(Append(md, line), c, f)
         /\ Len(c.text) = Len(b.text) + 1
<1> DEFINE e == Append(md, line)
           n == Len(md)
           m == Len(b.text)
           l == AtomsOf(n + 1, line)
           u == c.text
<1>1. /\ n \in Nat /\ e \in Seq(Lines) /\ Len(e) = n + 1 /\ \A k \in 1..n : e[k] = md[k]
      /\ e[n + 1] = line
  BY NextLine
<1>2. \A i \in 0..n : PathIn(e, i) = PathIn(md, i)
  BY PathStays
<1>3. PathIn(e, n + 1) = PathIn(md, n)
  BY PathContinues
<1>4. /\ b \in BlockT /\ b.text \in Seq(LineT) /\ b.heading_path \in PathT
      /\ f \in Nat \ {0} /\ m \in Nat \ {0}
      /\ \A k \in 1..m : f + k - 1 \in 1..n
  BY CoversIs
<1>5. f + m = n + 1
  BY DEF EndsIn
<1>6. l \in LineT
  BY <1>1, AtomsOfLine
<1>7. c.text = Append(b.text, l) /\ c.heading_path = b.heading_path /\ c.is_table = b.is_table
  BY DEF Grows, Block
<1>8. /\ u \in Seq(LineT) /\ Len(u) = m + 1 /\ u # <<>> /\ u[m + 1] = l
      /\ \A k \in 1..m : u[k] = b.text[k]
  <2>1. b.text \in Seq(LineT) /\ u = Append(b.text, l)
    BY <1>4, <1>7
  <2> HIDE DEF l, u
  <2> QED BY <1>6, <2>1, AppendProperties
<1>9. c \in BlockT
  <2>1. b.is_table \in BOOLEAN /\ u \in TextT
    BY <1>4, <1>8 DEF BlockT, TextT
  <2> QED BY <1>4, <1>7, <2>1 DEF Grows, Block, BlockT
<1>10. \A k \in 1..m : /\ b.text[k] = AtomsOf(f + k - 1, md[f + k - 1])
                       /\ PathIn(md, f + k - 1) = b.heading_path
                       /\ IF b.is_table THEN RowIn(md, f + k - 1)
                                        ELSE md[f + k - 1].kind = "text"
  BY DEF CoversIn
<1> HIDE DEF e, n, m, l, u
<1>11. ASSUME NEW k \in 1..(m + 1)
       PROVE  /\ u[k] = AtomsOf(f + k - 1, e[f + k - 1])
              /\ PathIn(e, f + k - 1) = c.heading_path
              /\ IF c.is_table THEN RowIn(e, f + k - 1) ELSE e[f + k - 1].kind = "text"
  <2>1. CASE k = m + 1
    <3>1. f + k - 1 = n + 1
      BY <1>1, <1>4, <1>5, <2>1
    <3>2. u[k] = AtomsOf(f + k - 1, e[f + k - 1])
      BY <1>1, <1>8, <2>1, <3>1 DEF l
    <3>3. PathIn(e, f + k - 1) = c.heading_path
      BY <1>3, <1>7, <3>1 DEF n
    <3>4. IF c.is_table THEN RowIn(e, f + k - 1) ELSE e[f + k - 1].kind = "text"
      BY <1>1, <1>7, <3>1 DEF RowIn
    <3> QED BY <3>2, <3>3, <3>4
  <2>2. CASE k # m + 1
    <3>1. k \in 1..m
      BY <1>4, <2>2
    <3>a. f + k - 1 \in 1..n
      BY <1>4, <3>1
    <3>2. f + k - 1 \in 1..n /\ f + k - 1 \in 0..n
      BY <1>1, <3>a
    <3>3. e[f + k - 1] = md[f + k - 1] /\ PathIn(e, f + k - 1) = PathIn(md, f + k - 1)
      BY <1>1, <1>2, <3>2
    <3> QED BY <1>7, <1>8, <1>10, <3>1, <3>3 DEF RowIn
  <2> QED BY <2>1, <2>2
<1>12. ASSUME c.is_table PROVE f = 1 \/ ~ RowIn(e, f - 1)
  <2> SUFFICES ASSUME f # 1 PROVE ~ RowIn(e, f - 1)
    OBVIOUS
  <2>1. f - 1 \in 1..n
    BY <1>1, <1>4, <1>5
  <2>2. ~ RowIn(md, f - 1)
    BY <1>7, <1>12 DEF CoversIn
  <2> QED BY <1>1, <2>1, <2>2 DEF RowIn
<1>13. ~ (f + (m + 1) <= n + 1) /\ f \in 1..(n + 1) /\ f + (m + 1) - 1 <= n + 1
  BY <1>1, <1>4, <1>5
<1>14. CoversIn(e, c, f)
  BY <1>1, <1>8, <1>9, <1>11, <1>12, <1>13 DEF CoversIn, u
<1>15. EndsIn(e, c, f)
  BY <1>1, <1>4, <1>5, <1>8 DEF EndsIn, u
<1> QED BY <1>8, <1>14, <1>15 DEF e, u, m

\* Block c starts with this line.
Starts(c, md, line, is_table) ==
  c = Block(<<AtomsOf(Len(md) + 1, line)>>, PathIn(md, Len(md)), is_table)

\* A block that starts with the new line stands in the lines.
LEMMA CoversStarts ==
  ASSUME NEW md \in Seq(Lines), NEW line \in Lines, NEW is_table \in BOOLEAN,
         IF is_table THEN line.kind \in {"row", "separator"} ELSE line.kind = "text",
         is_table => Len(md) = 0 \/ ~ RowIn(md, Len(md)),
         NEW c, Starts(c, md, line, is_table)
  PROVE  /\ CoversIn(Append(md, line), c, Len(md) + 1)
         /\ EndsIn(Append(md, line), c, Len(md) + 1)
         /\ Len(c.text) = 1
<1> DEFINE e == Append(md, line)
           n == Len(md)
           l == AtomsOf(n + 1, line)
           path == PathIn(md, n)
           u == <<l>>
<1>1. /\ n \in Nat /\ e \in Seq(Lines) /\ Len(e) = n + 1 /\ \A k \in 1..n : e[k] = md[k]
      /\ e[n + 1] = line
  BY NextLine
<1>2. PathIn(e, n + 1) = path
  <2>1. line.kind # "heading"
    OBVIOUS
  <2> QED BY <2>1, PathContinues
<1>3. l \in LineT
  BY <1>1, AtomsOfLine
<1>4. path \in PathT
  <2>1. n \in 0..Len(md)
    BY <1>1
  <2> QED BY <2>1, PathNames DEF Names
<1>5. u \in TextT /\ Len(u) = 1 /\ u # <<>> /\ u[1] = l
  BY <1>3 DEF TextT
<1> HIDE DEF e, n, l, path, u
<1>6. c.text = u /\ c.heading_path = path /\ c.is_table = is_table /\ c \in BlockT
  BY <1>4, <1>5 DEF Starts, Block, BlockT, u, l, path, n
<1>7. c.text # <<>> /\ Len(c.text) = 1
  BY <1>5, <1>6
<1>8. ASSUME NEW k \in 1..Len(c.text)
      PROVE  /\ c.text[k] = AtomsOf((n + 1) + k - 1, e[(n + 1) + k - 1])
             /\ PathIn(e, (n + 1) + k - 1) = c.heading_path
             /\ IF c.is_table THEN RowIn(e, (n + 1) + k - 1)
                              ELSE e[(n + 1) + k - 1].kind = "text"
  <2>1. k = 1 /\ (n + 1) + k - 1 = n + 1
    BY <1>1, <1>7
  <2>2. c.text[k] = AtomsOf(n + 1, e[n + 1])
    BY <1>1, <1>5, <1>6, <2>1 DEF l
  <2>3. IF c.is_table THEN RowIn(e, n + 1) ELSE e[n + 1].kind = "text"
    BY <1>1, <1>6 DEF RowIn
  <2> QED BY <1>2, <1>6, <2>1, <2>2, <2>3
<1>9. ASSUME c.is_table PROVE n + 1 = 1 \/ ~ RowIn(e, (n + 1) - 1)
  <2> SUFFICES ASSUME n # 0 PROVE ~ RowIn(e, n) /\ (n + 1) - 1 = n
    BY <1>1
  <2>1. n \in 1..n /\ (n + 1) - 1 = n
    BY <1>1
  <2>2. ~ RowIn(md, n)
    BY <1>6, <1>9 DEF n
  <2> QED BY <1>1, <2>1, <2>2 DEF RowIn
<1>10. /\ ~ ((n + 1) + Len(c.text) <= Len(e)) /\ n + 1 \in 1..Len(e)
      /\ (n + 1) + Len(c.text) - 1 <= Len(e)
      /\ (n + 1) + Len(c.text) = Len(e) + 1
  BY <1>1, <1>7
<1>11. CoversIn(e, c, n + 1)
  BY <1>6, <1>8, <1>9, <1>10, <1>7 DEF CoversIn
<1>12. EndsIn(e, c, n + 1)
  BY <1>10 DEF EndsIn
<1> QED BY <1>7, <1>11, <1>12 DEF e, n

-----------------------------------------------------------------------------
(***************************************************************************)
(* The blocks and the lines they start with, in order; every line of text  *)
(* and every row is in a block.                                            *)
(***************************************************************************)

Content == {"text", "row", "separator"}

PlacedIn(md, bs, fs) ==
  /\ bs \in Seq(BlockT) /\ fs \in Seq(Nat) /\ Len(fs) = Len(bs)
  /\ \A i \in 1..Len(bs) : CoversIn(md, bs[i], fs[i])
  /\ \A i, j \in 1..Len(bs) : i < j => fs[i] + Len(bs[i].text) <= fs[j]
  /\ \A k \in 1..Len(md) :
        md[k].kind \in Content =>
           \E i \in 1..Len(bs) : k \in fs[i]..(fs[i] + Len(bs[i].text) - 1)

\* A heading or an empty line is in no block.
LEMMA PlacedStays ==
  ASSUME NEW md \in Seq(Lines), NEW line \in Lines, NEW bs, NEW fs, PlacedIn(md, bs, fs),
         line.kind \notin Content
  PROVE  PlacedIn(Append(md, line), bs, fs)
<1> DEFINE e == Append(md, line)
           n == Len(md)
<1>1. /\ n \in Nat /\ e \in Seq(Lines) /\ Len(e) = n + 1 /\ \A k \in 1..n : e[k] = md[k]
      /\ e[n + 1] = line
  BY NextLine
<1>2. \A i \in 1..Len(bs) : CoversIn(e, bs[i], fs[i])
  <2> SUFFICES ASSUME NEW i \in 1..Len(bs) PROVE CoversIn(e, bs[i], fs[i])
    OBVIOUS
  <2>1. CoversIn(md, bs[i], fs[i])
    BY DEF PlacedIn
  <2>2. line.kind \notin {"row", "separator"}
    BY DEF Content
  <2> QED BY <2>1, <2>2, CoversStays
<1> HIDE DEF e
<1>3. ASSUME NEW k \in 1..(n + 1), e[k].kind \in Content
      PROVE  \E i \in 1..Len(bs) : k \in fs[i]..(fs[i] + Len(bs[i].text) - 1)
  <2>1. k # n + 1
    BY <1>1, <1>3
  <2>2. k \in 1..n /\ e[k] = md[k]
    BY <1>1, <2>1
  <2> QED BY <1>3, <2>2 DEF PlacedIn, n
<1>4. PlacedIn(e, bs, fs)
  BY <1>1, <1>2, <1>3 DEF PlacedIn
<1> QED BY <1>4 DEF e

\* A line that opens a block is in it.
LEMMA PlacedNew ==
  ASSUME NEW md \in Seq(Lines), NEW line \in Lines, NEW bs, NEW fs, PlacedIn(md, bs, fs),
         NEW is_table \in BOOLEAN,
         IF is_table THEN line.kind \in {"row", "separator"} ELSE line.kind = "text",
         is_table => Len(md) = 0 \/ ~ RowIn(md, Len(md)),
         NEW c, Starts(c, md, line, is_table)
  PROVE  /\ PlacedIn(Append(md, line), Append(bs, c), Append(fs, Len(md) + 1))
         /\ EndsIn(Append(md, line), c, Len(md) + 1)
<1> DEFINE e == Append(md, line)
           n == Len(md)
           m == Len(bs)
           ds == Append(bs, c)
           gs == Append(fs, n + 1)
<1>1. /\ n \in Nat /\ e \in Seq(Lines) /\ Len(e) = n + 1 /\ \A k \in 1..n : e[k] = md[k]
      /\ e[n + 1] = line
  BY NextLine
<1>2. /\ bs \in Seq(BlockT) /\ fs \in Seq(Nat) /\ Len(fs) = m /\ m \in Nat
      /\ \A i \in 1..m : CoversIn(md, bs[i], fs[i])
      /\ \A i, j \in 1..m : i < j => fs[i] + Len(bs[i].text) <= fs[j]
  BY LenProperties DEF PlacedIn
<1>3. CoversIn(e, c, n + 1) /\ EndsIn(e, c, n + 1) /\ Len(c.text) = 1
  BY CoversStarts
<1>4. c \in BlockT
  BY <1>3 DEF CoversIn
<1>5. /\ ds \in Seq(BlockT) /\ Len(ds) = m + 1 /\ ds[m + 1] = c
      /\ \A i \in 1..m : ds[i] = bs[i]
  BY <1>2, <1>4, AppendProperties
<1>6. /\ gs \in Seq(Nat) /\ Len(gs) = m + 1 /\ gs[m + 1] = n + 1
      /\ \A i \in 1..m : gs[i] = fs[i]
  <2>1. n + 1 \in Nat
    BY <1>1
  <2> QED BY <1>2, <2>1, AppendProperties
<1>7. ASSUME NEW i \in 1..m PROVE CoversIn(e, bs[i], fs[i])
  <2>1. CoversIn(md, bs[i], fs[i])
    BY <1>2
  <2>2. ASSUME bs[i].is_table, EndsIn(md, bs[i], fs[i])
        PROVE  line.kind \notin {"row", "separator"}
    <3> DEFINE k == Len(bs[i].text)
    <3>1. k \in Nat \ {0} /\ fs[i] \in Nat \ {0} /\ fs[i] + k = n + 1
      BY <2>1, <2>2, CoversIs DEF EndsIn
    <3>2. k \in 1..k /\ fs[i] + k - 1 = n /\ n # 0
      BY <1>1, <3>1
    <3>3. RowIn(md, n)
      BY <2>1, <2>2, <3>2 DEF CoversIn
    <3> QED BY <3>2, <3>3
  <2> QED BY <2>1, <2>2, CoversStays
<1>8. ASSUME NEW i \in 1..m
      PROVE  fs[i] \in Nat /\ Len(bs[i].text) \in Nat /\ fs[i] + Len(bs[i].text) <= n + 1
  <2>1. CoversIn(md, bs[i], fs[i])
    BY <1>2
  <2>2. /\ fs[i] \in Nat \ {0} /\ Len(bs[i].text) \in Nat \ {0}
        /\ fs[i] + Len(bs[i].text) - 1 <= n
    BY <2>1, CoversIs
  <2> QED BY <1>1, <2>2
<1> HIDE DEF e, n, m, ds, gs
<1>9. \A i \in 1..(m + 1) : i \in 1..m \/ i = m + 1
  BY <1>2
<1>10. \A i \in 1..(m + 1) : CoversIn(e, ds[i], gs[i])
  BY <1>3, <1>5, <1>6, <1>7, <1>9
<1>11. ASSUME NEW i \in 1..(m + 1), NEW j \in 1..(m + 1), i < j
       PROVE  gs[i] + Len(ds[i].text) <= gs[j]
  <2>1. i \in 1..m
    BY <1>2, <1>11
  <2>2. gs[i] + Len(ds[i].text) = fs[i] + Len(bs[i].text)
    BY <1>5, <1>6, <2>1
  <2>3. CASE j \in 1..m
    BY <1>2, <1>6, <1>11, <2>1, <2>2, <2>3
  <2>4. CASE j = m + 1
    BY <1>6, <1>8, <2>1, <2>2, <2>4
  <2> QED BY <1>9, <2>3, <2>4
<1>12. ASSUME NEW k \in 1..(n + 1), e[k].kind \in Content
       PROVE  \E i \in 1..(m + 1) : k \in gs[i]..(gs[i] + Len(ds[i].text) - 1)
  <2>1. CASE k = n + 1
    <3>1. m + 1 \in 1..(m + 1)
      BY <1>2
    <3>2. k \in gs[m + 1]..(gs[m + 1] + Len(ds[m + 1].text) - 1)
      <4>1. gs[m + 1] = n + 1 /\ Len(ds[m + 1].text) = 1
        BY <1>3, <1>5, <1>6
      <4>2. k \in (n + 1)..((n + 1) + 1 - 1)
        BY <1>1, <2>1
      <4> QED BY <4>1, <4>2
    <3> QED BY <3>1, <3>2
  <2>2. CASE k # n + 1
    <3>1. k \in 1..n /\ e[k] = md[k]
      BY <1>1, <2>2
    <3>2. PICK i \in 1..m : k \in fs[i]..(fs[i] + Len(bs[i].text) - 1)
      BY <1>12, <3>1 DEF PlacedIn, n, m
    <3>3. i \in 1..(m + 1)
      BY <1>2
    <3> QED BY <1>5, <1>6, <3>2, <3>3
  <2> QED BY <2>1, <2>2
<1>13. PlacedIn(e, ds, gs)
  BY <1>1, <1>5, <1>6, <1>10, <1>11, <1>12 DEF PlacedIn
<1> QED BY <1>3, <1>13 DEF e, n, ds, gs

\* A line that continues the open block is in it.
LEMMA PlacedGrows ==
  ASSUME NEW md \in Seq(Lines), NEW line \in Lines, NEW bs, NEW b \in BlockT, NEW fs,
         bs \in Seq(BlockT), PlacedIn(md, Append(bs, b), fs),
         EndsIn(md, b, fs[Len(bs) + 1]),
         NEW c, Grows(c, b, md, line),
         b.heading_path = PathIn(md, Len(md)),
         IF b.is_table THEN line.kind \in {"row", "separator"} ELSE line.kind = "text"
  PROVE  /\ PlacedIn(Append(md, line), Append(bs, c), fs)
         /\ EndsIn(Append(md, line), c, fs[Len(bs) + 1])
<1> DEFINE e == Append(md, line)
           n == Len(md)
           m == Len(bs)
           cs == Append(bs, b)
           ds == Append(bs, c)
<1>1. /\ n \in Nat /\ e \in Seq(Lines) /\ Len(e) = n + 1 /\ \A k \in 1..n : e[k] = md[k]
      /\ e[n + 1] = line
  BY NextLine
<1>2. /\ m \in Nat /\ Len(cs) = m + 1 /\ cs[m + 1] = b
      /\ \A i \in 1..m : cs[i] = bs[i]
  BY AppendProperties, LenProperties
<1> HIDE DEF cs
<1>3. /\ fs \in Seq(Nat) /\ Len(fs) = m + 1
      /\ \A i \in 1..(m + 1) : CoversIn(md, cs[i], fs[i])
      /\ \A i, j \in 1..(m + 1) : i < j => fs[i] + Len(cs[i].text) <= fs[j]
  BY <1>2 DEF PlacedIn, cs
<1>4. m + 1 \in 1..(m + 1) /\ \A i \in 1..m : i \in 1..(m + 1) /\ i < m + 1
  BY <1>2
<1>5. CoversIn(md, b, fs[m + 1])
  BY <1>2, <1>3, <1>4
<1>6. CoversIn(e, c, fs[m + 1]) /\ EndsIn(e, c, fs[m + 1]) /\ Len(c.text) = Len(b.text) + 1
  BY <1>5, CoversGrows
<1>7. c \in BlockT
  BY <1>6 DEF CoversIn
<1>8. /\ ds \in Seq(BlockT) /\ Len(ds) = m + 1 /\ ds[m + 1] = c
      /\ \A i \in 1..m : ds[i] = bs[i]
  BY <1>2, <1>7, AppendProperties
<1>a. Len(b.text) \in Nat /\ fs[m + 1] \in Nat /\ fs[m + 1] + Len(b.text) = n + 1
      /\ fs[m + 1] <= n
  <2>1. /\ fs[m + 1] \in Nat \ {0} /\ Len(b.text) \in Nat \ {0}
        /\ fs[m + 1] + Len(b.text) - 1 <= n
    BY <1>5, CoversIs
  <2>2. fs[m + 1] + Len(b.text) = n + 1
    BY DEF EndsIn
  <2> QED BY <1>1, <2>1, <2>2
<1>9. ASSUME NEW i \in 1..m PROVE CoversIn(e, bs[i], fs[i])
  <2>1. CoversIn(md, bs[i], fs[i])
    BY <1>2, <1>3, <1>4
  <2>2. fs[i] + Len(bs[i].text) <= fs[m + 1]
    BY <1>2, <1>3, <1>4
  <2>3. fs[i] \in Nat /\ Len(bs[i].text) \in Nat
    BY <2>1, CoversIs
  <2>4. ~ EndsIn(md, bs[i], fs[i])
    BY <1>1, <1>a, <2>2, <2>3 DEF EndsIn
  <2> QED BY <2>1, <2>4, CoversStays
<1> HIDE DEF e, n, m, ds
<1>10. \A i \in 1..(m + 1) : i \in 1..m \/ i = m + 1
  BY <1>2
<1>11. \A i \in 1..(m + 1) : CoversIn(e, ds[i], fs[i])
  BY <1>6, <1>8, <1>9, <1>10
<1>12. ASSUME NEW i \in 1..(m + 1), NEW j \in 1..(m + 1), i < j
       PROVE  fs[i] + Len(ds[i].text) <= fs[j]
  <2>1. i \in 1..m
    BY <1>2, <1>12
  <2>2. ds[i] = cs[i]
    BY <1>2, <1>8, <2>1
  <2> QED BY <1>3, <1>12, <2>2
<1>13. ASSUME NEW k \in 1..(n + 1), e[k].kind \in Content
       PROVE  \E i \in 1..(m + 1) : k \in fs[i]..(fs[i] + Len(ds[i].text) - 1)
  <2>1. CASE k = n + 1
    <3>1. k \in fs[m + 1]..(fs[m + 1] + Len(ds[m + 1].text) - 1)
      BY <1>1, <1>6, <1>8, <1>a, <2>1
    <3> QED BY <1>4, <3>1
  <2>2. CASE k # n + 1
    <3>1. k \in 1..n /\ e[k] = md[k]
      BY <1>1, <2>2
    <3>2. PICK i \in 1..(m + 1) : k \in fs[i]..(fs[i] + Len(cs[i].text) - 1)
      BY <1>2, <1>13, <3>1 DEF PlacedIn, n, cs
    <3>3. CASE i \in 1..m
      BY <1>2, <1>8, <3>2, <3>3
    <3>4. CASE i = m + 1
      <4>1. k \in fs[i]..(fs[i] + Len(b.text) - 1)
        BY <1>2, <3>2, <3>4
      <4>2. k \in fs[i]..(fs[i] + Len(c.text) - 1)
        BY <1>6, <1>a, <3>4, <4>1
      <4>3. ds[i] = c
        BY <1>8, <3>4
      <4> QED BY <4>2, <4>3
    <3> QED BY <1>10, <3>3, <3>4
  <2> QED BY <2>1, <2>2
<1>14. PlacedIn(e, ds, fs)
  BY <1>1, <1>3, <1>8, <1>11, <1>12, <1>13 DEF PlacedIn
<1> QED BY <1>6, <1>14 DEF e, ds, m

-----------------------------------------------------------------------------
(***************************************************************************)
(* The parser's state: the finished blocks and the open one are the blocks *)
(* of the lines read.                                                      *)
(***************************************************************************)

\* The open block, if there is one, as flush adds it (chunker.py:90-104).
Rest(text, path, is_table) ==
  IF text = <<>> THEN <<>> ELSE <<Block(text, path, is_table)>>

BlocksOf(done, text, rows, path) == done \o Rest(text, path, FALSE) \o Rest(rows, path, TRUE)

\* The blocks if the document ends here.
AllBlocks == BlocksOf(blocks, buffer, table_buffer, stack)

\* The last block ends with the last line.
LastEnds(md, bs, fs) ==
  /\ bs # <<>>
  /\ EndsIn(md, bs[Len(bs)], fs[Len(bs)])

\* The invariant of the parser.
Reading ==
  /\ markdown \in Seq(Lines)
  /\ blocks \in Seq(BlockT) /\ buffer \in TextT /\ table_buffer \in TextT
  /\ stack = PathIn(markdown, Len(markdown))
  /\ buffer = <<>> \/ table_buffer = <<>>
  /\ table_buffer = <<>> /\ Len(markdown) > 0 => ~ RowIn(markdown, Len(markdown))
  /\ \E fs : /\ PlacedIn(markdown, AllBlocks, fs)
             /\ buffer # <<>> \/ table_buffer # <<>> => LastEnds(markdown, AllBlocks, fs)
  /\ chunks = ChunkMarkdown(AllBlocks)

\* Of the lines read, PathIn and CoversIn are the model's own.
LEMMA PathInIs ==
  ASSUME NEW i
  PROVE  SectionPath(i) = PathIn(markdown, i)
BY Zenon DEF SectionPath, InForce, PathIn, InForceIn

LEMMA CoversInIs ==
  ASSUME NEW b, NEW f, CoversIn(markdown, b, f)
  PROVE  Covers(b, f)
BY PathInIs, Zenon DEF CoversIn, Covers, RowIn, IsRow

\* Blocks that are placed are in order, and have all atoms of the document.
LEMMA PlacedBlocks ==
  ASSUME markdown \in Seq(Lines), NEW bs, NEW fs, PlacedIn(markdown, bs, fs)
  PROVE  /\ bs \in Seq(Covered)
         /\ InOrder(bs)
         /\ BlockAtoms(bs) = AllAtoms
<1> DEFINE m == Len(bs)
           A(i) == FlattenSeq(bs[i].text)
           L(i) == Len(bs[i].text)
<1>1. /\ bs \in Seq(BlockT) /\ m \in Nat
      /\ \A i \in 1..m : CoversIn(markdown, bs[i], fs[i])
      /\ \A i, j \in 1..m : i < j => fs[i] + L(i) <= fs[j]
  BY LenProperties DEF PlacedIn
<1>2. \A i \in 1..m : Covers(bs[i], fs[i])
  BY <1>1, CoversInIs
<1>3. bs \in Seq(Covered)
  <2>1. \A i \in 1..m : bs[i] \in Covered
    BY <1>1, <1>2 DEF Covered
  <2> QED BY <1>1, <2>1
<1>4. ASSUME NEW i \in 1..m
      PROVE  /\ fs[i] \in Nat /\ L(i) \in Nat
             /\ \A a \in ToSet(A(i)) : /\ a.line \in fs[i]..(fs[i] + L(i) - 1)
                                       /\ a \in ToSet(AtomsOf(a.line, markdown[a.line]))
             /\ \A k \in fs[i]..(fs[i] + L(i) - 1) :
                  /\ ToSet(AtomsOf(k, markdown[k])) \subseteq ToSet(A(i))
                  /\ k \in 1..Len(markdown)
                  /\ markdown[k].kind \in Content
  <2>1. Covers(bs[i], fs[i])
    BY <1>2
  <2>2. fs[i] \in Nat /\ L(i) \in Nat
    BY <2>1, CoveredLines
  <2>3. \A a \in ToSet(A(i)) : /\ a.line \in fs[i]..(fs[i] + L(i) - 1)
                               /\ a \in ToSet(AtomsOf(a.line, markdown[a.line]))
    BY <2>1, CoveredAtoms
  <2>4. \A k \in fs[i]..(fs[i] + L(i) - 1) :
           ToSet(AtomsOf(k, markdown[k])) \subseteq ToSet(A(i))
    BY <2>1, CoveredAtoms
  <2>5. \A k \in fs[i]..(fs[i] + L(i) - 1) :
           /\ k \in 1..Len(markdown)
           /\ IF bs[i].is_table THEN IsRow(k) ELSE markdown[k].kind = "text"
    BY <2>1, CoveredLines
  <2>6. \A k \in fs[i]..(fs[i] + L(i) - 1) : markdown[k].kind \in Content
    BY <2>5 DEF IsRow, Content
  <2> QED BY <2>2, <2>3, <2>4, <2>5, <2>6
<1> HIDE DEF A, L, m
<1>5. InOrder(bs)
  <2> SUFFICES ASSUME NEW i \in 1..m, NEW j \in 1..m, i < j,
                      NEW a \in ToSet(A(i)), NEW b \in ToSet(A(j))
               PROVE  Before(a, b)
    BY DEF InOrder, Precedes, A, m
  <2>1. a.line \in fs[i]..(fs[i] + L(i) - 1) /\ b.line \in fs[j]..(fs[j] + L(j) - 1)
    BY <1>4
  <2>2. fs[i] + L(i) <= fs[j] /\ fs[i] \in Nat /\ L(i) \in Nat /\ fs[j] \in Nat /\ L(j) \in Nat
    BY <1>1, <1>4
  <2>3. a.line < b.line
    BY <2>1, <2>2
  <2> QED BY <2>3 DEF Before
<1>6. BlockAtoms(bs) = UNION {ToSet(A(i)) : i \in 1..m}
  BY Zenon DEF BlockAtoms, A, m
<1>7. ASSUME NEW a \in BlockAtoms(bs) PROVE a \in AllAtoms
  <2>1. PICK i \in 1..m : a \in ToSet(A(i))
    BY <1>6
  <2>2. a.line \in fs[i]..(fs[i] + L(i) - 1) /\ a \in ToSet(AtomsOf(a.line, markdown[a.line]))
    BY <1>4, <2>1
  <2>3. a.line \in 1..Len(markdown) /\ markdown[a.line].kind \in Content
    BY <1>4, <2>2
  <2>4. a.line \in {k \in DOMAIN markdown : markdown[k].kind \notin {"heading", "blank"}}
    BY <2>3, MarkdownIs DEF Content
  <2> QED BY <2>2, <2>4 DEF AllAtoms
<1>8. ASSUME NEW a \in AllAtoms PROVE a \in BlockAtoms(bs)
  <2>1. PICK k \in {j \in DOMAIN markdown : markdown[j].kind \notin {"heading", "blank"}} :
               a \in ToSet(AtomsOf(k, markdown[k]))
    BY <1>8 DEF AllAtoms
  <2>2. k \in 1..Len(markdown) /\ markdown[k] \in Lines
    BY <2>1, MarkdownIs
  <2>3. markdown[k].kind \in Content
    BY <2>1, <2>2, LineIs DEF Content, Kinds
  <2>4. PICK i \in 1..m : k \in fs[i]..(fs[i] + L(i) - 1)
    BY <2>2, <2>3 DEF PlacedIn, m, L
  <2>5. a \in ToSet(A(i))
    BY <1>4, <2>1, <2>4
  <2> QED BY <1>6, <2>5
<1> QED BY <1>3, <1>5, <1>7, <1>8

\* So the chunks are those of the document.
LEMMA ReadingResult ==
  ASSUME Reading
  PROVE  /\ markdown \in Seq(Lines)
         /\ Kept(chunks)
         /\ \A i \in DOMAIN chunks : chunks[i].ordinal = i - 1
         /\ Orderly(Bodies(chunks))
         /\ ToSet(Bodies(chunks)) = AllAtoms
<1>1. markdown \in Seq(Lines) /\ chunks = ChunkMarkdown(AllBlocks)
  BY DEF Reading
<1>2. PICK fs : PlacedIn(markdown, AllBlocks, fs)
  BY DEF Reading
<1> DEFINE bs == AllBlocks
<1> HIDE DEF bs
<1>3. PlacedIn(markdown, bs, fs) /\ chunks = ChunkMarkdown(bs)
  BY <1>1, <1>2 DEF bs
<1>4. bs \in Seq(Covered) /\ InOrder(bs) /\ BlockAtoms(bs) = AllAtoms
  BY <1>1, <1>3, PlacedBlocks
<1>5. Result(chunks, bs)
  BY <1>1, <1>3, <1>4, ChunkMarkdownResult
<1> QED BY <1>1, <1>4, <1>5 DEF Result

\* What the blocks are when at most one is open.
BlocksFit(done, text, rows, path) ==
  /\ Rest(text, path, FALSE) \in Seq(BlockT) /\ Rest(rows, path, TRUE) \in Seq(BlockT)
  /\ text = <<>> => Rest(text, path, FALSE) = <<>>
  /\ rows = <<>> => Rest(rows, path, TRUE) = <<>>
  /\ text = <<>> /\ rows = <<>> => BlocksOf(done, text, rows, path) = done
  /\ text # <<>> /\ rows = <<>> =>
        /\ BlocksOf(done, text, rows, path) = Append(done, Block(text, path, FALSE))
        /\ done \o Rest(text, path, FALSE) = Append(done, Block(text, path, FALSE))
  /\ text = <<>> /\ rows # <<>> =>
        /\ BlocksOf(done, text, rows, path) = Append(done, Block(rows, path, TRUE))
        /\ done \o Rest(rows, path, TRUE) = Append(done, Block(rows, path, TRUE))
  /\ done \o <<>> = done

\* At most one block is open.
LEMMA BlocksAre ==
  ASSUME NEW done \in Seq(BlockT), NEW text \in TextT, NEW rows \in TextT, NEW path \in PathT
  PROVE  BlocksFit(done, text, rows, path)
<1> DEFINE b == Block(text, path, FALSE)
           c == Block(rows, path, TRUE)
<1>1. b \in BlockT /\ c \in BlockT
  BY DEF Block, BlockT
<1>2. /\ Rest(text, path, FALSE) = IF text = <<>> THEN <<>> ELSE <<b>>
      /\ Rest(rows, path, TRUE) = IF rows = <<>> THEN <<>> ELSE <<c>>
  BY DEF Rest
<1> HIDE DEF b, c
<1>3. <<>> \in Seq(BlockT) /\ <<b>> \in Seq(BlockT) /\ <<c>> \in Seq(BlockT)
  BY <1>1
<1>4. Append(done, b) = done \o <<b>> /\ Append(done, c) = done \o <<c>>
  BY <1>1, AppendIsConcat
<1>5. done \o <<>> = done
  BY ConcatEmptySeq
<1>6. (done \o <<b>>) \o <<>> = done \o <<b>>
  <2> DEFINE x == done \o <<b>>
  <2>1. x \in Seq(BlockT)
    BY <1>3, ConcatProperties
  <2> HIDE DEF x
  <2>2. x \o <<>> = x
    BY <2>1, ConcatEmptySeq
  <2> QED BY <2>2 DEF x
<1>7. Rest(text, path, FALSE) \in Seq(BlockT) /\ Rest(rows, path, TRUE) \in Seq(BlockT)
  BY <1>2, <1>3
<1>8. BlocksOf(done, text, rows, path)
        = (done \o Rest(text, path, FALSE)) \o Rest(rows, path, TRUE)
  BY DEF BlocksOf
<1>9. CASE text = <<>> /\ rows = <<>>
  BY <1>2, <1>5, <1>7, <1>8, <1>9, Zenon DEF BlocksFit
<1>10. CASE text # <<>> /\ rows = <<>>
  BY <1>2, <1>4, <1>5, <1>6, <1>7, <1>8, <1>10, Zenon DEF BlocksFit, b
<1>11. CASE text = <<>> /\ rows # <<>>
  BY <1>2, <1>4, <1>5, <1>7, <1>8, <1>11, Zenon DEF BlocksFit, c
<1>12. CASE text # <<>> /\ rows # <<>>
  BY <1>2, <1>5, <1>7, <1>12, Zenon DEF BlocksFit
<1> QED BY <1>9, <1>10, <1>11, <1>12

\* The open block grows by a line; a block is opened by one.
LEMMA Grown ==
  ASSUME NEW md \in Seq(Lines), NEW line \in Lines,
         NEW bs \in Seq(BlockT), NEW text \in TextT, text # <<>>, NEW path \in PathT,
         path = PathIn(md, Len(md)), NEW is_table \in BOOLEAN,
         IF is_table THEN line.kind \in {"row", "separator"} ELSE line.kind = "text",
         NEW fs,
         PlacedIn(md, Append(bs, Block(text, path, is_table)), fs),
         LastEnds(md, Append(bs, Block(text, path, is_table)), fs)
  PROVE  LET c == Block(Append(text, AtomsOf(Len(md) + 1, line)), path, is_table)
         IN  /\ PlacedIn(Append(md, line), Append(bs, c), fs)
             /\ LastEnds(Append(md, line), Append(bs, c), fs)
<1> DEFINE b == Block(text, path, is_table)
           l == AtomsOf(Len(md) + 1, line)
           c == Block(Append(text, l), path, is_table)
           m == Len(bs)
<1>1. b \in BlockT /\ b.text = text /\ b.heading_path = path /\ b.is_table = is_table
  BY DEF Block, BlockT
<1>2. Grows(c, b, md, line)
  BY <1>1, Zenon DEF Grows
<1>3. c \in BlockT
  <2>1. l \in LineT
    BY LenProperties, AtomsOfLine
  <2> HIDE DEF l
  <2>2. Append(text, l) \in TextT
    BY <2>1, FlatAppend
  <2> QED BY <2>2 DEF Block, BlockT
<1>4. PlacedIn(md, Append(bs, b), fs) /\ LastEnds(md, Append(bs, b), fs)
  OBVIOUS
<1> HIDE DEF b, c
<1>5. /\ Append(bs, b) # <<>> /\ Len(Append(bs, b)) = m + 1 /\ Append(bs, b)[m + 1] = b
      /\ Append(bs, c) # <<>> /\ Len(Append(bs, c)) = m + 1 /\ Append(bs, c)[m + 1] = c
  BY <1>1, <1>3, AppendProperties
<1> HIDE DEF m
<1>6. EndsIn(md, b, fs[m + 1])
  BY <1>4, <1>5 DEF LastEnds
<1>7. /\ PlacedIn(Append(md, line), Append(bs, c), fs)
      /\ EndsIn(Append(md, line), c, fs[m + 1])
  BY <1>1, <1>2, <1>4, <1>6, PlacedGrows DEF m
<1>8. LastEnds(Append(md, line), Append(bs, c), fs)
  BY <1>5, <1>7 DEF LastEnds
<1> QED BY <1>7, <1>8 DEF c

LEMMA Started ==
  ASSUME NEW md \in Seq(Lines), NEW line \in Lines, NEW bs, NEW path \in PathT,
         path = PathIn(md, Len(md)), NEW is_table \in BOOLEAN,
         IF is_table THEN line.kind \in {"row", "separator"} ELSE line.kind = "text",
         is_table /\ Len(md) > 0 => ~ RowIn(md, Len(md)),
         NEW fs, PlacedIn(md, bs, fs)
  PROVE  LET c == Block(Append(<<>>, AtomsOf(Len(md) + 1, line)), path, is_table)
         IN  \E gs : /\ PlacedIn(Append(md, line), Append(bs, c), gs)
                     /\ LastEnds(Append(md, line), Append(bs, c), gs)
<1> DEFINE l == AtomsOf(Len(md) + 1, line)
           c == Block(Append(<<>>, l), path, is_table)
           m == Len(bs)
           n == Len(md)
           gs == Append(fs, n + 1)
<1>1. Append(<<>>, l) = <<l>>
  OBVIOUS
<1>2. Starts(c, md, line, is_table)
  BY <1>1, Zenon DEF Starts
<1>3. n \in Nat /\ (is_table => n = 0 \/ ~ RowIn(md, n))
  BY LenProperties
<1> HIDE DEF c, l
<1>4. /\ PlacedIn(Append(md, line), Append(bs, c), gs)
      /\ EndsIn(Append(md, line), c, n + 1)
  BY <1>2, <1>3, PlacedNew
<1>5. bs \in Seq(BlockT) /\ fs \in Seq(Nat) /\ Len(fs) = m /\ n + 1 \in Nat
  BY <1>3 DEF PlacedIn
<1>6. Append(bs, c) \in Seq(BlockT)
  BY <1>4 DEF PlacedIn
<1>7. c \in BlockT
  BY <1>3, <1>2, CoversStarts DEF CoversIn
<1>8. Append(bs, c) # <<>> /\ Len(Append(bs, c)) = m + 1 /\ Append(bs, c)[m + 1] = c
  BY <1>5, <1>7, AppendProperties
<1>a. gs[m + 1] = n + 1
  BY <1>5, AppendProperties
<1> HIDE DEF gs, m, n
<1>9. LastEnds(Append(md, line), Append(bs, c), gs)
  BY <1>4, <1>8, <1>a DEF LastEnds
<1> QED BY <1>4, <1>9 DEF c, l

\* An empty document has no chunks.
LEMMA ChunkMarkdownEmpty ==
  ASSUME markdown = <<>>
  PROVE  ChunkMarkdown(<<>>) = <<>>
<1> DEFINE m == MergeAll(<<>>)
<1>0. markdown \in Seq(Lines)
  OBVIOUS
<1>1. AllPieces(<<>>) = <<>>
  BY <1>0, AllPiecesEmpty
<1>2. Added(<<>>) = Nothing
  BY AddedEmpty
<1>3. Nothing.current = <<>> /\ Nothing.chunks = <<>>
  BY DEF Nothing
<1>4. Emit(Nothing).chunks = <<>>
  BY <1>3, Zenon DEF Emit
<1>5. m = <<>>
  BY MergeAllEmpty
<1>6. ChunkMarkdown(<<>>) = MergeTiny(Emit(Added(AllPieces(<<>>))).chunks)
  BY Zenon DEF ChunkMarkdown, Added, AllPieces, Nothing
<1>7. ChunkMarkdown(<<>>) = MergeTiny(<<>>)
  BY <1>1, <1>2, <1>4, <1>6, Zenon
<1>8. MergeTiny(<<>>) = [i \in DOMAIN m |-> [m[i] EXCEPT !.ordinal = i - 1]]
  BY Zenon DEF MergeTiny, MergeAll
<1> HIDE DEF m
<1>9. DOMAIN m = {}
  BY <1>5
<1>10. [i \in DOMAIN m |-> [m[i] EXCEPT !.ordinal = i - 1]] = <<>>
  BY <1>9
<1> QED BY <1>7, <1>8, <1>10

\* Nothing read, nothing open.
LEMMA InitReading ==
  Init => Reading
<1> SUFFICES ASSUME Init PROVE Reading
  OBVIOUS
<1>1. /\ markdown = <<>> /\ stack = <<>> /\ buffer = <<>> /\ table_buffer = <<>>
      /\ blocks = <<>> /\ chunks = <<>>
  BY DEF Init
<1>2. /\ markdown \in Seq(Lines) /\ blocks \in Seq(BlockT) /\ Len(markdown) = 0
      /\ buffer \in TextT /\ table_buffer \in TextT
  BY <1>1, FlatEmpty
<1>3. stack = PathIn(markdown, Len(markdown))
  <2> DEFINE p == PathIn(markdown, Len(markdown))
  <2>0. Names(markdown, InForceIn(markdown, 0), PathIn(markdown, 0))
    <3>1. 0 \in 0..Len(markdown)
      BY <1>2
    <3> QED BY <1>2, <3>1, PathNames
  <2>1. Names(markdown, InForceIn(markdown, 0), p)
    BY <1>2, <2>0
  <2>2. InForceIn(markdown, 0) = {}
    BY DEF InForceIn
  <2> HIDE DEF p
  <2>3. p \in Seq(Titles) /\ Len(p) = 0
    <3>1. p \in Seq(Titles) /\ ~ (Len(p) > 0)
      BY <2>1, <2>2 DEF Names, PathT
    <3> QED BY <3>1, LenProperties
  <2>4. p = <<>>
    BY <2>3, EmptySeq
  <2> QED BY <1>1, <2>4 DEF p
<1>4. AllBlocks = <<>>
  <2>1. <<>> \in PathT
    BY DEF PathT
  <2>2. BlocksOf(blocks, buffer, table_buffer, stack) = blocks
    <3>1. BlocksFit(blocks, buffer, table_buffer, stack)
      BY <1>1, <1>2, <2>1, BlocksAre
    <3>2. buffer = <<>> /\ table_buffer = <<>>
      BY <1>1
    <3> QED BY <3>1, <3>2 DEF BlocksFit
  <2> QED BY <1>1, <2>2 DEF AllBlocks
<1>5. PlacedIn(markdown, AllBlocks, <<>>)
  <2>1. PlacedIn(<<>>, <<>>, <<>>)
    BY DEF PlacedIn
  <2> QED BY <1>1, <1>4, <2>1
<1>6. chunks = ChunkMarkdown(AllBlocks)
  BY <1>1, <1>4, ChunkMarkdownEmpty
<1> QED BY <1>1, <1>2, <1>3, <1>5, <1>6 DEF Reading

\* A line is read: what is left to show of the state after it.
LEMMA ReadingNext ==
  ASSUME markdown \in Seq(Lines), NEW line \in Lines, Read(line),
         blocks' \in Seq(BlockT), buffer' \in TextT, table_buffer' \in TextT,
         stack' = PathIn(Append(markdown, line), Len(markdown) + 1),
         buffer' = <<>> \/ table_buffer' = <<>>,
         table_buffer' = <<>> => line.kind \notin {"row", "separator"},
         NEW bs, bs = BlocksOf(blocks', buffer', table_buffer', stack'),
         \E fs : /\ PlacedIn(Append(markdown, line), bs, fs)
                 /\ buffer' # <<>> \/ table_buffer' # <<>>
                      => LastEnds(Append(markdown, line), bs, fs)
  PROVE  Reading'
<1> DEFINE e == Append(markdown, line)
           n == Len(markdown)
<1>1. n \in Nat /\ e \in Seq(Lines) /\ Len(e) = n + 1 /\ e[n + 1] = line
  BY NextLine
<1>2. markdown' = e
  BY DEF Read
<1>3. AllBlocks' = bs
  BY DEF AllBlocks
<1>4. chunks' = ChunkMarkdown(bs)
  <2>1. bs = blocks' \o Rest(buffer', stack', FALSE) \o Rest(table_buffer', stack', TRUE)
    BY Zenon DEF BlocksOf
  <2> QED BY <2>1, Zenon DEF Read, Rest
<1>5. table_buffer' = <<>> => ~ RowIn(e, n + 1)
  BY <1>1 DEF RowIn
<1> HIDE DEF e, n
<1>6. \E fs : /\ PlacedIn(e, bs, fs)
              /\ buffer' # <<>> \/ table_buffer' # <<>> => LastEnds(e, bs, fs)
  BY Zenon DEF e
<1>7. markdown' \in Seq(Lines) /\ stack' = PathIn(markdown', Len(markdown'))
      /\ (table_buffer' = <<>> => ~ RowIn(markdown', Len(markdown')))
  BY <1>1, <1>2, <1>5 DEF e, n
<1>8. \E fs : /\ PlacedIn(markdown', AllBlocks', fs)
              /\ buffer' # <<>> \/ table_buffer' # <<>> => LastEnds(markdown', AllBlocks', fs)
  BY <1>2, <1>3, <1>6
<1>9. chunks' = ChunkMarkdown(AllBlocks')
  BY <1>3, <1>4
<1> HIDE DEF AllBlocks
<1> QED BY <1>7, <1>8, <1>9 DEF Reading

\* The parts of the parser's state are typed.
LEMMA ReadingIs ==
  ASSUME Reading
  PROVE  /\ markdown \in Seq(Lines) /\ Len(markdown) \in Nat
         /\ blocks \in Seq(BlockT) /\ buffer \in TextT /\ table_buffer \in TextT
         /\ stack = PathIn(markdown, Len(markdown)) /\ stack \in PathT
         /\ buffer = <<>> \/ table_buffer = <<>>
         /\ AllBlocks = BlocksOf(blocks, buffer, table_buffer, stack)
<1>1. markdown \in Seq(Lines) /\ stack = PathIn(markdown, Len(markdown))
  BY DEF Reading
<1>2. Len(markdown) \in Nat /\ Len(markdown) \in 0..Len(markdown)
  BY <1>1, LenProperties
<1>3. stack \in PathT
  BY <1>1, <1>2, PathNames DEF Names
<1> QED BY <1>1, <1>2, <1>3 DEF Reading, AllBlocks

\* A heading or an empty line ends the open block.
LEMMA ReadingClosed ==
  ASSUME Reading, NEW line \in Lines, Read(line), line.kind \in {"heading", "blank"},
         blocks' = AllBlocks, buffer' = <<>>, table_buffer' = <<>>,
         stack' = PathIn(Append(markdown, line), Len(markdown) + 1)
  PROVE  Reading'
<1> DEFINE bs == AllBlocks
           e == Append(markdown, line)
<1>1. markdown \in Seq(Lines)
  BY ReadingIs
<1>2. PICK fs : PlacedIn(markdown, bs, fs)
  BY DEF Reading
<1>3. line.kind \notin Content /\ line.kind \notin {"row", "separator"}
  BY DEF Content
<1>4. PlacedIn(e, bs, fs)
  BY <1>1, <1>2, <1>3, PlacedStays
<1>5. bs \in Seq(BlockT)
  BY <1>4 DEF PlacedIn
<1>6. stack' \in PathT
  <2>1. e \in Seq(Lines) /\ Len(e) = Len(markdown) + 1 /\ Len(markdown) \in Nat
    BY <1>1, NextLine
  <2>2. Len(markdown) + 1 \in 0..Len(e)
    BY <2>1
  <2>3. PathIn(e, Len(markdown) + 1) \in PathT
    BY <2>1, <2>2, PathNames DEF Names
  <2> QED BY <2>3
<1> HIDE DEF bs
<1>7. <<>> \in TextT
  BY FlatEmpty
<1>8. BlocksOf(bs, <<>>, <<>>, stack') = bs
  BY <1>5, <1>6, <1>7, BlocksAre DEF BlocksFit
<1>9. bs = BlocksOf(blocks', buffer', table_buffer', stack') /\ blocks' \in Seq(BlockT)
  BY <1>5, <1>8 DEF bs
<1> HIDE DEF e
<1>10. \E gs : /\ PlacedIn(e, bs, gs)
               /\ buffer' # <<>> \/ table_buffer' # <<>> => LastEnds(e, bs, gs)
  BY <1>4
<1> QED BY <1>1, <1>3, <1>7, <1>9, <1>10, ReadingNext DEF e

\* The four branches of _split_into_blocks keep the invariant
\* (chunker.py:109-130).
LEMMA HeadingReads ==
  ASSUME Reading, NEW line \in Lines, Heading(line)
  PROVE  Reading'
<1> DEFINE t == Rest(buffer, stack, FALSE)
           r == Rest(table_buffer, stack, TRUE)
<1>1. /\ Read(line) /\ line.kind = "heading" /\ buffer' = <<>> /\ table_buffer' = <<>>
      /\ stack' = Pushed(stack, line.level, line.title)
      /\ blocks' = blocks \o Flushed(buffer, FALSE) \o Flushed(table_buffer, TRUE)
  BY DEF Heading
<1>2. blocks' = AllBlocks
  BY <1>1, Zenon DEF Flushed, AllBlocks, BlocksOf, Rest
<1>3. stack' = PathIn(Append(markdown, line), Len(markdown) + 1)
  BY <1>1, ReadingIs, PathPushed
<1> QED BY <1>1, <1>2, <1>3, ReadingClosed

\* An empty line.
LEMMA BlankLineReads ==
  ASSUME Reading, NEW line \in Lines, BlankLine(line)
  PROVE  Reading'
<1> DEFINE t == Rest(buffer, stack, FALSE)
           r == Rest(table_buffer, stack, TRUE)
<1>1. /\ Read(line) /\ line.kind = "blank" /\ buffer' = <<>> /\ table_buffer' = <<>>
      /\ stack' = stack
      /\ blocks' = blocks \o Flushed(table_buffer, TRUE) \o Flushed(buffer, FALSE)
  BY DEF BlankLine
<1>2. /\ blocks \in Seq(BlockT) /\ t \in Seq(BlockT) /\ r \in Seq(BlockT)
      /\ t = <<>> \/ r = <<>>
      /\ AllBlocks = blocks \o t \o r
  <2>1. /\ blocks \in Seq(BlockT) /\ buffer \in TextT /\ table_buffer \in TextT
        /\ stack \in PathT
        /\ buffer = <<>> \/ table_buffer = <<>>
    BY ReadingIs
  <2>2. /\ t \in Seq(BlockT) /\ r \in Seq(BlockT)
        /\ buffer = <<>> => t = <<>>
        /\ table_buffer = <<>> => r = <<>>
    BY <2>1, BlocksAre DEF BlocksFit
  <2>3. AllBlocks = blocks \o t \o r
    BY Zenon DEF AllBlocks, BlocksOf
  <2> QED BY <2>1, <2>2, <2>3
<1>3. blocks' = blocks \o r \o t
  BY <1>1, Zenon DEF Flushed, Rest
<1> HIDE DEF t, r
<1>4. blocks \o t \o r = blocks \o r \o t
  <2>1. \A x \in Seq(BlockT) : x \o <<>> = x
    BY ConcatEmptySeq
  <2>2. blocks \o t \in Seq(BlockT) /\ blocks \o r \in Seq(BlockT)
    BY <1>2, ConcatProperties
  <2>3. CASE t = <<>>
    <3>1. blocks \o t = blocks /\ (blocks \o r) \o t = blocks \o r
      BY <1>2, <2>1, <2>2, <2>3
    <3> QED BY <3>1
  <2>4. CASE r = <<>>
    <3>1. blocks \o r = blocks /\ (blocks \o t) \o r = blocks \o t
      BY <1>2, <2>1, <2>2, <2>4
    <3> QED BY <3>1
  <2> QED BY <1>2, <2>3, <2>4
<1>5. blocks' = AllBlocks
  BY <1>2, <1>3, <1>4
<1>6. stack' = PathIn(Append(markdown, line), Len(markdown) + 1)
  <2>1. line.kind # "heading"
    BY <1>1
  <2> QED BY <1>1, <2>1, ReadingIs, PathContinues
<1> QED BY <1>1, <1>5, <1>6, ReadingClosed

\* A line of text or a row is read: what is left to show.
LEMMA ContinuesReading ==
  ASSUME Reading, NEW line \in Lines, Read(line), line.kind \in Content, stack' = stack,
         blocks' \in Seq(BlockT), buffer' \in TextT, table_buffer' \in TextT,
         buffer' = <<>> \/ table_buffer' = <<>>,
         table_buffer' = <<>> => line.kind \notin {"row", "separator"},
         NEW bs, bs = BlocksOf(blocks', buffer', table_buffer', stack),
         NEW fs, PlacedIn(Append(markdown, line), bs, fs),
         LastEnds(Append(markdown, line), bs, fs)
  PROVE  Reading'
<1>1. markdown \in Seq(Lines) /\ stack = PathIn(markdown, Len(markdown))
  BY ReadingIs
<1>2. line.kind # "heading"
  BY DEF Content
<1>3. stack' = PathIn(Append(markdown, line), Len(markdown) + 1)
  BY <1>1, <1>2, PathContinues
<1>4. bs = BlocksOf(blocks', buffer', table_buffer', stack')
  OBVIOUS
<1>5. \E gs : /\ PlacedIn(Append(markdown, line), bs, gs)
              /\ buffer' # <<>> \/ table_buffer' # <<>>
                   => LastEnds(Append(markdown, line), bs, gs)
  OBVIOUS
<1> QED BY <1>1, <1>3, <1>4, <1>5, ReadingNext

\* A block with one more line is not empty.
LEMMA NewLine ==
  ASSUME markdown \in Seq(Lines), NEW line \in Lines, NEW text \in TextT
  PROVE  /\ Append(text, AtomsOf(Len(markdown) + 1, line)) \in TextT
         /\ Append(text, AtomsOf(Len(markdown) + 1, line)) # <<>>
<1> DEFINE l == AtomsOf(Len(markdown) + 1, line)
<1>1. l \in LineT
  BY LenProperties, AtomsOfLine
<1> HIDE DEF l
<1>2. Append(text, l) \in TextT /\ Append(text, l) # <<>>
  BY <1>1, AppendProperties DEF TextT
<1> QED BY <1>2 DEF l

\* A line of text ends a table, and opens or continues a paragraph.
LEMMA TextLineReads ==
  ASSUME Reading, NEW line \in Lines, TextLine(line)
  PROVE  Reading'
<1> DEFINE l == AtomsOf(Len(markdown) + 1, line)
           e == Append(markdown, line)
           t == Append(buffer, l)
           c == Block(t, stack, FALSE)
<1>1. /\ Read(line) /\ line.kind = "text" /\ table_buffer' = <<>> /\ buffer' = t
      /\ stack' = stack
      /\ blocks' = blocks \o Rest(table_buffer, stack, TRUE)
  BY Zenon DEF TextLine, Flushed, Rest
<1>2. /\ markdown \in Seq(Lines) /\ blocks \in Seq(BlockT)
      /\ buffer \in TextT /\ table_buffer \in TextT
      /\ stack = PathIn(markdown, Len(markdown)) /\ stack \in PathT
      /\ buffer = <<>> \/ table_buffer = <<>>
      /\ AllBlocks = BlocksOf(blocks, buffer, table_buffer, stack)
  BY ReadingIs
<1>f. BlocksFit(blocks, buffer, table_buffer, stack)
  BY <1>2, BlocksAre
<1>3. PICK fs : /\ PlacedIn(markdown, AllBlocks, fs)
                /\ buffer # <<>> \/ table_buffer # <<>> => LastEnds(markdown, AllBlocks, fs)
  BY DEF Reading
<1>4. t \in TextT /\ t # <<>>
  BY <1>2, NewLine
<1>5. line.kind \in Content /\ line.kind \notin {"row", "separator"} /\ <<>> \in TextT
  BY <1>1, FlatEmpty DEF Content
<1>6. \A done \in Seq(BlockT) : BlocksOf(done, t, <<>>, stack) = Append(done, c)
  <2> SUFFICES ASSUME NEW done \in Seq(BlockT)
               PROVE  BlocksOf(done, t, <<>>, stack) = Append(done, Block(t, stack, FALSE))
    OBVIOUS
  <2> HIDE DEF t
  <2>1. BlocksFit(done, t, <<>>, stack)
    BY <1>2, <1>4, <1>5, BlocksAre
  <2> QED BY <1>4, <2>1, Zenon DEF BlocksFit
<1>7. ASSUME blocks' \in Seq(BlockT),
             NEW gs, PlacedIn(e, Append(blocks', c), gs), LastEnds(e, Append(blocks', c), gs)
      PROVE  Reading'
  <2> DEFINE bs == Append(blocks', c)
  <2>1. bs = BlocksOf(blocks', buffer', table_buffer', stack)
    BY <1>1, <1>6, <1>7
  <2>2. buffer' \in TextT /\ table_buffer' \in TextT
    BY <1>1, <1>4, <1>5
  <2> HIDE DEF bs, c, t
  <2>3. PlacedIn(e, bs, gs) /\ LastEnds(e, bs, gs)
    BY <1>7 DEF bs
  <2> QED BY <1>1, <1>5, <1>7, <2>1, <2>2, <2>3, ContinuesReading
<1>8. CASE buffer # <<>>
  <2> DEFINE b == Block(buffer, stack, FALSE)
  <2>1. table_buffer = <<>>
    BY <1>2, <1>8
  <2>2. AllBlocks = Append(blocks, b)
    BY <1>2, <1>f, <1>8, <2>1, Zenon DEF BlocksFit
  <2>3. blocks' = blocks
    <3>1. Rest(table_buffer, stack, TRUE) = <<>> /\ blocks \o <<>> = blocks
      BY <1>2, <1>f, <2>1, Zenon DEF BlocksFit
    <3> QED BY <1>1, <3>1
  <2>4. PlacedIn(markdown, Append(blocks, b), fs) /\ LastEnds(markdown, Append(blocks, b), fs)
    BY <1>3, <1>8, <2>2
  <2>5. PlacedIn(e, Append(blocks, c), fs) /\ LastEnds(e, Append(blocks, c), fs)
    BY <1>1, <1>2, <1>8, <2>4, Grown
  <2> QED BY <1>2, <1>7, <2>3, <2>5
<1>9. CASE buffer = <<>>
  <2>1. blocks' = AllBlocks
    <3>1. CASE table_buffer = <<>>
      <4>1. /\ Rest(table_buffer, stack, TRUE) = <<>> /\ blocks \o <<>> = blocks
            /\ AllBlocks = blocks
        BY <1>2, <1>f, <1>9, <3>1, Zenon DEF BlocksFit
      <4> QED BY <1>1, <4>1
    <3>2. CASE table_buffer # <<>>
      <4>1. AllBlocks = blocks \o Rest(table_buffer, stack, TRUE)
        BY <1>2, <1>f, <1>9, <3>2, Zenon DEF BlocksFit
      <4> QED BY <1>1, <4>1
    <3> QED BY <3>1, <3>2
  <2>2. PlacedIn(markdown, blocks', fs)
    BY <1>3, <2>1
  <2>3. blocks' \in Seq(BlockT)
    BY <2>2 DEF PlacedIn
  <2>4. \E gs : PlacedIn(e, Append(blocks', c), gs) /\ LastEnds(e, Append(blocks', c), gs)
    BY <1>1, <1>2, <1>9, <2>2, Started
  <2> QED BY <1>7, <2>3, <2>4
<1> QED BY <1>8, <1>9

\* A row ends a paragraph, and opens or continues a table.
LEMMA TableRowReads ==
  ASSUME Reading, NEW line \in Lines, TableRow(line)
  PROVE  Reading'
<1> DEFINE l == AtomsOf(Len(markdown) + 1, line)
           e == Append(markdown, line)
           t == Append(table_buffer, l)
           c == Block(t, stack, TRUE)
<1>1. /\ Read(line) /\ line.kind \in {"row", "separator"}
      /\ buffer' = <<>> /\ table_buffer' = t
      /\ stack' = stack
      /\ blocks' = blocks \o Rest(buffer, stack, FALSE)
  BY Zenon DEF TableRow, Flushed, Rest
<1>2. /\ markdown \in Seq(Lines) /\ blocks \in Seq(BlockT)
      /\ buffer \in TextT /\ table_buffer \in TextT
      /\ stack = PathIn(markdown, Len(markdown)) /\ stack \in PathT
      /\ buffer = <<>> \/ table_buffer = <<>>
      /\ AllBlocks = BlocksOf(blocks, buffer, table_buffer, stack)
  BY ReadingIs
<1>f. BlocksFit(blocks, buffer, table_buffer, stack)
  BY <1>2, BlocksAre
<1>3. PICK fs : /\ PlacedIn(markdown, AllBlocks, fs)
                /\ buffer # <<>> \/ table_buffer # <<>> => LastEnds(markdown, AllBlocks, fs)
  BY DEF Reading
<1>4. t \in TextT /\ t # <<>>
  BY <1>2, NewLine
<1>5. line.kind \in Content /\ <<>> \in TextT
  BY <1>1, FlatEmpty DEF Content
<1>6. \A done \in Seq(BlockT) : BlocksOf(done, <<>>, t, stack) = Append(done, c)
  <2> SUFFICES ASSUME NEW done \in Seq(BlockT)
               PROVE  BlocksOf(done, <<>>, t, stack) = Append(done, Block(t, stack, TRUE))
    OBVIOUS
  <2> HIDE DEF t
  <2>1. BlocksFit(done, <<>>, t, stack)
    BY <1>2, <1>4, <1>5, BlocksAre
  <2> QED BY <1>4, <2>1, Zenon DEF BlocksFit
<1>7. ASSUME blocks' \in Seq(BlockT),
             NEW gs, PlacedIn(e, Append(blocks', c), gs), LastEnds(e, Append(blocks', c), gs)
      PROVE  Reading'
  <2> DEFINE bs == Append(blocks', c)
  <2>1. bs = BlocksOf(blocks', buffer', table_buffer', stack)
    BY <1>1, <1>6, <1>7
  <2>2. buffer' \in TextT /\ table_buffer' \in TextT /\ table_buffer' # <<>>
    BY <1>1, <1>4, <1>5
  <2> HIDE DEF bs, c, t
  <2>3. PlacedIn(e, bs, gs) /\ LastEnds(e, bs, gs)
    BY <1>7 DEF bs
  <2> QED BY <1>1, <1>5, <1>7, <2>1, <2>2, <2>3, ContinuesReading
<1>8. CASE table_buffer # <<>>
  <2> DEFINE b == Block(table_buffer, stack, TRUE)
  <2>1. buffer = <<>>
    BY <1>2, <1>8
  <2>2. AllBlocks = Append(blocks, b)
    BY <1>2, <1>f, <1>8, <2>1, Zenon DEF BlocksFit
  <2>3. blocks' = blocks
    <3>1. Rest(buffer, stack, FALSE) = <<>> /\ blocks \o <<>> = blocks
      BY <1>2, <1>f, <2>1, Zenon DEF BlocksFit
    <3> QED BY <1>1, <3>1
  <2>4. PlacedIn(markdown, Append(blocks, b), fs) /\ LastEnds(markdown, Append(blocks, b), fs)
    BY <1>3, <1>8, <2>2
  <2>5. PlacedIn(e, Append(blocks, c), fs) /\ LastEnds(e, Append(blocks, c), fs)
    <3>1. IF TRUE THEN line.kind \in {"row", "separator"} ELSE line.kind = "text"
      BY <1>1
    <3> QED BY <1>2, <1>8, <2>4, <3>1, Grown
  <2> QED BY <1>2, <1>7, <2>3, <2>5
<1>9. CASE table_buffer = <<>>
  <2>1. blocks' = AllBlocks
    <3>1. CASE buffer = <<>>
      <4>1. /\ Rest(buffer, stack, FALSE) = <<>> /\ blocks \o <<>> = blocks
            /\ AllBlocks = blocks
        BY <1>2, <1>f, <1>9, <3>1, Zenon DEF BlocksFit
      <4> QED BY <1>1, <4>1
    <3>2. CASE buffer # <<>>
      <4>1. AllBlocks = blocks \o Rest(buffer, stack, FALSE)
        BY <1>2, <1>f, <1>9, <3>2, Zenon DEF BlocksFit
      <4> QED BY <1>1, <4>1
    <3> QED BY <3>1, <3>2
  <2>2. PlacedIn(markdown, blocks', fs)
    BY <1>3, <2>1
  <2>3. blocks' \in Seq(BlockT)
    BY <2>2 DEF PlacedIn
  <2>4. Len(markdown) > 0 => ~ RowIn(markdown, Len(markdown))
    BY <1>9 DEF Reading
  <2>5. \E gs : PlacedIn(e, Append(blocks', c), gs) /\ LastEnds(e, Append(blocks', c), gs)
    BY <1>1, <1>2, <1>9, <2>2, <2>4, Started
  <2> QED BY <1>7, <2>3, <2>5
<1> QED BY <1>8, <1>9

\* The parser's invariant is inductive.
LEMMA NextReading ==
  Reading /\ [Next]_vars => Reading'
<1> SUFFICES ASSUME Reading, [Next]_vars PROVE Reading'
  OBVIOUS
<1>1. CASE UNCHANGED vars
  BY <1>1 DEF vars, Reading, AllBlocks
<1>2. CASE Next
  <2>1. PICK line \in Lines :
           Heading(line) \/ TableRow(line) \/ TextLine(line) \/ BlankLine(line)
    BY <1>2 DEF Next
  <2>2. CASE Heading(line)
    BY <2>2, HeadingReads
  <2>3. CASE TableRow(line)
    BY <2>3, TableRowReads
  <2>4. CASE TextLine(line)
    BY <2>4, TextLineReads
  <2>5. CASE BlankLine(line)
    BY <2>5, BlankLineReads
  <2> QED BY <2>1, <2>2, <2>3, <2>4, <2>5
<1> QED BY <1>1, <1>2

-----------------------------------------------------------------------------
(***************************************************************************)
(* What follows of the chunks.                                             *)
(***************************************************************************)

\* What the properties say follows from the parser's invariant.
LEMMA ReadingTypes ==
  Reading => TypeOK
<1> SUFFICES ASSUME Reading PROVE TypeOK
  OBVIOUS
<1>1. /\ markdown \in Seq(Lines) /\ stack \in Seq(Titles)
      /\ buffer = <<>> \/ table_buffer = <<>>
  BY ReadingIs DEF PathT
<1>2. Kept(chunks) /\ \A i \in DOMAIN chunks : chunks[i].ordinal = i - 1
  BY ReadingResult
<1>3. \A i \in DOMAIN chunks : chunks[i].body # <<>>
  BY <1>2, LenProperties DEF Kept, MergedOk
<1> QED BY <1>1, <1>2, <1>3 DEF TypeOK

\* Text is neither lost nor doubled, and carried over from the chunk before.
LEMMA ReadingIsTheDocument ==
  Reading => ChunksAreTheDocument
<1> SUFFICES ASSUME Reading PROVE ChunksAreTheDocument
  OBVIOUS
<1>1. Kept(chunks) /\ Orderly(Bodies(chunks)) /\ ToSet(Bodies(chunks)) = AllAtoms
  BY ReadingResult
<1>2. chunks \in Seq(ChunkT) /\ DOMAIN chunks = 1..Len(chunks) /\ Len(chunks) \in Nat
  BY <1>1, LenProperties DEF Kept
<1>3. Own = Bodies(chunks)
  BY Zenon DEF Own, Bodies
<1>4. DOMAIN Own = 1..Len(Own)
  BY <1>2, <1>3, BodiesTyped, LenProperties
<1>5. \A q \in DOMAIN Own :
         \/ \A p \in 1..(q - 1) : Before(Own[p], Own[q])
         \/ IsHeader(Own[q]) /\ \E p \in 1..(q - 1) : Own[p] = Own[q]
  BY <1>1, <1>3, <1>4, Zenon DEF Orderly
<1>6. ASSUME NEW c \in DOMAIN chunks
      PROVE  ToSet(FlattenSeq(chunks[c].text)) \subseteq
                ToSet(chunks[c].body) \cup (IF c = 1 THEN {} ELSE ToSet(chunks[c - 1].body))
  <2>1. c \in 1..Len(chunks)
    BY <1>2
  <2>2. CASE c = 1
    <3>1. CarriesFrom(chunks[c], {})
      BY <1>1, <2>1, <2>2 DEF Kept
    <3> QED BY <2>2, <3>1 DEF CarriesFrom
  <2>3. CASE c # 1
    <3>1. c > 1
      BY <1>2, <2>1, <2>3
    <3>2. CarriesFrom(chunks[c], ToSet(chunks[c - 1].body))
      BY <1>1, <2>1, <3>1 DEF Kept
    <3> QED BY <2>3, <3>2 DEF CarriesFrom
  <2> QED BY <2>2, <2>3
<1>7. ToSet(Own) = AllAtoms
  BY <1>1, <1>3
<1> QED BY <1>5, <1>6, <1>7, Zenon DEF ChunksAreTheDocument

\* The chunks are sound and of the size allowed.
LEMMA ReadingSound ==
  ASSUME Reading, NEW c \in DOMAIN chunks
  PROVE  Sound(chunks[c].heading_path, ToSet(chunks[c].body)) /\ SizeOk(chunks[c].body)
<1>1. Kept(chunks)
  BY ReadingResult
<1>2. c \in 1..Len(chunks)
  BY <1>1, LenProperties DEF Kept
<1> QED BY <1>1, <1>2 DEF Kept, MergedOk

\* Heading paths and headers.
LEMMA ReadingCites ==
  Reading => CitesItsSection /\ RowsKeepTheirHeader
<1> SUFFICES ASSUME Reading PROVE CitesItsSection /\ RowsKeepTheirHeader
  OBVIOUS
<1>1. \A c \in DOMAIN chunks : Sound(chunks[c].heading_path, ToSet(chunks[c].body))
  BY ReadingSound
<1> QED BY <1>1, Zenon DEF CitesItsSection, RowsKeepTheirHeader, Sound

\* Sizes.
LEMMA ReadingFits ==
  Reading => OnlyUncuttableExceedsTarget
<1> SUFFICES ASSUME Reading PROVE OnlyUncuttableExceedsTarget
  OBVIOUS
<1>1. \A c \in DOMAIN chunks : SizeOk(chunks[c].body)
  BY ReadingSound
<1> QED BY <1>1, Zenon DEF OnlyUncuttableExceedsTarget, SizeOk

-----------------------------------------------------------------------------
(* Theorems. *)

\* The parser's state is that of the lines read: its finished blocks and the
\* open one hold every line of text and every row, in order, each under its
\* headings, and a table ends where its rows end (chunker.py:78-142).
THEOREM ParserReads == Spec => []Reading
<1>1. Init => Reading
  BY InitReading
<1>2. Reading /\ [Next]_vars => Reading'
  BY NextReading
<1> QED BY <1>1, <1>2, PTL DEF Spec

\* The shape of the result: heading paths of the document's own titles, at
\* most one open buffer, chunks numbered from 0 and none empty, for documents
\* of any length, any target, any overlap (chunker.py:109-119, 285-293).
THEOREM TypeCorrect == Spec => []TypeOK
<1>1. Reading => TypeOK
  BY ReadingTypes
<1> QED BY <1>1, ParserReads, PTL

\* chunk_markdown loses nothing of any document, doubles nothing but the
\* headers that the pieces of a table repeat, keeps the order, and carries
\* over only from the chunk just before (chunker.py:187-236, 260-293).
THEOREM ChunksFollowTheDocument == Spec => []ChunksAreTheDocument
<1>1. Reading => ChunksAreTheDocument
  BY ReadingIsTheDocument
<1> QED BY <1>1, ParserReads, PTL

\* The heading path that a chunk is cited with is that of every sentence and
\* row it has of its own, whatever headings the document has
\* (chunker.py:6-7, 17-19, 109-119, 225-230).
THEOREM CitationsNameTheirSection == Spec => []CitesItsSection
<1>1. Reading => CitesItsSection
  BY ReadingCites
<1> QED BY <1>1, ParserReads, PTL

\* However long a table is and wherever it is cut, the chunk that owns a row
\* owns the header of its table (chunker.py:9-15, 145-170).
THEOREM RowsComeWithTheirHeader == Spec => []RowsKeepTheirHeader
<1>1. Reading => RowsKeepTheirHeader
  BY ReadingCites
<1> QED BY <1>1, ParserReads, PTL

\* What a chunk has of its own is over the target only where there is no place
\* to cut it, one sentence over any number of lines or one row with its header,
\* or by one small chunk merged into it: that a second small chunk cannot follow
\* is what 2 * MIN_CHUNK_TOKENS <= TARGET_TOKENS is needed for.  Sizes are the
\* atoms', without what joins them, whatever the joins cost
\* (chunker.py:145-170, 228-232, 239-257, 266-283).
THEOREM SizesAreBounded == Spec => []OnlyUncuttableExceedsTarget
<1>1. Reading => OnlyUncuttableExceedsTarget
  BY ReadingFits
<1> QED BY <1>1, ParserReads, PTL

=============================================================================
