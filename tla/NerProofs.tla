----------------------------- MODULE NerProofs -----------------------------
(***************************************************************************)
(* Proofs about NerTokens: the pieces the model is given spell the words,  *)
(* and the entities are the stretches of words its labels join; about      *)
(* WordOffsets: words are reported where they are in the text; and about   *)
(* NerText: chunks, tags and the merge lose no word and no entity.         *)
(***************************************************************************)
EXTENDS NerTokens, NerText, WordOffsets, DataLemmas

Spellings == Seq(WordLetters \cup {"UNK"})
CutPairs(w) == [at : 1..Len(w) + 1, out : Seq(Spellings)]

(* A piece p at letter b of the word w: as the word is written there, and  *)
(* the longest that fits, unless none does.                                *)
Rightly(d, w, p, b) ==
    /\ p # <<"UNK">> => p = SubSeq(w, b, b + Len(p) - 1)
    /\ \A f \in b + Len(p)..Len(w) : ~InVocabulary(d, b, SubSeq(w, b, f))
(* g tells where each of the pieces ends.                                  *)
Reads(g, d, w, out) ==
    /\ g[0] = 1
    /\ \A i \in 1..Len(out) : g[i] = g[i - 1] + Len(out[i]) /\ Rightly(d, w, out[i], g[i - 1])
Spelt(d, w, out, at) == \E g \in [0..Len(out) -> Nat] : Reads(g, d, w, out) /\ g[Len(out)] = at

LEMMA SpeltAppend ==
    ASSUME NEW d, NEW w, NEW out \in Seq(Spellings), NEW p \in Spellings, NEW at \in Nat,
           Spelt(d, w, out, at), Rightly(d, w, p, at)
    PROVE  Spelt(d, w, Append(out, p), at + Len(p))
<1> DEFINE n == Len(out)
           new == Append(out, p)
<1>1. PICK g \in [0..n -> Nat] : Reads(g, d, w, out) /\ g[n] = at
    BY DEF Spelt
<1>2. /\ n \in Nat /\ Len(new) = n + 1 /\ new[n + 1] = p /\ Len(p) \in Nat
      /\ \A i \in 1..n : new[i] = out[i]
    BY DEF Spellings
<1>3. g[0] = 1 /\ \A i \in 1..n : g[i] = g[i - 1] + Len(out[i]) /\ Rightly(d, w, out[i], g[i - 1])
    BY <1>1 DEF Reads
<1> DEFINE h == [i \in 0..n + 1 |-> IF i <= n THEN g[i] ELSE at + Len(p)]
<1> HIDE DEF n, new
<1>4. /\ h \in [0..n + 1 -> Nat] /\ h[n + 1] = at + Len(p) /\ \A i \in 0..n : h[i] = g[i]
    <2>1. \A i \in 0..n : g[i] \in Nat /\ i \in 0..n + 1 /\ i <= n
        BY <1>1, <1>2
    <2>2. \A i \in 0..n + 1 : (i <= n => i \in 0..n)
        BY <1>2
    <2>3. at + Len(p) \in Nat /\ n + 1 \in 0..n + 1 /\ ~(n + 1 <= n)
        BY <1>2
    <2> QED BY <2>1, <2>2, <2>3
<1> HIDE DEF h
<1>5. h[0] = 1
    BY <1>2, <1>3, <1>4
<1>6. ASSUME NEW i \in 1..n + 1 PROVE h[i] = h[i - 1] + Len(new[i]) /\ Rightly(d, w, new[i], h[i - 1])
    <2>1. CASE i = n + 1
        <3>1. i - 1 = n /\ n \in 0..n
            BY <2>1, <1>2
        <3>2. h[i - 1] = at /\ h[i] = at + Len(p) /\ new[i] = p
            BY <3>1, <2>1, <1>1, <1>2, <1>4
        <3> QED BY <3>2
    <2>2. CASE i # n + 1
        <3>1. i \in 1..n /\ i \in 0..n /\ i - 1 \in 0..n
            BY <2>2, <1>2
        <3>2. h[i] = g[i] /\ h[i - 1] = g[i - 1] /\ new[i] = out[i]
            BY <3>1, <1>2, <1>4
        <3> QED BY <3>1, <3>2, <1>3
    <2> QED BY <2>1, <2>2
<1>7. Reads(h, d, w, new)
    BY <1>2, <1>5, <1>6 DEF Reads
<1> QED BY <1>2, <1>4, <1>7 DEF Spelt, new

(* The next cut is behind, until the word is spelt.                        *)
CutSoFar(d, w, c) == c \in CutPairs(w) /\ Spelt(d, w, c.out, c.at)

LEMMA NextCutIs ==
    ASSUME NEW d, NEW w \in Seq(WordLetters), NEW c, CutSoFar(d, w, c)
    PROVE  /\ CutSoFar(d, w, NextCut(d, w, c))
           /\ c.at <= Len(w) => NextCut(d, w, c).at > c.at
           /\ c.at > Len(w) => NextCut(d, w, c) = c
<1> DEFINE n == Len(w)
           b == c.at
           out == c.out
           fits == Fitting(d, w, b)
           r == NextCut(d, w, c)
<1>1. n \in Nat /\ b \in 1..n + 1 /\ out \in Seq(Spellings) /\ Spelt(d, w, out, b)
    BY DEF CutSoFar, CutPairs
<1>2. r = IF b > n THEN c
          ELSE IF fits = {} THEN [at |-> b + 1, out |-> Append(out, <<"UNK">>)]
          ELSE [at |-> Max(fits) + 1, out |-> Append(out, SubSeq(w, b, Max(fits)))]
    BY DEF NextCut
<1>3. \A e : e \in fits <=> e \in b..n /\ InVocabulary(d, b, SubSeq(w, b, e))
    BY DEF Fitting
<1>3a. b \in Nat
    BY <1>1
<1> HIDE DEF r, fits, out
<1>4. CASE b > n
    <2>1. r = c
        BY <1>2, <1>4
    <2> QED BY <2>1, <1>1, <1>4 DEF r
<1>5. CASE b <= n /\ fits = {}
    <2> DEFINE p == <<"UNK">>
    <2>1. p \in Spellings /\ Len(p) = 1
        BY DEF Spellings
    <2>2. r = [at |-> b + 1, out |-> Append(out, p)]
        BY <1>1, <1>2, <1>5
    <2>3. \A f \in b + 1..n : ~InVocabulary(d, b, SubSeq(w, b, f))
        <3>1. \A f \in b + 1..n : f \in b..n
            BY <1>1
        <3> QED BY <3>1, <1>3, <1>5
    <2>4. Rightly(d, w, p, b)
        BY <2>1, <2>3 DEF Rightly
    <2> HIDE DEF p, b
    <2>5. r.at = b + 1 /\ r.out = Append(out, p)
        BY <2>2
    <2>6. Append(out, p) \in Seq(Spellings)
        BY <2>1, <1>1
    <2>7. Spelt(d, w, r.out, r.at)
        <3>1. Spelt(d, w, Append(out, p), b + Len(p))
            BY <2>1, <2>4, <1>1, <1>3a, SpeltAppend
        <3> QED BY <3>1, <2>1, <2>5
    <2>8. b + 1 \in 1..n + 1 /\ b + 1 > b /\ ~(b > n)
        BY <1>1, <1>5
    <2>9. r \in CutPairs(w)
        BY <2>2, <2>6, <2>8 DEF CutPairs
    <2> QED BY <2>5, <2>7, <2>8, <2>9 DEF CutSoFar, r, b
<1>6. CASE b <= n /\ fits # {}
    <2> DEFINE m == Max(fits)
    <2>1. m \in fits /\ \A e \in fits : e <= m
        <3>1. \A e \in fits : e \in Nat /\ e <= n
            BY <1>1, <1>3
        <3>1a. fits \in SUBSET (1..n)
            BY <1>1, <1>3
        <3>2. \E e \in fits : \A f \in fits : f <= e
            BY <3>1a, <1>1, <1>6, GreatestExists
        <3>2a. PICK e \in fits : \A f \in fits : f <= e
            BY <3>2
        <3>2b. \A f \in fits : e >= f
            BY <3>1, <3>2a
        <3>3. m \in fits /\ \A f \in fits : m >= f
            BY <3>2a, <3>2b DEF Max
        <3> HIDE DEF m
        <3> QED BY <3>1, <3>3
    <2> HIDE DEF m
    <2>2. m \in b..n /\ m \in Nat
        BY <2>1, <1>1, <1>3
    <2> DEFINE p == SubSeq(w, b, m)
    <2>3. p \in Seq(WordLetters) /\ Len(p) = m - b + 1
        BY <2>2, <1>1
    <2>4. p \in Spellings
        <3> HIDE DEF p
        <3>1. \A S, T : S \subseteq T => Seq(S) \subseteq Seq(T)
            <4> SUFFICES ASSUME NEW S, NEW T, S \subseteq T, NEW s \in Seq(S) PROVE s \in Seq(T)
                OBVIOUS
            <4> QED OBVIOUS
        <3>2. WordLetters \subseteq WordLetters \cup {"UNK"}
            OBVIOUS
        <3> QED BY <3>1, <3>2, <2>3 DEF Spellings
    <2>5. r = [at |-> m + 1, out |-> Append(out, p)]
        BY <1>1, <1>2, <1>6 DEF m
    <2>6. b + Len(p) = m + 1 /\ b + Len(p) - 1 = m
        <3> DEFINE x == Len(p)
        <3>1. x = m - b + 1
            BY <2>3
        <3> HIDE DEF p, b, x
        <3>2. b + x = m + 1 /\ b + x - 1 = m
            BY <3>1, <2>2, <1>3a
        <3> QED BY <3>2 DEF x
    <2>7. \A f \in m + 1..n : ~InVocabulary(d, b, SubSeq(w, b, f))
        <3> SUFFICES ASSUME NEW f \in m + 1..n, InVocabulary(d, b, SubSeq(w, b, f)) PROVE FALSE
            OBVIOUS
        <3>1. f \in b..n /\ ~(f <= m)
            BY <2>2, <1>1
        <3>2. f \in fits
            BY <3>1, <1>3
        <3> QED BY <3>1, <3>2, <2>1
    <2>8. Rightly(d, w, p, b)
        <3>1. p = SubSeq(w, b, b + Len(p) - 1)
            BY <2>6
        <3>2. \A f \in b + Len(p)..n : ~InVocabulary(d, b, SubSeq(w, b, f))
            BY <2>6, <2>7
        <3> HIDE DEF p
        <3> QED BY <3>1, <3>2 DEF Rightly
    <2> HIDE DEF p, b
    <2>9. r.at = m + 1 /\ r.out = Append(out, p)
        BY <2>5
    <2>10. Append(out, p) \in Seq(Spellings)
        BY <2>4, <1>1
    <2>11. Spelt(d, w, r.out, r.at)
        <3>1. Spelt(d, w, Append(out, p), b + Len(p))
            BY <2>4, <2>8, <1>1, <1>3a, SpeltAppend
        <3> QED BY <3>1, <2>6, <2>9
    <2>12. m + 1 \in 1..n + 1 /\ m + 1 > b /\ ~(b > n)
        BY <2>2, <1>1, <1>6
    <2>13. r \in CutPairs(w)
        BY <2>5, <2>10, <2>12 DEF CutPairs
    <2> QED BY <2>9, <2>11, <2>12, <2>13 DEF CutSoFar, r, b
<1> QED BY <1>1, <1>4, <1>5, <1>6

(* f has the cuts of w, one after another.                                 *)
CutsOf(f, d, w) ==
    /\ \A n \in 0..Len(w) : CutSoFar(d, w, f[n])
    /\ f[0].at = 1
    /\ \A n \in 1..Len(w) : f[n] = NextCut(d, w, f[n - 1])
    /\ WordpieceSegment(d, w) = f[Len(w)].out

LEMMA CutsExist ==
    ASSUME NEW d, NEW w \in Seq(WordLetters)
    PROVE  \E f : CutsOf(f, d, w)
<1> DEFINE N    == Len(w)
           CutSet == {c \in CutPairs(w) : CutSoFar(d, w, c)}
           base == [at |-> 1, out |-> <<>>]
           Step(n, v) == NextCut(d, w, v)
           step == [p \in (0 + 1..N) \X CutSet |-> Step(p[1], p[2])]
           F(f) == [n \in 0..N |-> IF n = 0 THEN base ELSE Step(n, f[n - 1])]
           f    == CHOOSE g : g = F(g)
<1>0. WordpieceSegment(d, w) = f[N].out
    BY DEF WordpieceSegment
<1>1. N \in Nat /\ N \in Int /\ 0 \in Int /\ 0 <= N
    OBVIOUS
<1>2. base \in CutSet
    <2>1. base \in CutPairs(w) /\ base.at = 1 /\ base.out = <<>> /\ Len(<<>>) = 0
        BY <1>1 DEF CutPairs
    <2> DEFINE g == [i \in 0..0 |-> 1]
    <2>2. g \in [0..0 -> Nat] /\ g[0] = 1
        OBVIOUS
    <2>3. Reads(g, d, w, <<>>)
        BY <2>2 DEF Reads
    <2> HIDE DEF g
    <2>4. Spelt(d, w, <<>>, 1)
        BY <2>1, <2>2, <2>3 DEF Spelt
    <2> QED BY <2>1, <2>4 DEF CutSoFar
<1>3. ASSUME NEW n \in 1..N, NEW v \in CutSet PROVE Step(n, v) \in CutSet
    <2>1. CutSoFar(d, w, NextCut(d, w, v))
        BY NextCutIs
    <2> QED BY <2>1 DEF CutSoFar
<1>3a. \A v \in CutSet : CutSoFar(d, w, v)
    OBVIOUS
<1>3b. base.at = 1
    OBVIOUS
<1> HIDE DEF base, Step, CutSet
<1>4. step \in [(0 + 1..N) \X CutSet -> CutSet]
    <2> HIDE DEF N
    <2>1. 0 + 1..N = 1..N
        BY <1>1
    <2> QED BY <2>1, <1>3
<1>5. PICK g \in [0..N -> CutSet] : Recursion(g, 0, N, base, step)
    <2> HIDE DEF N, step, F, f
    <2> QED BY <1>1, <1>2, <1>4, RecursionExists
<1>6. g[0] = base
    BY <1>5 DEF Recursion
<1>7. ASSUME NEW n \in 1..N PROVE g[n] = Step(n, g[n - 1])
    <2>1. n \in 0 + 1..N /\ n - 1 \in 0..N
        BY <1>1
    <2>2. <<n, g[n - 1]>> \in (0 + 1..N) \X CutSet /\ g[n] = step[<<n, g[n - 1]>>]
        <3> HIDE DEF step, N
        <3> QED BY <2>1, <1>5 DEF Recursion
    <2> HIDE DEF N
    <2>3. step[<<n, g[n - 1]>>] = Step(n, g[n - 1])
        BY <2>2
    <2> HIDE DEF step
    <2> QED BY <2>2, <2>3
<1>8. g = F(g)
    <2> HIDE DEF step, N
    <2>1. \A n \in 0..N : g[n] = F(g)[n]
        <3> SUFFICES ASSUME NEW n \in 0..N PROVE g[n] = F(g)[n]
            OBVIOUS
        <3>1. CASE n = 0
            BY <1>6, <3>1
        <3>2. CASE n # 0
            <4>1. n \in 1..N
                BY <1>1, <3>2
            <4> QED BY <1>7, <3>2, <4>1
        <3> HIDE DEF F
        <3> QED BY <3>1, <3>2
    <2> QED BY <1>5, <2>1
<1>9. f = F(f)
    <2> HIDE DEF F
    <2> QED BY <1>8
<1> HIDE DEF f
<1>10. f[0] = base
    <2> HIDE DEF N
    <2> QED BY <1>1, <1>9
<1>11. ASSUME NEW n \in 1..N PROVE f[n] = Step(n, f[n - 1])
    <2>1. n \in 0..N /\ n # 0
        BY <1>1
    <2> HIDE DEF N
    <2> QED BY <1>9, <2>1
<1>12. \A n \in 0..N : f[n] \in CutSet
    <2> DEFINE T == {n \in 0..N : f[n] \in CutSet}
    <2>1. 0 \in T
        <3> HIDE DEF N
        <3> QED BY <1>1, <1>2, <1>10
    <2>2. ASSUME NEW n \in 0..N - 1, n \in T PROVE n + 1 \in T
        <3>1. n + 1 \in 1..N /\ n + 1 \in 0..N /\ (n + 1) - 1 = n /\ f[n] \in CutSet
            BY <2>2, <1>1
        <3> HIDE DEF N
        <3>2. f[n + 1] = Step(n + 1, f[n])
            BY <3>1, <1>11
        <3> QED BY <3>1, <3>2, <1>3
    <2>3. 0..N \subseteq T
        <3> HIDE DEF T, N
        <3> QED BY <1>1, <2>1, <2>2, IntervalInduction
    <2> QED BY <2>3
<1>13. CutsOf(f, d, w)
    BY <1>0, <1>3a, <1>3b, <1>10, <1>11, <1>12 DEF CutsOf, Step
<1> QED BY <1>13

(* A word is spelt by its pieces.                                          *)
LEMMA SegmentIs ==
    ASSUME NEW d, NEW w \in Seq(WordLetters)
    PROVE  /\ WordpieceSegment(d, w) \in Seq(Spellings)
           /\ Spelt(d, w, WordpieceSegment(d, w), Len(w) + 1)
           /\ w # <<>> => Len(WordpieceSegment(d, w)) > 0
<1> DEFINE N == Len(w)
           ps == WordpieceSegment(d, w)
<1>1. PICK f : CutsOf(f, d, w)
    BY CutsExist
<1>2. N \in Nat /\ N \in Int /\ 0 \in Int
    OBVIOUS
<1>3. /\ \A n \in 0..N : CutSoFar(d, w, f[n])
      /\ f[0].at = 1 /\ ps = f[N].out
      /\ \A n \in 1..N : f[n] = NextCut(d, w, f[n - 1])
    BY <1>1 DEF CutsOf
<1>4. ASSUME NEW n \in 0..N PROVE f[n].at \in 1..N + 1 /\ f[n].at \in Nat
    BY <1>2, <1>3 DEF CutSoFar, CutPairs
<1> HIDE DEF N
<1> DEFINE T == {n \in 0..N : f[n].at > n \/ f[n].at = N + 1}
<1>5. 0 \in T
    BY <1>2, <1>3
<1>6. ASSUME NEW n \in 0..N - 1, n \in T PROVE n + 1 \in T
    <2>1. n + 1 \in 1..N /\ n + 1 \in 0..N /\ (n + 1) - 1 = n /\ n \in 0..N
        BY <1>2
    <2> DEFINE a == f[n].at
               b == f[n + 1].at
    <2>2. a \in 1..N + 1 /\ b \in 1..N + 1
        BY <2>1, <1>4
    <2>3. CutSoFar(d, w, f[n]) /\ f[n + 1] = NextCut(d, w, f[n])
        BY <2>1, <1>3
    <2>4. (a <= N => b > a) /\ (a > N => b = a)
        BY <2>3, NextCutIs DEF N
    <2>5. a > n \/ a = N + 1
        BY <1>6
    <2> HIDE DEF a, b
    <2>6. b > n + 1 \/ b = N + 1
        BY <2>2, <2>4, <2>5, <1>2
    <2> QED BY <2>1, <2>6 DEF b
<1>7. 0..N \subseteq T
    <2> HIDE DEF T
    <2> QED BY <1>2, <1>5, <1>6, IntervalInduction
<1>8. f[N].at = N + 1
    <2> DEFINE a == f[N].at
    <2>1. N \in 0..N
        BY <1>2
    <2>2. a \in 1..N + 1 /\ (a > N \/ a = N + 1)
        BY <2>1, <1>4, <1>7
    <2> HIDE DEF a
    <2>3. a = N + 1
        BY <2>2, <1>2
    <2> QED BY <2>3 DEF a
<1>9. ps \in Seq(Spellings) /\ Spelt(d, w, ps, N + 1)
    <2>1. CutSoFar(d, w, f[N])
        BY <1>2, <1>3
    <2> QED BY <2>1, <1>3, <1>8 DEF CutSoFar, CutPairs
<1>10. ASSUME w # <<>> PROVE Len(ps) > 0
    <2>1. Len(ps) \in Nat
        BY <1>9
    <2>2. N > 0
        BY <1>10, <1>2 DEF N
    <2>3. PICK g \in [0..Len(ps) -> Nat] : Reads(g, d, w, ps) /\ g[Len(ps)] = N + 1
        BY <1>9 DEF Spelt
    <2>4. g[0] = 1
        BY <2>3 DEF Reads
    <2> HIDE DEF ps
    <2> QED BY <2>1, <2>2, <2>3, <2>4, <1>2
<1> QED BY <1>9, <1>10 DEF N

PieceRecs == [word : Nat, piece : Spellings]
(* The word k as the vocabulary has it.                                    *)
WordAsRead(k) == IF Cased(modelDir) THEN wordsRead[k] ELSE Lowercase(wordsRead[k])
(* The words of the text are words.                                        *)
HasWords == wordsRead \in Seq(Seq(WordLetters) \ {<<>>})

LEMMA WordAsReadIs ==
    ASSUME HasWords, NEW k \in 1..Len(wordsRead)
    PROVE  WordAsRead(k) \in Seq(WordLetters) /\ WordAsRead(k) # <<>>
<1> DEFINE w == wordsRead[k]
<1>1. w \in Seq(WordLetters) /\ w # <<>>
    BY DEF HasWords
<1> HIDE DEF w
<1>2. Len(w) \in Nat /\ Len(w) # 0 /\ \A i \in 1..Len(w) : w[i] \in WordLetters
    BY <1>1
<1> DEFINE v == [i \in 1..Len(w) |-> IF w[i] = "A" THEN "a" ELSE w[i]]
<1>3. v = Lowercase(w)
    BY <1>1 DEF Lowercase
<1>4. v \in Seq(WordLetters) /\ Len(v) = Len(w)
    <2>1. \A i \in 1..Len(w) : (IF w[i] = "A" THEN "a" ELSE w[i]) \in WordLetters
        BY <1>2 DEF WordLetters
    <2> QED BY <2>1, <1>2
<1> HIDE DEF v
<1>5. v # <<>>
    BY <1>2, <1>4
<1> QED BY <1>1, <1>3, <1>4, <1>5 DEF WordAsRead, w

LEMMA LabelledIs ==
    ASSUME HasWords, NEW k \in 1..Len(wordsRead)
    PROVE  /\ LabelledPieces(k) \in Seq(PieceRecs) /\ Len(LabelledPieces(k)) > 0
           /\ \A i \in 1..Len(LabelledPieces(k)) : LabelledPieces(k)[i].word = k
           /\ \E g \in [0..Len(LabelledPieces(k)) -> Nat] :
                 /\ g[0] = 1 /\ g[Len(LabelledPieces(k))] = Len(WordAsRead(k)) + 1
                 /\ \A i \in 1..Len(LabelledPieces(k)) :
                       /\ g[i] = g[i - 1] + Len(LabelledPieces(k)[i].piece)
                       /\ Rightly(modelDir, WordAsRead(k), LabelledPieces(k)[i].piece, g[i - 1])
<1> DEFINE w == WordAsRead(k)
           q == WordpieceSegment(modelDir, w)
           r == [i \in 1..Len(q) |-> [word |-> k, piece |-> q[i]]]
<1>1. w \in Seq(WordLetters) /\ w # <<>>
    BY WordAsReadIs
<1>2. PiecesOf(modelDir, wordsRead[k]) = q
    BY DEF PiecesOf, WordAsRead
<1> HIDE DEF w
<1>3. q \in Seq(Spellings) /\ Spelt(modelDir, w, q, Len(w) + 1) /\ Len(q) > 0
    BY <1>1, SegmentIs
<1> HIDE DEF q
<1>4. Len(q) \in Nat /\ DOMAIN q = 1..Len(q) /\ \A i \in 1..Len(q) : q[i] \in Spellings
    BY <1>3
<1>5. LabelledPieces(k) = r
    BY <1>2, <1>4 DEF LabelledPieces
<1>6. k \in Nat
    BY DEF HasWords
<1>7. r \in Seq(PieceRecs) /\ Len(r) = Len(q)
    <2>1. \A i \in 1..Len(q) : [word |-> k, piece |-> q[i]] \in PieceRecs
        BY <1>4, <1>6 DEF PieceRecs
    <2> QED BY <2>1, <1>4
<1>8. \A i \in 1..Len(q) : r[i].word = k /\ r[i].piece = q[i]
    BY <1>4
<1> HIDE DEF r
<1>9. PICK g \in [0..Len(q) -> Nat] : Reads(g, modelDir, w, q) /\ g[Len(q)] = Len(w) + 1
    BY <1>3 DEF Spelt
<1>10. /\ g[0] = 1
       /\ \A i \in 1..Len(q) : g[i] = g[i - 1] + Len(q[i]) /\ Rightly(modelDir, w, q[i], g[i - 1])
    BY <1>9 DEF Reads
<1>11. \A i \in 1..Len(r) : /\ g[i] = g[i - 1] + Len(r[i].piece)
                            /\ Rightly(modelDir, w, r[i].piece, g[i - 1])
    BY <1>7, <1>8, <1>10
<1>12. /\ r \in Seq(PieceRecs) /\ Len(r) > 0 /\ \A i \in 1..Len(r) : r[i].word = k
       /\ g \in [0..Len(r) -> Nat] /\ g[0] = 1 /\ g[Len(r)] = Len(w) + 1
    BY <1>3, <1>7, <1>8, <1>9, <1>10
<1>13. \E h \in [0..Len(r) -> Nat] :
          /\ h[0] = 1 /\ h[Len(r)] = Len(w) + 1
          /\ \A i \in 1..Len(r) : /\ h[i] = h[i - 1] + Len(r[i].piece)
                                  /\ Rightly(modelDir, w, r[i].piece, h[i - 1])
    BY <1>11, <1>12
<1> QED BY <1>5, <1>12, <1>13 DEF w

(* The pieces of one word, in a sequence of pieces.                        *)
OfWord(k) == {p \in PieceRecs : p.word = k}
(* The first piece is of the first word, and each next one of the same word*)
(* as the one before or of the next.                                       *)
SteadyPieces(ps) ==
    /\ ps \in Seq(PieceRecs)
    /\ Len(ps) > 0 => ps[1].word = 1
    /\ \A i \in 1..Len(ps) - 1 : ps[i + 1].word = ps[i].word \/ ps[i + 1].word = ps[i].word + 1

UpTo(n) == FlattenSeq([k \in 1..n |-> LabelledPieces(k)])
Complete(ps, n) ==
    /\ SteadyPieces(ps)
    /\ Len(ps) > 0 <=> n > 0
    /\ n > 0 => ps[Len(ps)].word = n
    /\ \A k \in 1..Len(wordsRead) : Those(ps, OfWord(k)) = IF k <= n THEN LabelledPieces(k) ELSE <<>>

LEMMA SteadyConcat ==
    ASSUME NEW s, NEW t, SteadyPieces(s), t \in Seq(PieceRecs), Len(t) > 0, NEW n \in Nat,
           Len(s) > 0 <=> n > 0, n > 0 => s[Len(s)].word = n,
           \A i \in 1..Len(t) : t[i].word = n + 1
    PROVE  SteadyPieces(s \o t) /\ Len(s \o t) > 0 /\ (s \o t)[Len(s \o t)].word = n + 1
<1> DEFINE u == s \o t
           a == Len(s)
           b == Len(t)
<1>1. /\ s \in Seq(PieceRecs) /\ a \in Nat /\ b \in Nat /\ b > 0
      /\ a > 0 => s[1].word = 1
      /\ \A i \in 1..a - 1 : s[i + 1].word = s[i].word \/ s[i + 1].word = s[i].word + 1
    BY DEF SteadyPieces
<1>2. /\ u \in Seq(PieceRecs) /\ Len(u) = a + b
      /\ \A i \in 1..a : u[i] = s[i]
      /\ \A i \in 1..b : u[a + i] = t[i]
    BY <1>1, ConcatElements
<1> HIDE DEF u, a, b
<1>3. a > 0 <=> n > 0
    BY DEF a
<1>4. \A i \in 1..b : u[a + i].word = n + 1
    BY <1>2 DEF b
<1>5. u[1].word = 1
    <2>1. CASE a > 0
        BY <2>1, <1>1, <1>2
    <2>2. CASE a = 0
        <3>1. n = 0 /\ 1 \in 1..b /\ a + 1 = 1
            BY <2>2, <1>1, <1>3
        <3> QED BY <3>1, <1>4
    <2> QED BY <2>1, <2>2, <1>1
<1>6. ASSUME NEW i \in 1..a + b - 1
      PROVE  u[i + 1].word = u[i].word \/ u[i + 1].word = u[i].word + 1
    <2>1. CASE i < a
        <3>1. i \in 1..a - 1 /\ i \in 1..a /\ i + 1 \in 1..a
            BY <2>1, <1>1
        <3> QED BY <3>1, <1>1, <1>2
    <2>2. CASE i = a
        <3>1. a > 0 /\ a \in 1..a /\ 1 \in 1..b
            BY <2>2, <1>1
        <3>2. s[a].word = n
            BY <3>1, <1>3 DEF a
        <3>3. u[a].word = n /\ u[a + 1].word = n + 1
            BY <3>1, <3>2, <1>2, <1>4
        <3> QED BY <3>3, <2>2
    <2>3. CASE i > a
        <3>1. i - a \in 1..b /\ i + 1 - a \in 1..b /\ a + (i - a) = i /\ a + (i + 1 - a) = i + 1
            BY <2>3, <1>1
        <3>2. u[a + (i - a)].word = n + 1 /\ u[a + (i + 1 - a)].word = n + 1
            BY <3>1, <1>4
        <3> QED BY <3>1, <3>2
    <2> QED BY <2>1, <2>2, <2>3, <1>1
<1>7. b \in 1..b /\ u[a + b].word = n + 1 /\ Len(u) > 0
    BY <1>1, <1>2, <1>4
<1>8. SteadyPieces(u)
    <2>1. \A i \in 1..Len(u) - 1 : u[i + 1].word = u[i].word \/ u[i + 1].word = u[i].word + 1
        <3> SUFFICES ASSUME NEW i \in 1..Len(u) - 1
                     PROVE  u[i + 1].word = u[i].word \/ u[i + 1].word = u[i].word + 1
            OBVIOUS
        <3>1. Len(u) = a + b
            BY <1>2
        <3>2. i \in 1..a + b - 1
            BY <3>1, <1>1
        <3> QED BY <3>2, <1>6
    <2> QED BY <2>1, <1>2, <1>5 DEF SteadyPieces
<1>9. u[Len(u)].word = n + 1
    BY <1>2, <1>7
<1> QED BY <1>7, <1>8, <1>9 DEF u

(* All the pieces: those of each word, word after word.                    *)
LEMMA AllPiecesAre ==
    ASSUME HasWords
    PROVE  Complete(AllPieces, Len(wordsRead))
<1> DEFINE N == Len(wordsRead)
<1>1. N \in Nat /\ N \in Int /\ 0 \in Int /\ DOMAIN wordsRead = 1..N
    BY DEF HasWords
<1>2. AllPieces = UpTo(N)
    BY <1>1 DEF AllPieces, UpTo
<1>3. \A k \in 1..N : /\ LabelledPieces(k) \in Seq(PieceRecs) /\ Len(LabelledPieces(k)) > 0
                      /\ \A i \in 1..Len(LabelledPieces(k)) : LabelledPieces(k)[i].word = k
    BY LabelledIs
<1> HIDE DEF N
<1> DEFINE T == {n \in 0..N : Complete(UpTo(n), n)}
<1>4. 0 \in T
    <2>1. UpTo(0) = <<>>
        <3>1. [k \in 1..0 |-> LabelledPieces(k)] = <<>>
            OBVIOUS
        <3> QED BY <3>1, FlattenOfNone DEF UpTo
    <2>2. \A k : Those(<<>>, OfWord(k)) = <<>>
        BY ThoseOfNone
    <2>3. \A k \in 1..N : ~(k <= 0)
        BY <1>1
    <2>4. SteadyPieces(<<>>)
        BY DEF SteadyPieces
    <2> QED BY <2>1, <2>2, <2>3, <2>4, <1>1 DEF Complete, N
<1>5. ASSUME NEW n \in 0..N - 1, n \in T PROVE n + 1 \in T
    <2>1. n + 1 \in 1..N /\ n + 1 \in 0..N /\ n \in Nat /\ 1..n \subseteq 1..N
        BY <1>1
    <2> DEFINE ss == [k \in 1..n |-> LabelledPieces(k)]
               s == UpTo(n)
               t == LabelledPieces(n + 1)
    <2>2. ss \in Seq(Seq(PieceRecs)) /\ t \in Seq(PieceRecs)
        BY <2>1, <1>3
    <2>3. [k \in 1..n + 1 |-> LabelledPieces(k)] = Append(ss, t)
        BY <2>1
    <2>4. UpTo(n + 1) = s \o t
        <3> HIDE DEF ss, t
        <3>1. FlattenSeq(Append(ss, t)) = FlattenSeq(ss) \o t
            BY <2>2, FlattenOfAppend
        <3> QED BY <3>1, <2>3 DEF UpTo, ss
    <2>5. /\ SteadyPieces(s) /\ (Len(s) > 0 <=> n > 0) /\ (n > 0 => s[Len(s)].word = n)
          /\ \A k \in 1..N : Those(s, OfWord(k)) = IF k <= n THEN LabelledPieces(k) ELSE <<>>
        BY <1>5 DEF Complete, N
    <2>6. Len(t) > 0 /\ \A i \in 1..Len(t) : t[i].word = n + 1
        BY <2>1, <1>3
    <2> HIDE DEF s, t, ss
    <2>7. SteadyPieces(s \o t) /\ Len(s \o t) > 0 /\ (s \o t)[Len(s \o t)].word = n + 1
        BY <2>1, <2>2, <2>5, <2>6, SteadyConcat
    <2>8. s \in Seq(PieceRecs)
        BY <2>5 DEF SteadyPieces
    <2>9. \A x \in ToSet(t) : x \in PieceRecs /\ x.word = n + 1
        <3>1. \A x \in ToSet(t) : \E i \in 1..Len(t) : x = t[i]
            BY <2>2, ToSetElements
        <3>2. ToSet(t) \subseteq PieceRecs
            BY <2>2, ToSetElements
        <3> QED BY <3>1, <3>2, <2>6
    <2>10. ASSUME NEW k \in 1..N
           PROVE  Those(s \o t, OfWord(k)) = IF k <= n + 1 THEN LabelledPieces(k) ELSE <<>>
        <3>1. Those(s \o t, OfWord(k)) = Those(s, OfWord(k)) \o Those(t, OfWord(k))
            BY <2>2, <2>8, ThoseOfConcat
        <3>2. CASE k = n + 1
            <4>1. ToSet(t) \subseteq OfWord(k)
                BY <2>9, <3>2 DEF OfWord
            <4>2. Those(t, OfWord(k)) = t
                BY <4>1, <2>2, ThoseOfAll
            <4>3. Those(s, OfWord(k)) = <<>>
                BY <2>1, <2>5, <3>2
            <4>4. <<>> \o t = t
                BY <2>2
            <4>5. LabelledPieces(k) = t /\ k <= n + 1
                BY <3>2, <2>1 DEF t
            <4> QED BY <3>1, <4>2, <4>3, <4>4, <4>5
        <3>3. CASE k # n + 1
            <4>1. ToSet(t) \cap OfWord(k) = {}
                BY <2>9, <3>3 DEF OfWord
            <4>2. Those(t, OfWord(k)) = <<>>
                BY <4>1, <2>2, ThoseOfOthers
            <4>3. k <= n <=> k <= n + 1
                BY <3>3, <2>1, <1>1
            <4>4. Those(s, OfWord(k)) \in Seq(PieceRecs)
                <5>1. Those(s, OfWord(k)) \in Seq(PieceRecs \cap OfWord(k))
                    BY <2>8, ThoseElements
                <5>2. PieceRecs \cap OfWord(k) = OfWord(k) /\ OfWord(k) \subseteq PieceRecs
                    BY DEF OfWord
                <5>3. \A S, Z : S \subseteq Z => Seq(S) \subseteq Seq(Z)
                    <6> SUFFICES ASSUME NEW S, NEW Z, S \subseteq Z, NEW z \in Seq(S) PROVE z \in Seq(Z)
                        OBVIOUS
                    <6> QED OBVIOUS
                <5> QED BY <5>1, <5>2, <5>3
            <4>5. Those(s, OfWord(k)) \o <<>> = Those(s, OfWord(k))
                BY <4>4
            <4> QED BY <3>1, <4>2, <4>3, <4>5, <2>5
        <3> QED BY <3>2, <3>3
    <2>11. Complete(s \o t, n + 1)
        <3>1. n + 1 > 0
            BY <2>1
        <3> QED BY <3>1, <2>7, <2>10 DEF Complete, N
    <2> QED BY <2>1, <2>4, <2>11
<1>6. 0..N \subseteq T
    <2> HIDE DEF T
    <2> QED BY <1>1, <1>4, <1>5, IntervalInduction
<1>7. Complete(UpTo(N), N)
    BY <1>1, <1>6
<1> QED BY <1>2, <1>7 DEF N

(* The words of steady pieces only rise, and none is passed over.          *)
LEMMA SteadyRises ==
    ASSUME NEW ps, SteadyPieces(ps)
    PROVE  /\ \A i, j \in 1..Len(ps) : i <= j => ps[i].word <= ps[j].word
           /\ \A i \in 1..Len(ps) : \A k \in 1..ps[i].word : \E j \in 1..i : ps[j].word = k
           /\ \A i \in 1..Len(ps) : ps[i].word \in Nat /\ ps[i].word >= 1
<1> DEFINE L == Len(ps)
           W(i) == ps[i].word
<1>1. /\ L \in Nat /\ L \in Int /\ 1 \in Int
      /\ \A i \in 1..L : W(i) \in Nat
      /\ L > 0 => W(1) = 1
      /\ \A i \in 1..L - 1 : W(i + 1) = W(i) \/ W(i + 1) = W(i) + 1
    <2>1. ps \in Seq(PieceRecs)
        BY DEF SteadyPieces
    <2>2. L \in Nat /\ \A i \in 1..L : ps[i] \in PieceRecs
        BY <2>1
    <2>3. \A i \in 1..L : W(i) \in Nat
        BY <2>2 DEF PieceRecs
    <2>4. /\ L > 0 => W(1) = 1
          /\ \A i \in 1..L - 1 : W(i + 1) = W(i) \/ W(i + 1) = W(i) + 1
        BY DEF SteadyPieces
    <2> QED BY <2>2, <2>3, <2>4
<1> HIDE DEF L, W
<1>2. ASSUME NEW i \in 1..L, NEW j \in 1..L, i <= j PROVE W(i) <= W(j)
    <2> DEFINE T == {m \in i..L : W(i) <= W(m)}
    <2>1. i \in T
        BY <1>1
    <2>2. ASSUME NEW m \in i..L - 1, m \in T PROVE m + 1 \in T
        <3>1. m \in 1..L - 1 /\ m \in 1..L /\ m + 1 \in 1..L /\ m + 1 \in i..L
            BY <1>1
        <3>2. W(m) \in Nat /\ W(i) \in Nat /\ W(m + 1) \in Nat /\ W(i) <= W(m)
            BY <3>1, <2>2, <1>1
        <3>3. W(m + 1) = W(m) \/ W(m + 1) = W(m) + 1
            BY <3>1, <1>1
        <3>4. W(i) <= W(m + 1)
            BY <3>2, <3>3
        <3> QED BY <3>1, <3>4
    <2>3. i..L \subseteq T
        <3>1. i \in Int /\ L \in Int
            BY <1>1
        <3> HIDE DEF T
        <3> QED BY <3>1, <2>1, <2>2, IntervalInduction
    <2>4. j \in i..L
        BY <1>1, <1>2
    <2> QED BY <2>3, <2>4
<1> DEFINE R == {i \in 1..L : \A k \in 1..W(i) : \E j \in 1..i : W(j) = k}
<1>3. L >= 1 => 1 \in R
    BY <1>1
<1>4. ASSUME NEW i \in 1..L - 1, i \in R PROVE i + 1 \in R
    <2>1. i \in 1..L /\ i + 1 \in 1..L /\ W(i) \in Nat
        BY <1>1
    <2>2. ASSUME NEW k \in 1..W(i + 1) PROVE \E j \in 1..i + 1 : W(j) = k
        <3>1. CASE k = W(i + 1)
            BY <3>1, <2>1
        <3>2. CASE k # W(i + 1)
            <4>1. k \in 1..W(i)
                BY <3>2, <2>1, <1>1
            <4>2. PICK j \in 1..i : W(j) = k
                BY <4>1, <1>4
            <4>3. j \in 1..i + 1
                BY <2>1
            <4> QED BY <4>2, <4>3
        <3> QED BY <3>1, <3>2
    <2> QED BY <2>1, <2>2
<1>5. 1..L \subseteq R
    <2> HIDE DEF R
    <2> QED BY <1>1, <1>3, <1>4, IntervalInduction
<1>6. \A i \in 1..L : W(i) >= 1
    <2> SUFFICES ASSUME NEW i \in 1..L PROVE W(i) >= 1
        OBVIOUS
    <2>1. 1 \in 1..L /\ 1 <= i /\ L > 0
        BY <1>1
    <2>2. W(1) <= W(i)
        BY <2>1, <1>2
    <2> QED BY <2>1, <2>2, <1>1
<1>7. \A i \in 1..L : \A k \in 1..W(i) : \E j \in 1..i : W(j) = k
    BY <1>5
<1>8. \A i, j \in 1..L : i <= j => W(i) <= W(j)
    BY <1>2
<1> QED BY <1>1, <1>6, <1>7, <1>8 DEF L, W

LEMMA BeginsAre ==
    ASSUME NEW ps \in Seq(PieceRecs)
    PROVE  /\ BeginsOf(ps)[0] = 1
           /\ \A i \in 1..Len(ps) : BeginsOf(ps)[i] = BeginsOf(ps)[i - 1] + Len(ps[i].piece)
<1> DEFINE N    == Len(ps)
           base == 1
           Step(n, v) == v + Len(ps[n].piece)
           step == [p \in (0 + 1..N) \X Nat |-> Step(p[1], p[2])]
           F(f) == [n \in 0..N |-> IF n = 0 THEN base ELSE Step(n, f[n - 1])]
           f    == CHOOSE g : g = F(g)
<1>0. BeginsOf(ps) = f
    BY DEF BeginsOf
<1>1. N \in Nat /\ N \in Int /\ 0 \in Int /\ 0 <= N
    OBVIOUS
<1>2. base \in Nat
    OBVIOUS
<1>3. ASSUME NEW n \in 1..N, NEW v \in Nat PROVE Step(n, v) \in Nat
    <2>1. ps[n] \in PieceRecs
        BY <1>1
    <2>2. Len(ps[n].piece) \in Nat
        BY <2>1 DEF PieceRecs, Spellings
    <2> QED BY <2>2
<1>3a. base = 1
    OBVIOUS
<1> HIDE DEF base, Step
<1>4. step \in [(0 + 1..N) \X Nat -> Nat]
    <2> HIDE DEF N
    <2>1. 0 + 1..N = 1..N
        BY <1>1
    <2> QED BY <2>1, <1>3
<1>5. PICK g \in [0..N -> Nat] : Recursion(g, 0, N, base, step)
    <2> HIDE DEF N, step, F, f
    <2> QED BY <1>1, <1>2, <1>4, RecursionExists
<1>6. g[0] = base
    BY <1>5 DEF Recursion
<1>7. ASSUME NEW n \in 1..N PROVE g[n] = Step(n, g[n - 1])
    <2>1. n \in 0 + 1..N /\ n - 1 \in 0..N
        BY <1>1
    <2>2. <<n, g[n - 1]>> \in (0 + 1..N) \X Nat /\ g[n] = step[<<n, g[n - 1]>>]
        <3> HIDE DEF step, N
        <3> QED BY <2>1, <1>5 DEF Recursion
    <2> HIDE DEF N
    <2>3. step[<<n, g[n - 1]>>] = Step(n, g[n - 1])
        BY <2>2
    <2> HIDE DEF step
    <2> QED BY <2>2, <2>3
<1>8. g = F(g)
    <2> HIDE DEF step, N
    <2>1. \A n \in 0..N : g[n] = F(g)[n]
        <3> SUFFICES ASSUME NEW n \in 0..N PROVE g[n] = F(g)[n]
            OBVIOUS
        <3>1. CASE n = 0
            BY <1>6, <3>1
        <3>2. CASE n # 0
            <4>1. n \in 1..N
                BY <1>1, <3>2
            <4> QED BY <1>7, <3>2, <4>1
        <3> HIDE DEF F
        <3> QED BY <3>1, <3>2
    <2> QED BY <1>5, <2>1
<1>9. f = F(f)
    <2> HIDE DEF F
    <2> QED BY <1>8
<1> HIDE DEF f
<1>10. f[0] = base
    <2> HIDE DEF N
    <2> QED BY <1>1, <1>9
<1>11. ASSUME NEW n \in 1..N PROVE f[n] = Step(n, f[n - 1])
    <2>1. n \in 0..N /\ n # 0
        BY <1>1
    <2> HIDE DEF N
    <2> QED BY <1>9, <2>1
<1>12. \A n \in 0..N : f[n] \in Nat
    <2> DEFINE T == {n \in 0..N : f[n] \in Nat}
    <2>1. 0 \in T
        <3> HIDE DEF N
        <3> QED BY <1>1, <1>2, <1>10
    <2>2. ASSUME NEW n \in 0..N - 1, n \in T PROVE n + 1 \in T
        <3>1. n + 1 \in 1..N /\ n + 1 \in 0..N /\ (n + 1) - 1 = n /\ f[n] \in Nat
            BY <2>2, <1>1
        <3> HIDE DEF N
        <3>2. f[n + 1] = Step(n + 1, f[n])
            BY <3>1, <1>11
        <3> QED BY <3>1, <3>2, <1>3
    <2>3. 0..N \subseteq T
        <3> HIDE DEF T, N
        <3> QED BY <1>1, <2>1, <2>2, IntervalInduction
    <2> QED BY <2>3
<1>13. \A n \in 1..N : f[n] = f[n - 1] + Len(ps[n].piece)
    BY <1>11 DEF Step
<1> QED BY <1>0, <1>3a, <1>10, <1>13

LEMMA SmallerIs ==
    ASSUME NEW a \in Nat, NEW b \in Nat
    PROVE  Min({a, b}) \in {a, b} /\ Min({a, b}) <= a /\ Min({a, b}) <= b
<1>1. \E x \in {a, b} : \A y \in {a, b} : x <= y
    OBVIOUS
<1>2. Min({a, b}) \in {a, b} /\ \A y \in {a, b} : Min({a, b}) <= y
    BY <1>1 DEF Min
<1> QED BY <1>2

(* What the model is given of the pieces of the text.                      *)
PieceWindow == SubSeq(AllPieces, 1, Min({Len(AllPieces), MaxLength - 2}))
Windowed == HasWords /\ pieces = PieceWindow

LEMMA WindowedIs ==
    ASSUME HasWords, NEW ps, ps = PieceWindow
    PROVE  /\ SteadyPieces(ps) /\ Len(ps) <= MaxLength - 2
           /\ \E rest \in Seq(PieceRecs) : AllPieces = ps \o rest
           /\ \A i \in 1..Len(ps) : ps[i].word \in 1..Len(wordsRead)
<1> DEFINE A == AllPieces
           m == Min({Len(A), MaxLength - 2})
<1>1. Complete(A, Len(wordsRead))
    BY AllPiecesAre
<1>2. /\ A \in Seq(PieceRecs)
      /\ Len(A) > 0 => A[1].word = 1
      /\ \A i \in 1..Len(A) - 1 : A[i + 1].word = A[i].word \/ A[i + 1].word = A[i].word + 1
    BY <1>1 DEF Complete, SteadyPieces
<1>3. Len(A) \in Nat /\ MaxLength - 2 \in Nat
    BY <1>2, DirAssumption
<1>4. ps = SubSeq(A, 1, m)
    BY DEF PieceWindow
<1> HIDE DEF A
<1>5. m \in Nat /\ m <= Len(A) /\ m <= MaxLength - 2
    <2>1. m \in {Len(A), MaxLength - 2} /\ m <= Len(A) /\ m <= MaxLength - 2
        BY <1>3, SmallerIs
    <2> HIDE DEF m
    <2> QED BY <2>1, <1>3
<1> HIDE DEF m
<1>6. /\ ps \in Seq(PieceRecs) /\ Len(ps) = m
      /\ \A i \in 1..m : ps[i] = A[i]
    <2>1. /\ SubSeq(A, 1, m) \in Seq(PieceRecs) /\ Len(SubSeq(A, 1, m)) = m + 1 - 1
          /\ \A i \in 1..m + 1 - 1 : SubSeq(A, 1, m)[i] = A[1 + i - 1]
        BY <1>2, <1>3, <1>5, PartElements
    <2>2. m + 1 - 1 = m /\ \A i \in 1..m : 1 + i - 1 = i
        BY <1>5
    <2> QED BY <2>1, <2>2, <1>4
<1>7. SteadyPieces(ps)
    <2>1. ASSUME NEW i \in 1..m - 1
          PROVE  ps[i + 1].word = ps[i].word \/ ps[i + 1].word = ps[i].word + 1
        <3>1. i \in 1..m /\ i + 1 \in 1..m /\ i \in 1..Len(A) - 1
            BY <1>3, <1>5
        <3> QED BY <3>1, <1>2, <1>6
    <2>2. m > 0 => ps[1].word = 1
        <3>1. m > 0 => 1 \in 1..m /\ Len(A) > 0
            BY <1>3, <1>5
        <3> QED BY <3>1, <1>2, <1>6
    <2> QED BY <2>1, <2>2, <1>6 DEF SteadyPieces
<1>8. \E rest \in Seq(PieceRecs) : A = ps \o rest
    <2> DEFINE rest == SubSeq(A, m + 1, Len(A))
    <2>1. rest \in Seq(PieceRecs)
        BY <1>2, <1>3, <1>5, SuffixElements
    <2>2. SubSeq(A, 1, m) \o rest = SubSeq(A, 1, Len(A))
        <3> DEFINE n == Len(A)
        <3>1. n \in Nat /\ m <= n /\ 1 \in Nat /\ 1 <= m + 1 /\ n <= Len(A) /\ 1 <= 1
            BY <1>3, <1>5
        <3> HIDE DEF n
        <3>2. SubSeq(A, 1, m) \o SubSeq(A, m + 1, n) = SubSeq(A, 1, n)
            BY <1>2, <1>5, <3>1, PartsJoin
        <3> QED BY <3>2 DEF n
    <2>3. SubSeq(A, 1, Len(A)) = A
        BY <1>2
    <2> QED BY <2>1, <2>2, <2>3, <1>4
<1>9. ASSUME NEW i \in 1..m PROVE ps[i].word \in 1..Len(wordsRead)
    <2> DEFINE N == Len(wordsRead)
               n == Len(A)
    <2>1. i \in 1..n /\ n \in 1..n /\ i <= n /\ n > 0 /\ N \in Nat
        BY <1>3, <1>5 DEF HasWords
    <2>2. A[n].word = N
        BY <2>1, <1>1 DEF Complete
    <2>3. A[i].word <= A[n].word /\ A[i].word \in Nat /\ A[i].word >= 1
        BY <2>1, <1>1, SteadyRises DEF Complete
    <2> DEFINE x == A[i].word
    <2>4. x <= N /\ x \in Nat /\ x >= 1
        BY <2>2, <2>3
    <2> HIDE DEF x, N
    <2>5. x \in 1..N
        BY <2>1, <2>4
    <2> QED BY <2>5, <1>6 DEF x, N
<1> QED BY <1>5, <1>6, <1>7, <1>8, <1>9 DEF A

LEMMA PieceWindowIs ==
    ASSUME Windowed
    PROVE  /\ SteadyPieces(pieces) /\ Len(pieces) <= MaxLength - 2
           /\ \E rest \in Seq(PieceRecs) : AllPieces = pieces \o rest
           /\ \A i \in 1..Len(pieces) : pieces[i].word \in 1..Len(wordsRead)
BY WindowedIs DEF Windowed

(* The pieces the model is given spell the words.                          *)
LEMMA WindowSpells ==
    ASSUME Windowed, NEW k \in Visible, NEW ps,
           ps = Those(pieces, {p \in Range(pieces) : p.word = k}), NEW i \in DOMAIN ps
    PROVE  /\ ps[i].piece # <<"UNK">> =>
                 ps[i].piece = SubSeq(WordAsRead(k), BeginsOf(ps)[i - 1], BeginsOf(ps)[i] - 1)
           /\ \A f \in BeginsOf(ps)[i]..Len(WordAsRead(k)) :
                 ~InVocabulary(modelDir, BeginsOf(ps)[i - 1],
                               SubSeq(WordAsRead(k), BeginsOf(ps)[i - 1], f))
           /\ k + 1 \in Visible /\ i = Len(ps) => BeginsOf(ps)[i] = Len(WordAsRead(k)) + 1
<1> DEFINE N == Len(wordsRead)
           A == AllPieces
           S == OfWord(k)
           w == WordAsRead(k)
           all == LabelledPieces(k)
<1>1. HasWords /\ Complete(A, N)
    BY AllPiecesAre DEF Windowed
<1>2. PICK rest \in Seq(PieceRecs) : A = pieces \o rest
    BY PieceWindowIs
<1>3. pieces \in Seq(PieceRecs) /\ SteadyPieces(pieces) /\ \A j \in 1..Len(pieces) : pieces[j].word \in 1..N
    BY PieceWindowIs DEF SteadyPieces
<1>4. Len(pieces) \in Nat /\ DOMAIN pieces = 1..Len(pieces)
    BY <1>3
<1>5. PICK j \in 1..Len(pieces) : pieces[j].word = k
    BY <1>4 DEF Visible
<1>6. k \in 1..N /\ k \in Nat
    BY <1>3, <1>5
<1>7. ps = Those(pieces, S)
    <2>1. \A x \in ToSet(pieces) : x \in {p \in Range(pieces) : p.word = k} <=> x \in S
        <3>1. ToSet(pieces) \subseteq PieceRecs
            BY <1>3, ToSetElements
        <3>2. Range(pieces) = ToSet(pieces)
            BY DEF Range, ToSet
        <3> QED BY <3>1, <3>2 DEF OfWord
    <2> QED BY <2>1, <1>3, ThoseOfSame
<1>8. all = ps \o Those(rest, S)
    <2>1. Those(A, S) = all
        BY <1>1, <1>6 DEF Complete
    <2>2. Those(pieces \o rest, S) = Those(pieces, S) \o Those(rest, S)
        BY <1>3, ThoseOfConcat
    <2> QED BY <2>1, <2>2, <1>2, <1>7
<1>9. ps \in Seq(PieceRecs) /\ Those(rest, S) \in Seq(PieceRecs)
    <2>1. \A X, Z : X \subseteq Z => Seq(X) \subseteq Seq(Z)
        <3> SUFFICES ASSUME NEW X, NEW Z, X \subseteq Z, NEW z \in Seq(X) PROVE z \in Seq(Z)
            OBVIOUS
        <3> QED OBVIOUS
    <2>2. Those(pieces, S) \in Seq(PieceRecs \cap S) /\ Those(rest, S) \in Seq(PieceRecs \cap S)
        BY <1>2, <1>3, ThoseElements
    <2>3. PieceRecs \cap S \subseteq PieceRecs
        OBVIOUS
    <2> HIDE DEF S
    <2> QED BY <2>1, <2>2, <2>3, <1>7
<1>10. PICK g \in [0..Len(all) -> Nat] :
          /\ g[0] = 1 /\ g[Len(all)] = Len(w) + 1
          /\ \A m \in 1..Len(all) : /\ g[m] = g[m - 1] + Len(all[m].piece)
                                    /\ Rightly(modelDir, w, all[m].piece, g[m - 1])
    BY <1>1, <1>6, LabelledIs
<1> DEFINE n == Len(ps)
           rs == Those(rest, S)
           h == BeginsOf(ps)
<1>11. /\ n \in Nat /\ n \in Int /\ 0 \in Int /\ Len(rs) \in Nat /\ Len(all) = n + Len(rs) /\ DOMAIN ps = 1..n
       /\ \A m \in 1..n : all[m] = ps[m]
    <2> HIDE DEF rs, all
    <2>1. rs \in Seq(PieceRecs) /\ all = ps \o rs
        BY <1>8, <1>9 DEF rs
    <2> QED BY <2>1, <1>9, ConcatElements
<1>12. h[0] = 1 /\ \A m \in 1..n : h[m] = h[m - 1] + Len(ps[m].piece)
    BY <1>9, BeginsAre
<1> HIDE DEF all, rs, h, n, w
<1> DEFINE T == {m \in 0..n : h[m] = g[m]}
<1>13. 0 \in T
    BY <1>10, <1>11, <1>12
<1>14. ASSUME NEW m \in 0..n - 1, m \in T PROVE m + 1 \in T
    <2>1. m + 1 \in 1..n /\ m + 1 \in 0..n /\ (m + 1) - 1 = m /\ m + 1 \in 1..Len(all)
        BY <1>11
    <2>2. h[m + 1] = h[m] + Len(ps[m + 1].piece) /\ g[m + 1] = g[m] + Len(all[m + 1].piece)
        BY <2>1, <1>10, <1>12
    <2>3. h[m + 1] = g[m + 1]
        BY <2>1, <2>2, <1>11, <1>14
    <2> QED BY <2>1, <2>3
<1>15. 0..n \subseteq T
    <2> HIDE DEF T
    <2> QED BY <1>11, <1>13, <1>14, IntervalInduction
<1>16. /\ i \in 1..n /\ i - 1 \in 0..n /\ i \in 0..n /\ i \in 1..Len(all) /\ i - 1 \in 0..Len(all)
    BY <1>11 DEF n
<1>17. h[i] = g[i] /\ h[i - 1] = g[i - 1] /\ all[i] = ps[i]
    BY <1>11, <1>15, <1>16
<1> DEFINE p == ps[i].piece
           b == h[i - 1]
           e == h[i]
<1>18. e = b + Len(p) /\ Rightly(modelDir, w, p, b) /\ b \in Nat
    <2>1. g[i] = g[i - 1] + Len(all[i].piece) /\ Rightly(modelDir, w, all[i].piece, g[i - 1])
        BY <1>10, <1>16
    <2>2. g[i - 1] \in Nat
        BY <1>10, <1>16
    <2> QED BY <2>1, <2>2, <1>17
<1>19. (p # <<"UNK">> => p = SubSeq(w, b, e - 1)) /\ \A f \in e..Len(w) : ~InVocabulary(modelDir, b, SubSeq(w, b, f))
    <2> HIDE DEF p, b, e
    <2> QED BY <1>18 DEF Rightly
<1>20. ASSUME k + 1 \in Visible, i = n PROVE e = Len(w) + 1
    <2>1. PICK q \in 1..Len(pieces) : pieces[q].word = k + 1
        BY <1>4, <1>20 DEF Visible
    <2>2. ToSet(rest) \cap S = {}
        <3> SUFFICES ASSUME NEW x \in ToSet(rest), x.word = k PROVE FALSE
            BY DEF OfWord
        <3>1. PICK r \in 1..Len(rest) : x = rest[r]
            BY <1>2, ToSetElements
        <3> DEFINE L == Len(pieces)
        <3>2. /\ Len(A) = L + Len(rest) /\ Len(rest) \in Nat /\ L \in Nat
              /\ \A y \in 1..L : A[y] = pieces[y]
              /\ \A y \in 1..Len(rest) : A[L + y] = rest[y]
            BY <1>2, <1>3, ConcatElements
        <3> HIDE DEF L, A
        <3>3. q \in 1..L
            BY DEF L
        <3>4. q \in 1..Len(A) /\ L + r \in 1..Len(A) /\ q <= L + r
            BY <3>2, <3>3
        <3>5. A[q].word <= A[L + r].word
            BY <3>4, <1>1, SteadyRises DEF Complete
        <3>6. A[q].word = k + 1 /\ A[L + r].word = k
            BY <2>1, <3>1, <3>2, <3>3
        <3> QED BY <3>5, <3>6, <1>6
    <2>3. rs = <<>>
        <3> HIDE DEF S
        <3> QED BY <2>2, <1>2, ThoseOfOthers DEF rs
    <2>4. Len(all) = n
        BY <2>3, <1>11
    <2> QED BY <2>4, <1>10, <1>17, <1>20
<1> QED BY <1>19, <1>20 DEF p, b, e, h, w, n

(* How many words the model sees the beginning of.                         *)
WordAtPiece(i) == IF i = 0 THEN 0 ELSE pieces[i].word
WordsSeen == WordAtPiece(Len(pieces))

LEMMA PiecesRise ==
    ASSUME Windowed
    PROVE  /\ pieces \in Seq(PieceRecs) /\ Len(pieces) \in Nat /\ DOMAIN pieces = 1..Len(pieces)
           /\ Len(wordsRead) \in Nat /\ WordsSeen \in 0..Len(wordsRead)
           /\ \A i \in 0..Len(pieces) : WordAtPiece(i) \in 0..WordsSeen
           /\ WordAtPiece(0) = 0
           /\ \A i \in 1..Len(pieces) : WordAtPiece(i) = pieces[i].word /\ WordAtPiece(i) \in 1..WordsSeen
           /\ \A i \in 0..Len(pieces) - 1 : WordAtPiece(i + 1) = WordAtPiece(i) \/ WordAtPiece(i + 1) = WordAtPiece(i) + 1
           /\ \A i, j \in 1..Len(pieces) : i <= j => WordAtPiece(i) <= WordAtPiece(j)
           /\ \A k \in 1..WordsSeen : \E j \in 1..Len(pieces) : WordAtPiece(j) = k
           /\ Visible = 1..WordsSeen
<1> DEFINE L == Len(pieces)
           N == Len(wordsRead)
<1>1. SteadyPieces(pieces) /\ \A i \in 1..L : pieces[i].word \in 1..N
    BY PieceWindowIs
<1>2. /\ pieces \in Seq(PieceRecs)
      /\ L > 0 => pieces[1].word = 1
      /\ \A i \in 1..L - 1 : pieces[i + 1].word = pieces[i].word \/ pieces[i + 1].word = pieces[i].word + 1
    BY <1>1 DEF SteadyPieces
<1>3. L \in Nat /\ DOMAIN pieces = 1..L
    BY <1>2
<1>4. /\ \A i, j \in 1..L : i <= j => pieces[i].word <= pieces[j].word
      /\ \A i \in 1..L : \A k \in 1..pieces[i].word : \E j \in 1..i : pieces[j].word = k
    BY <1>1, SteadyRises
<1>5. N \in Nat
    BY DEF Windowed, HasWords
<1> HIDE DEF L, N
<1>6. \A i \in 1..L : i # 0 /\ WordAtPiece(i) = pieces[i].word
    BY <1>3 DEF WordAtPiece
<1>7. WordAtPiece(0) = 0
    BY DEF WordAtPiece
<1>8. WordsSeen = WordAtPiece(L)
    BY DEF WordsSeen, L
<1>9. \A i \in 1..L : WordAtPiece(i) \in 1..N
    BY <1>1, <1>6
<1>10. \A i \in 0..L : i = 0 \/ i \in 1..L
    BY <1>3
<1>11. WordsSeen \in 0..N
    <2>1. CASE L = 0
        BY <2>1, <1>5, <1>7, <1>8
    <2>2. CASE L # 0
        <3>1. L \in 1..L
            BY <1>3, <2>2
        <3> QED BY <3>1, <1>5, <1>8, <1>9
    <2> QED BY <2>1, <2>2
<1>12. \A i \in 1..L : WordAtPiece(i) \in 1..WordsSeen
    <2> SUFFICES ASSUME NEW i \in 1..L PROVE WordAtPiece(i) \in 1..WordsSeen
        OBVIOUS
    <2>1. L \in 1..L /\ i <= L
        BY <1>3
    <2>2. WordAtPiece(i) <= WordsSeen
        BY <2>1, <1>4, <1>6, <1>8
    <2> QED BY <2>2, <1>5, <1>9, <1>11
<1>13. \A i \in 0..L : WordAtPiece(i) \in 0..WordsSeen
    BY <1>5, <1>7, <1>10, <1>11, <1>12
<1>14. ASSUME NEW i \in 0..L - 1 PROVE WordAtPiece(i + 1) = WordAtPiece(i) \/ WordAtPiece(i + 1) = WordAtPiece(i) + 1
    <2>1. CASE i = 0
        <3>1. L > 0 /\ 1 \in 1..L /\ i + 1 = 1
            BY <1>3, <2>1
        <3> QED BY <3>1, <2>1, <1>2, <1>6, <1>7
    <2>2. CASE i # 0
        <3>1. i \in 1..L - 1 /\ i \in 1..L /\ i + 1 \in 1..L
            BY <1>3, <2>2
        <3> QED BY <3>1, <1>2, <1>6
    <2> QED BY <2>1, <2>2
<1>15. ASSUME NEW k \in 1..WordsSeen PROVE \E j \in 1..L : WordAtPiece(j) = k
    <2>1. L # 0
        BY <1>7, <1>8
    <2>2. L \in 1..L
        BY <2>1, <1>3
    <2>3. k \in 1..pieces[L].word
        BY <2>2, <1>6, <1>8
    <2>4. PICK j \in 1..L : pieces[j].word = k
        BY <2>2, <2>3, <1>4
    <2> QED BY <2>4, <1>6
<1>16. Visible = 1..WordsSeen
    <2>1. ASSUME NEW k \in Visible PROVE k \in 1..WordsSeen
        BY <1>3, <1>6, <1>12 DEF Visible
    <2>2. ASSUME NEW k \in 1..WordsSeen PROVE k \in Visible
        BY <1>3, <1>6, <1>15 DEF Visible
    <2> QED BY <2>1, <2>2
<1>17. \A i, j \in 1..L : i <= j => WordAtPiece(i) <= WordAtPiece(j)
    BY <1>4, <1>6
<1> QED BY <1>2, <1>3, <1>5, <1>7, <1>6, <1>11, <1>12, <1>13, <1>14, <1>15, <1>16, <1>17 DEF L, N

(* Where the first piece of a word is.                                     *)
LEMMA HeadIs ==
    ASSUME Windowed, NEW k \in 1..WordsSeen
    PROVE  /\ HeadOf(k) \in 1..Len(pieces) /\ WordAtPiece(HeadOf(k)) = k
           /\ \A j \in 1..Len(pieces) : WordAtPiece(j) = k => HeadOf(k) <= j
<1> DEFINE L == Len(pieces)
           T == {j \in 1..L : WordAtPiece(j) = k}
<1>1. /\ L \in Nat /\ DOMAIN pieces = 1..L
      /\ \A i \in 1..L : WordAtPiece(i) = pieces[i].word
      /\ \E j \in 1..L : WordAtPiece(j) = k
    BY PiecesRise
<1>2. T # {} /\ T \in SUBSET (1..L)
    BY <1>1
<1>3. \E m \in T : \A x \in T : m <= x
    <2> HIDE DEF T
    <2> QED BY <1>1, <1>2, LeastExists
<1> HIDE DEF L
<1>4. \E i \in 1..L : pieces[i].word = k /\ \A j \in 1..L : pieces[j].word = k => i <= j
    BY <1>1, <1>3
<1>5. /\ HeadOf(k) \in 1..L /\ pieces[HeadOf(k)].word = k
      /\ \A j \in 1..L : pieces[j].word = k => HeadOf(k) <= j
    BY <1>1, <1>4 DEF HeadOf
<1> QED BY <1>1, <1>5 DEF L

LEMMA FirstIs ==
    ASSUME Windowed, NEW i \in 0..Len(pieces) - 1
    PROVE  /\ FirstPiece(i + 1) => WordAtPiece(i + 1) = WordAtPiece(i) + 1 /\ HeadOf(WordAtPiece(i + 1)) = i + 1
           /\ ~FirstPiece(i + 1) => WordAtPiece(i + 1) = WordAtPiece(i)
<1> DEFINE L == Len(pieces)
           k == WordAtPiece(i + 1)
<1>1. /\ L \in Nat
      /\ \A j \in 1..L : WordAtPiece(j) = pieces[j].word /\ WordAtPiece(j) \in 1..WordsSeen
      /\ WordAtPiece(i + 1) = WordAtPiece(i) \/ WordAtPiece(i + 1) = WordAtPiece(i) + 1
      /\ \A a, b \in 1..L : a <= b => WordAtPiece(a) <= WordAtPiece(b)
      /\ \A j \in 0..L : WordAtPiece(j) \in 0..WordsSeen
      /\ WordAtPiece(0) = 0 /\ WordsSeen \in Nat
    BY PiecesRise
<1>2. i \in Nat /\ i + 1 \in 1..L /\ (i + 1) - 1 = i /\ (i + 1 = 1 <=> i = 0)
    BY <1>1
<1>3. FirstPiece(i + 1) <=> WordAtPiece(i + 1) # WordAtPiece(i)
    <2>1. CASE i = 0
        <3>1. WordAtPiece(i + 1) # 0
            BY <1>1, <1>2
        <3>2. FirstPiece(i + 1)
            BY <1>2, <2>1 DEF FirstPiece
        <3> QED BY <2>1, <3>1, <3>2, <1>1
    <2>2. CASE i # 0
        <3>1. i \in 1..L
            BY <1>1, <1>2, <2>2
        <3>2. FirstPiece(i + 1) <=> pieces[(i + 1) - 1].word # pieces[i + 1].word
            BY <1>2, <2>2 DEF FirstPiece
        <3> QED BY <3>1, <3>2, <1>1, <1>2
    <2> QED BY <2>1, <2>2
<1>4. ASSUME WordAtPiece(i + 1) # WordAtPiece(i) PROVE WordAtPiece(i + 1) = WordAtPiece(i) + 1 /\ HeadOf(k) = i + 1
    <2>1. WordAtPiece(i + 1) = WordAtPiece(i) + 1 /\ k \in 1..WordsSeen
        BY <1>1, <1>2, <1>4
    <2> DEFINE h == HeadOf(k)
    <2>2. h \in 1..L /\ WordAtPiece(h) = k /\ h <= i + 1
        BY <2>1, <1>2, HeadIs
    <2>3. ASSUME h <= i PROVE FALSE
        <3>1. i \in 1..L /\ WordAtPiece(h) <= WordAtPiece(i)
            BY <2>2, <2>3, <1>1, <1>2
        <3> DEFINE u == WordAtPiece(i)
        <3>2. u \in Nat
            BY <3>1, <1>1
        <3>3. u + 1 <= u
            BY <2>1, <2>2, <3>1
        <3> HIDE DEF u
        <3> QED BY <3>2, <3>3
    <2> HIDE DEF h, L
    <2>4. h = i + 1
        BY <2>2, <2>3, <1>2
    <2> QED BY <2>1, <2>4 DEF h
<1> QED BY <1>1, <1>3, <1>4

(* A label without a tag has no type.                                      *)
LabelRecs == {r \in [tag : PieceTags, type : NerTypes \cup {"none"}] : r.tag = "O" => r.type = "none"}
Judged == judged \in Seq(LabelIds \X Sureness) /\ Len(judged) = Len(pieces)
Labelled == labelMap \in Seq(LabelRecs)

LEMMA InfoIs ==
    ASSUME Labelled, NEW l
    PROVE  InfoOf(l) \in LabelRecs
<1>1. [tag |-> "O", type |-> "none"] \in LabelRecs
    BY DEF LabelRecs, PieceTags
<1>2. l + 1 \in DOMAIN labelMap => labelMap[l + 1] \in LabelRecs
    BY DEF Labelled
<1> QED BY <1>1, <1>2 DEF InfoOf

(* What the model says of a word, by its first piece.                      *)
SaidOf(k) == judged[HeadOf(k)][2]
InfoAt(k) == InfoOf(judged[HeadOf(k)][1])

LEMMA SaidIs ==
    ASSUME Windowed, Judged, Labelled, NEW k \in 1..WordsSeen
    PROVE  /\ SaidOf(k) \in Nat /\ InfoAt(k) \in LabelRecs /\ TypeOf(k) = InfoAt(k).type
           /\ TypeOf(k) \in NerTypes \cup {"none"}
<1>1. HeadOf(k) \in 1..Len(pieces)
    BY HeadIs
<1>2. judged[HeadOf(k)] \in LabelIds \X Sureness
    BY <1>1 DEF Judged
<1>3. SaidOf(k) \in Nat
    BY <1>2, DirAssumption DEF SaidOf
<1>4. InfoAt(k) \in LabelRecs
    BY InfoIs DEF InfoAt
<1>5. TypeOf(k) = InfoAt(k).type
    BY DEF TypeOf, InfoAt
<1> QED BY <1>3, <1>4, <1>5 DEF LabelRecs

LEMMA TrustIs ==
    ASSUME Windowed, Judged, Labelled
    PROVE  /\ Trust[0] = 0
           /\ \A k \in 0..Len(wordsRead) : Trust[k] \in Nat
           /\ \A k \in 1..WordsSeen : Trust[k] = Trust[k - 1] + SaidOf(k)
<1> DEFINE N    == Len(wordsRead)
           base == 0
           Step(n, v) == v + (IF n \in Visible THEN judged[HeadOf(n)][2] ELSE 0)
           step == [p \in (0 + 1..N) \X Nat |-> Step(p[1], p[2])]
           F(f) == [n \in 0..N |-> IF n = 0 THEN base ELSE Step(n, f[n - 1])]
           f    == CHOOSE g : g = F(g)
<1>0. Trust = f
    BY DEF Trust
<1>0a. Visible = 1..WordsSeen /\ WordsSeen \in 0..N /\ N \in Nat
    BY PiecesRise
<1>1. N \in Nat /\ N \in Int /\ 0 \in Int /\ 0 <= N
    BY <1>0a
<1>2. base \in Nat
    OBVIOUS
<1>3. ASSUME NEW n \in 1..N, NEW v \in Nat PROVE Step(n, v) \in Nat
    <2>1. CASE n \in Visible
        <3>1. SaidOf(n) \in Nat
            BY <2>1, <1>0a, SaidIs
        <3> QED BY <3>1, <2>1 DEF SaidOf
    <2>2. CASE n \notin Visible
        BY <2>2
    <2> QED BY <2>1, <2>2
<1>3a. base = 0
    OBVIOUS
<1> HIDE DEF base, Step
<1>4. step \in [(0 + 1..N) \X Nat -> Nat]
    <2> HIDE DEF N
    <2>1. 0 + 1..N = 1..N
        BY <1>1
    <2> QED BY <2>1, <1>3
<1>5. PICK g \in [0..N -> Nat] : Recursion(g, 0, N, base, step)
    <2> HIDE DEF N, step, F, f
    <2> QED BY <1>1, <1>2, <1>4, RecursionExists
<1>6. g[0] = base
    BY <1>5 DEF Recursion
<1>7. ASSUME NEW n \in 1..N PROVE g[n] = Step(n, g[n - 1])
    <2>1. n \in 0 + 1..N /\ n - 1 \in 0..N
        BY <1>1
    <2>2. <<n, g[n - 1]>> \in (0 + 1..N) \X Nat /\ g[n] = step[<<n, g[n - 1]>>]
        <3> HIDE DEF step, N
        <3> QED BY <2>1, <1>5 DEF Recursion
    <2> HIDE DEF N
    <2>3. step[<<n, g[n - 1]>>] = Step(n, g[n - 1])
        BY <2>2
    <2> HIDE DEF step
    <2> QED BY <2>2, <2>3
<1>8. g = F(g)
    <2> HIDE DEF step, N
    <2>1. \A n \in 0..N : g[n] = F(g)[n]
        <3> SUFFICES ASSUME NEW n \in 0..N PROVE g[n] = F(g)[n]
            OBVIOUS
        <3>1. CASE n = 0
            BY <1>6, <3>1
        <3>2. CASE n # 0
            <4>1. n \in 1..N
                BY <1>1, <3>2
            <4> QED BY <1>7, <3>2, <4>1
        <3> HIDE DEF F
        <3> QED BY <3>1, <3>2
    <2> QED BY <1>5, <2>1
<1>9. f = F(f)
    <2> HIDE DEF F
    <2> QED BY <1>8
<1> HIDE DEF f
<1>10. f[0] = base
    <2> HIDE DEF N
    <2> QED BY <1>1, <1>9
<1>11. ASSUME NEW n \in 1..N PROVE f[n] = Step(n, f[n - 1])
    <2>1. n \in 0..N /\ n # 0
        BY <1>1
    <2> HIDE DEF N
    <2> QED BY <1>9, <2>1
<1>12. \A n \in 0..N : f[n] \in Nat
    <2> DEFINE T == {n \in 0..N : f[n] \in Nat}
    <2>1. 0 \in T
        <3> HIDE DEF N
        <3> QED BY <1>1, <1>2, <1>10
    <2>2. ASSUME NEW n \in 0..N - 1, n \in T PROVE n + 1 \in T
        <3>1. n + 1 \in 1..N /\ n + 1 \in 0..N /\ (n + 1) - 1 = n /\ f[n] \in Nat
            BY <2>2, <1>1
        <3> HIDE DEF N
        <3>2. f[n + 1] = Step(n + 1, f[n])
            BY <3>1, <1>11
        <3> QED BY <3>1, <3>2, <1>3
    <2>3. 0..N \subseteq T
        <3> HIDE DEF T, N
        <3> QED BY <1>1, <2>1, <2>2, IntervalInduction
    <2> QED BY <2>3
<1>13. ASSUME NEW k \in 1..WordsSeen PROVE f[k] = f[k - 1] + SaidOf(k)
    <2>1. k \in 1..N /\ k \in Visible
        BY <1>0a
    <2>2. f[k] = Step(k, f[k - 1])
        BY <2>1, <1>11
    <2> QED BY <2>1, <2>2 DEF Step, SaidOf
<1> QED BY <1>0, <1>3a, <1>10, <1>12, <1>13

FoundRecs == [type : NerTypes, from : Nat, to : Nat, total : Int, count : Nat]
Accs == [out : Seq(FoundRecs), open : Seq(FoundRecs)]

(* The entity of the words from s[1] to s[2].                              *)
EntityOf(s) ==
    [type |-> TypeOf(s[1]), from |-> s[1], to |-> s[2],
     total |-> Trust[s[2]] - Trust[s[1] - 1], count |-> s[2] - s[1] + 1]

LEMMA EntityIs ==
    ASSUME Windowed, Judged, Labelled, NEW a \in 1..WordsSeen, NEW b \in a..WordsSeen,
           TypeOf(a) # "none"
    PROVE  /\ EntityOf(<<a, b>>) \in FoundRecs /\ EntityOf(<<a, b>>).type = TypeOf(a)
           /\ EntityOf(<<a, b>>) =
                [type |-> TypeOf(a), from |-> a, to |-> b,
                 total |-> Trust[b] - Trust[a - 1], count |-> b - a + 1]
<1>1. WordsSeen \in 0..Len(wordsRead) /\ Len(wordsRead) \in Nat
    BY PiecesRise
<1>2. TypeOf(a) \in NerTypes
    BY SaidIs
<1>3. Trust[b] \in Nat /\ Trust[a - 1] \in Nat
    <2>1. b \in 0..Len(wordsRead) /\ a - 1 \in 0..Len(wordsRead)
        BY <1>1
    <2> QED BY <2>1, TrustIs
<1> DEFINE x == Trust[b]
           y == Trust[a - 1]
<1>4. x - y \in Int
    BY <1>3
<1>5. a \in Nat /\ b \in Nat /\ b - a + 1 \in Nat
    BY <1>1
<1>6. EntityOf(<<a, b>>) = [type |-> TypeOf(a), from |-> a, to |-> b, total |-> x - y, count |-> b - a + 1]
    BY DEF EntityOf
<1> HIDE DEF x, y
<1>7. [type |-> TypeOf(a), from |-> a, to |-> b, total |-> x - y, count |-> b - a + 1] \in FoundRecs
    BY <1>2, <1>4, <1>5 DEF FoundRecs
<1> QED BY <1>6, <1>7 DEF x, y

LEMMA ChangedEntity ==
    ASSUME NEW e \in FoundRecs, NEW p \in Nat, NEW d \in Int, NEW c \in Nat
    PROVE  [e EXCEPT !.to = p, !.total = d, !.count = c] =
             [type |-> e.type, from |-> e.from, to |-> p, total |-> d, count |-> c]
<1> DEFINE g == [e EXCEPT !.to = p, !.total = d, !.count = c]
           h == [type |-> e.type, from |-> e.from, to |-> p, total |-> d, count |-> c]
<1>1. g \in FoundRecs /\ h \in FoundRecs
    BY DEF FoundRecs
<1>2. /\ g.to = p /\ g.total = d /\ g.count = c /\ g.type = e.type /\ g.from = e.from
      /\ h.to = p /\ h.total = d /\ h.count = c /\ h.type = e.type /\ h.from = e.from
    BY DEF FoundRecs
<1> HIDE DEF g, h
<1>3. \A x, y \in FoundRecs : x.type = y.type /\ x.from = y.from /\ x.to = y.to
                            /\ x.total = y.total /\ x.count = y.count => x = y
    BY DEF FoundRecs
<1>4. g = h
    BY <1>1, <1>2, <1>3
<1> QED BY <1>4 DEF g, h

(* The words from a to k are in one entity, which ends no earlier.         *)
Running(a, k) ==
    /\ a \in 1..k /\ TypeOf(a) # "none" /\ TypeOf(a) = TypeOf(k)
    /\ ~Joined(a) /\ \A j \in a + 1..k : Joined(j)
EndedBefore(k) == {s \in Stretches : s[2] < k}
(* What is decoded once the words up to k are: the entities that end before*)
(* k, and the one k is in.                                                 *)
DecodedTo(v, k) ==
    /\ v \in Accs
    /\ ToSet(v.out) = {EntityOf(s) : s \in EndedBefore(k)}
    /\ (k = 0 \/ TypeOf(k) = "none") => v.open = <<>>
    /\ k # 0 /\ TypeOf(k) # "none" => \E a \in 1..k : Running(a, k) /\ v.open = <<EntityOf(<<a, k>>)>>

LEMMA JoinedIs ==
    ASSUME Windowed, NEW k
    PROVE  Joined(k) => /\ k \in 1..WordsSeen /\ k - 1 \in 1..WordsSeen /\ TypeOf(k) # "none"
                        /\ TypeOf(k) = TypeOf(k - 1) /\ InfoAt(k).tag = "I"
<1>1. Visible = 1..WordsSeen
    BY PiecesRise
<1> QED BY <1>1 DEF Joined, InfoAt

(* The stretch a word ends is the one that runs at it.                     *)
LEMMA EndedHere ==
    ASSUME Windowed, NEW k \in 0..WordsSeen, ~Joined(k + 1)
    PROVE  /\ \A s \in Stretches : s[2] = k => k # 0 /\ TypeOf(k) # "none"
           /\ \A a : Running(a, k) =>
                 /\ <<a, k>> \in Stretches
                 /\ \A s \in Stretches : s[2] = k => s = <<a, k>>
<1>1. Visible = 1..WordsSeen /\ WordsSeen \in Nat /\ k \in Nat
    BY PiecesRise
<1>2. ASSUME NEW s \in Stretches, s[2] = k
      PROVE  /\ k # 0 /\ TypeOf(k) # "none" /\ s[1] \in 1..k /\ s = <<s[1], k>>
             /\ ~Joined(s[1]) /\ \A j \in s[1] + 1..k : Joined(j)
    <2>1. /\ s \in Visible \X Visible /\ s[1] <= s[2] /\ TypeOf(s[1]) # "none"
          /\ ~Joined(s[1]) /\ \A j \in s[1] + 1..s[2] : Joined(j)
        BY DEF Stretches
    <2> DEFINE a == s[1]
               b == s[2]
    <2>2. a \in 1..WordsSeen /\ b \in 1..WordsSeen /\ s = <<a, b>> /\ a <= b
        BY <2>1, <1>1
    <2>3. \A j \in a + 1..b : Joined(j)
        BY <2>1
    <2>4. TypeOf(a) # "none" /\ ~Joined(a) /\ b = k
        BY <2>1, <1>2
    <2> HIDE DEF a, b
    <2>5. TypeOf(k) # "none"
        <3>1. CASE a = b
            BY <3>1, <2>4
        <3>2. CASE a # b
            <4>1. k \in a + 1..b
                BY <3>2, <2>2, <2>4, <1>1
            <4> QED BY <4>1, <2>3, JoinedIs
        <3> QED BY <3>1, <3>2
    <2>6. k # 0 /\ a \in 1..k
        BY <2>2, <2>4, <1>1
    <2> QED BY <2>2, <2>3, <2>4, <2>5, <2>6 DEF a
<1>3. ASSUME NEW a, Running(a, k)
      PROVE  <<a, k>> \in Stretches /\ \A s \in Stretches : s[2] = k => s = <<a, k>>
    <2>1. /\ a \in 1..k /\ TypeOf(a) # "none" /\ ~Joined(a)
          /\ \A j \in a + 1..k : Joined(j)
        BY <1>3 DEF Running
    <2>2. a \in 1..WordsSeen /\ k \in 1..WordsSeen /\ a <= k /\ a \in Nat
        BY <2>1, <1>1
    <2>3. <<a, k>> \in Stretches
        BY <2>1, <2>2, <1>1 DEF Stretches
    <2>4. ASSUME NEW s \in Stretches, s[2] = k PROVE s = <<a, k>>
        <3> DEFINE b == s[1]
        <3>1. b \in 1..k /\ s = <<b, k>> /\ ~Joined(b) /\ \A j \in b + 1..k : Joined(j)
            BY <2>4, <1>2
        <3> HIDE DEF b
        <3>2. ~(b < a)
            <4>1. b < a => a \in b + 1..k
                BY <3>1, <2>2, <1>1
            <4> QED BY <4>1, <3>1, <2>1
        <3>3. ~(a < b)
            <4>1. a < b => b \in a + 1..k
                BY <3>1, <2>2, <1>1
            <4> QED BY <4>1, <3>1, <2>1
        <3>4. a = b
            BY <3>1, <3>2, <3>3, <2>2, <1>1
        <3> QED BY <3>1, <3>4
    <2> QED BY <2>3, <2>4
<1> QED BY <1>2, <1>3

(* Once it is flushed, all entities that end at k or before are out.       *)
LEMMA FlushIs ==
    ASSUME Windowed, Judged, Labelled, NEW k \in 0..WordsSeen, ~Joined(k + 1), NEW v, DecodedTo(v, k)
    PROVE  /\ v.out \o v.open \in Seq(FoundRecs)
           /\ ToSet(v.out \o v.open) = {EntityOf(s) : s \in EndedBefore(k + 1)}
<1>1. k \in Nat /\ WordsSeen \in Nat /\ Visible = 1..WordsSeen
    BY PiecesRise
<1>2. /\ v.out \in Seq(FoundRecs) /\ v.open \in Seq(FoundRecs)
      /\ ToSet(v.out) = {EntityOf(s) : s \in EndedBefore(k)}
      /\ (k = 0 \/ TypeOf(k) = "none") => v.open = <<>>
      /\ k # 0 /\ TypeOf(k) # "none" => \E a \in 1..k : Running(a, k) /\ v.open = <<EntityOf(<<a, k>>)>>
    BY DEF DecodedTo, Accs
<1>3. v.out \o v.open \in Seq(FoundRecs) /\ ToSet(v.out \o v.open) = ToSet(v.out) \cup ToSet(v.open)
    BY <1>2, ToSetConcat, ConcatElements
<1> DEFINE here == {s \in Stretches : s[2] = k}
<1>4. EndedBefore(k + 1) = EndedBefore(k) \cup here
    <2>1. \A s \in Stretches : s[2] \in Nat
        BY <1>1 DEF Stretches
    <2>2. \A s \in Stretches : s[2] < k + 1 <=> s[2] < k \/ s[2] = k
        <3> SUFFICES ASSUME NEW s \in Stretches PROVE s[2] < k + 1 <=> s[2] < k \/ s[2] = k
            OBVIOUS
        <3> DEFINE b == s[2]
        <3>1. b \in Nat
            BY <2>1
        <3> HIDE DEF b
        <3>2. b < k + 1 <=> b < k \/ b = k
            BY <3>1, <1>1
        <3> QED BY <3>2 DEF b
    <2> QED BY <2>2 DEF EndedBefore
<1>5. ToSet(v.open) = {EntityOf(s) : s \in here}
    <2>1. CASE k = 0 \/ TypeOf(k) = "none"
        <3>1. here = {}
            BY <2>1, EndedHere
        <3>2. v.open = <<>>
            BY <2>1, <1>2
        <3>3. ToSet(<<>>) = {}
            BY DEF ToSet
        <3> QED BY <3>1, <3>2, <3>3
    <2>2. CASE k # 0 /\ TypeOf(k) # "none"
        <3>1. PICK a \in 1..k : Running(a, k) /\ v.open = <<EntityOf(<<a, k>>)>>
            BY <2>2, <1>2
        <3>2. here = {<<a, k>>}
            BY <3>1, EndedHere
        <3>3. \A x : ToSet(<<x>>) = {x}
            BY DEF ToSet
        <3> QED BY <3>1, <3>2, <3>3
    <2> QED BY <2>1, <2>2
<1> HIDE DEF here
<1> QED BY <1>2, <1>3, <1>4, <1>5

(* The words up to the next one are decoded too.                           *)
LEMMA DecodeGoesOn ==
    ASSUME Windowed, Judged, Labelled, NEW i \in 0..Len(pieces) - 1, FirstPiece(i + 1),
           NEW v, DecodedTo(v, WordAtPiece(i))
    PROVE  DecodedTo(DecodePiece(v, i + 1), WordAtPiece(i + 1))
<1> DEFINE k == WordAtPiece(i)
           m == WordAtPiece(i + 1)
           info == InfoAt(m)
           r == DecodePiece(v, i + 1)
<1>1. /\ Len(pieces) \in Nat /\ WordsSeen \in Nat /\ Visible = 1..WordsSeen
      /\ k \in 0..WordsSeen /\ WordsSeen \in 0..Len(wordsRead) /\ Len(wordsRead) \in Nat
    BY PiecesRise
<1>2. i + 1 \in 1..Len(pieces)
    BY <1>1
<1>3. m = k + 1 /\ HeadOf(m) = i + 1 /\ m \in 1..WordsSeen /\ pieces[i + 1].word = m
    BY <1>2, FirstIs, PiecesRise
<1>4. judged[i + 1][2] = SaidOf(m) /\ InfoOf(judged[i + 1][1]) = info
    BY <1>3 DEF SaidOf, InfoAt
<1>5. /\ SaidOf(m) \in Nat /\ info \in LabelRecs /\ TypeOf(m) = info.type
      /\ TypeOf(m) \in NerTypes \cup {"none"}
    BY <1>3, SaidIs
<1>6. /\ v \in Accs /\ v.out \in Seq(FoundRecs) /\ v.open \in Seq(FoundRecs)
      /\ ToSet(v.out) = {EntityOf(s) : s \in EndedBefore(k)}
      /\ (k = 0 \/ TypeOf(k) = "none") => v.open = <<>>
      /\ k # 0 /\ TypeOf(k) # "none" => \E a \in 1..k : Running(a, k) /\ v.open = <<EntityOf(<<a, k>>)>>
    BY DEF DecodedTo, Accs
<1>7. Trust[m] = Trust[k] + SaidOf(m) /\ Trust[k] \in Nat /\ Trust[m] \in Nat
    <2>1. m - 1 = k /\ k \in 0..Len(wordsRead) /\ m \in 0..Len(wordsRead)
        BY <1>1, <1>3
    <2> QED BY <2>1, <1>3, TrustIs
<1>8. r = IF info.tag = "I" /\ v.open # <<>> /\ v.open[1].type = info.type
          THEN [v EXCEPT !.open = Going(@, i + 1)]
          ELSE [out |-> v.out \o v.open,
                open |-> IF info.tag = "O" THEN <<>> ELSE Starting(i + 1, info)]
    BY <1>4 DEF DecodePiece
<1> HIDE DEF r, info, m, k
<1>9. CASE Joined(m)
    <2>1. m - 1 = k /\ k \in 1..WordsSeen
        <3>1. m - 1 \in 1..WordsSeen
            BY <1>9, JoinedIs
        <3> QED BY <3>1, <1>1, <1>3
    <2>2. TypeOf(m) # "none" /\ TypeOf(m) = TypeOf(k) /\ info.tag = "I"
        BY <1>9, <2>1, JoinedIs DEF info
    <2>3. PICK a \in 1..k : Running(a, k) /\ v.open = <<EntityOf(<<a, k>>)>>
        BY <2>1, <2>2, <1>6
    <2>4. /\ a \in 1..WordsSeen /\ k \in a..WordsSeen /\ m \in a..WordsSeen
          /\ a \in Nat /\ k \in Nat
        BY <2>1, <1>1, <1>3
    <2>5. TypeOf(a) # "none" /\ TypeOf(a) = TypeOf(k) /\ ~Joined(a) /\ \A j \in a + 1..k : Joined(j)
        BY <2>3 DEF Running
    <2> DEFINE e == EntityOf(<<a, k>>)
    <2>6. /\ e.type = TypeOf(a)
          /\ e = [type |-> TypeOf(a), from |-> a, to |-> k,
                  total |-> Trust[k] - Trust[a - 1], count |-> k - a + 1]
        BY <2>4, <2>5, EntityIs
    <2>7. /\ EntityOf(<<a, m>>) \in FoundRecs
          /\ EntityOf(<<a, m>>) = [type |-> TypeOf(a), from |-> a, to |-> m,
                                    total |-> Trust[m] - Trust[a - 1], count |-> m - a + 1]
        BY <2>4, <2>5, EntityIs
    <2> HIDE DEF e
    <2>8. v.open = <<e>> /\ v.open # <<>> /\ v.open[1] = e
        BY <2>3 DEF e
    <2>9. v.open[1].type = info.type
        BY <2>2, <2>5, <2>6, <2>8, <1>5
    <2>10. r = [v EXCEPT !.open = Going(@, i + 1)]
        BY <2>2, <2>8, <2>9, <1>8
    <2>11. Going(v.open, i + 1) = <<EntityOf(<<a, m>>)>>
        <3>1. Going(v.open, i + 1) =
                <<[e EXCEPT !.to = m, !.total = @ + SaidOf(m), !.count = @ + 1]>>
            BY <2>8, <1>3, <1>4 DEF Going
        <3> DEFINE x == Trust[k]
                   y == Trust[a - 1]
                   z == SaidOf(m)
        <3>2. x \in Nat /\ y \in Nat /\ z \in Nat /\ Trust[m] = x + z
            <4>1. a - 1 \in 0..Len(wordsRead)
                BY <2>4, <1>1
            <4> QED BY <4>1, <1>5, <1>7, TrustIs
        <3> HIDE DEF x, y, z
        <3>3. (x - y) + z = (x + z) - y /\ (k - a + 1) + 1 = m - a + 1
            BY <3>2, <2>4, <1>3
        <3>4. [e EXCEPT !.to = m, !.total = @ + z, !.count = @ + 1] =
                [type |-> TypeOf(a), from |-> a, to |-> m, total |-> (x - y) + z, count |-> (k - a + 1) + 1]
            <4>1. /\ e.type = TypeOf(a) /\ e.from = a /\ e.total = x - y /\ e.count = k - a + 1
                BY <2>6 DEF x, y
            <4>2. e \in FoundRecs /\ e.total + z \in Int /\ e.count + 1 \in Nat /\ m \in Nat
                <5>1. e \in FoundRecs
                    BY <2>4, <2>5, EntityIs DEF e
                <5>2. k - a + 1 \in Nat /\ x - y \in Int
                    BY <3>2, <2>4
                <5> QED BY <5>1, <5>2, <4>1, <3>2, <2>4
            <4>3. [e EXCEPT !.to = m, !.total = e.total + z, !.count = e.count + 1] =
                    [type |-> e.type, from |-> e.from, to |-> m, total |-> e.total + z, count |-> e.count + 1]
                BY <4>2, ChangedEntity
            <4> QED BY <4>1, <4>3
        <3>5. EntityOf(<<a, m>>) = [type |-> TypeOf(a), from |-> a, to |-> m,
                                    total |-> (x + z) - y, count |-> m - a + 1]
            BY <2>7, <3>2 DEF y
        <3>6. [e EXCEPT !.to = m, !.total = @ + z, !.count = @ + 1] = EntityOf(<<a, m>>)
            BY <3>3, <3>4, <3>5
        <3> QED BY <3>1, <3>6 DEF z
    <2>12. r = [out |-> v.out, open |-> <<EntityOf(<<a, m>>)>>]
        <3>1. v = [out |-> v.out, open |-> v.open]
            BY <1>6 DEF Accs
        <3> QED BY <3>1, <2>10, <2>11
    <2>13. r \in Accs
        <3>1. <<EntityOf(<<a, m>>)>> \in Seq(FoundRecs)
            BY <2>7
        <3> QED BY <3>1, <2>12, <1>6 DEF Accs
    <2>14. EndedBefore(m) = EndedBefore(k)
        <3>1. \A s \in Stretches : s[2] \in Nat /\ ~Joined(s[2] + 1)
            BY <1>1 DEF Stretches
        <3>2. ASSUME NEW s \in Stretches PROVE s[2] < m <=> s[2] < k
            <4> DEFINE b == s[2]
            <4>1. b \in Nat /\ ~Joined(b + 1)
                BY <3>1
            <4>2. b # k
                BY <4>1, <1>3, <1>9
            <4> HIDE DEF b
            <4>3. b < m <=> b < k
                BY <4>1, <4>2, <1>3, <2>4
            <4> QED BY <4>3 DEF b
        <3> QED BY <3>2 DEF EndedBefore
    <2>15. Running(a, m)
        <3>1. \A j \in a + 1..m : j \in a + 1..k \/ j = m
            BY <2>4, <1>3
        <3>2. a \in 1..m
            BY <2>4, <1>3
        <3> QED BY <3>1, <3>2, <2>2, <2>5, <1>9 DEF Running
    <2>16. a \in 1..m /\ m # 0
        BY <2>4, <1>3
    <2>17. ToSet(r.out) = {EntityOf(s) : s \in EndedBefore(m)}
        BY <2>12, <2>14, <1>6
    <2>18. r.open = <<EntityOf(<<a, m>>)>>
        BY <2>12
    <2>19. DecodedTo(r, m)
        BY <2>2, <2>13, <2>15, <2>16, <2>17, <2>18 DEF DecodedTo
    <2> QED BY <2>19 DEF r, m
<1>10. CASE ~Joined(m)
    <2> DEFINE u == v.out \o v.open
    <2>1. u \in Seq(FoundRecs) /\ ToSet(u) = {EntityOf(s) : s \in EndedBefore(m)}
        <3>1. ~Joined(k + 1) /\ DecodedTo(v, k)
            BY <1>3, <1>10 DEF k
        <3> QED BY <3>1, <1>1, <1>3, FlushIs
    <2>2. ~(info.tag = "I" /\ v.open # <<>> /\ v.open[1].type = info.type)
        <3> SUFFICES ASSUME info.tag = "I", v.open # <<>>, v.open[1].type = info.type PROVE FALSE
            OBVIOUS
        <3>1. k # 0 /\ TypeOf(k) # "none"
            BY <1>6
        <3>2. PICK a \in 1..k : Running(a, k) /\ v.open = <<EntityOf(<<a, k>>)>>
            BY <3>1, <1>6
        <3>3. a \in 1..WordsSeen /\ k \in a..WordsSeen /\ TypeOf(a) # "none" /\ TypeOf(a) = TypeOf(k)
            BY <3>2, <1>1 DEF Running
        <3>4. EntityOf(<<a, k>>).type = TypeOf(a)
            BY <3>3, EntityIs
        <3>5. v.open[1].type = TypeOf(k)
            BY <3>2, <3>3, <3>4
        <3>6. k \in 1..WordsSeen /\ m - 1 = k
            BY <3>1, <1>1, <1>3
        <3>7. Joined(m)
            BY <3>1, <3>5, <3>6, <1>1, <1>3, <1>5 DEF Joined, InfoAt, info
        <3> QED BY <3>7, <1>10
    <2>3. r = [out |-> u, open |-> Starting(i + 1, info)]
        <3>1. CASE info.tag # "O"
            BY <3>1, <2>2, <1>8
        <3>2. CASE info.tag = "O"
            <4>1. info.type = "none"
                BY <3>2, <1>5 DEF LabelRecs
            <4>2. Starting(i + 1, info) = <<>>
                BY <4>1 DEF Starting
            <4> QED BY <4>2, <3>2, <2>2, <1>8
        <3> QED BY <3>1, <3>2
    <2> HIDE DEF u
    <2>4. CASE info.type = "none"
        <3>1. Starting(i + 1, info) = <<>>
            BY <2>4 DEF Starting
        <3>2. r.out = u /\ r.open = <<>> /\ r \in Accs
            <4>1. r = [out |-> u, open |-> <<>>] /\ <<>> \in Seq(FoundRecs)
                BY <3>1, <2>3
            <4> QED BY <4>1, <2>1 DEF Accs
        <3>3. TypeOf(m) = "none"
            BY <2>4, <1>5
        <3>4. DecodedTo(r, m)
            BY <3>2, <3>3, <2>1 DEF DecodedTo
        <3> QED BY <3>4 DEF r, m
    <2>5. CASE info.type # "none"
        <3>1. Starting(i + 1, info) =
                <<[type |-> TypeOf(m), from |-> m, to |-> m, total |-> SaidOf(m), count |-> 1]>>
            BY <2>5, <1>3, <1>4, <1>5 DEF Starting
        <3>2. /\ EntityOf(<<m, m>>) \in FoundRecs
              /\ EntityOf(<<m, m>>) = [type |-> TypeOf(m), from |-> m, to |-> m,
                                        total |-> Trust[m] - Trust[m - 1], count |-> m - m + 1]
            <4>1. m \in 1..WordsSeen /\ m \in m..WordsSeen /\ TypeOf(m) # "none"
                BY <2>5, <1>1, <1>3, <1>5
            <4> QED BY <4>1, EntityIs
        <3>3. Trust[m] - Trust[m - 1] = SaidOf(m) /\ m - m + 1 = 1
            <4> DEFINE x == Trust[k]
                       z == SaidOf(m)
            <4>1. x \in Nat /\ z \in Nat /\ Trust[m] = x + z /\ m - 1 = k /\ m \in Nat
                BY <1>1, <1>3, <1>5, <1>7
            <4> HIDE DEF x, z
            <4>2. (x + z) - x = z /\ m - m + 1 = 1
                BY <4>1
            <4> QED BY <4>1, <4>2 DEF x, z
        <3>4. Starting(i + 1, info) = <<EntityOf(<<m, m>>)>>
            BY <3>1, <3>2, <3>3
        <3>5. r.out = u /\ r.open = <<EntityOf(<<m, m>>)>>
            BY <3>4, <2>3
        <3>6. r \in Accs
            <4>1. <<EntityOf(<<m, m>>)>> \in Seq(FoundRecs)
                BY <3>2
            <4> QED BY <4>1, <3>4, <2>1, <2>3 DEF Accs
        <3>7. m \in 1..m /\ m # 0
            BY <1>1, <1>3
        <3>8. Running(m, m)
            <4>1. m + 1..m = {}
                BY <3>7
            <4> QED BY <4>1, <3>7, <2>5, <1>5, <1>10 DEF Running
        <3>9. TypeOf(m) # "none"
            BY <2>5, <1>5
        <3>10. DecodedTo(r, m)
            BY <3>5, <3>6, <3>7, <3>8, <3>9, <2>1 DEF DecodedTo
        <3> QED BY <3>10 DEF r, m
    <2> QED BY <2>4, <2>5
<1> QED BY <1>9, <1>10

(* A piece leaves lists of entities.                                       *)
LEMMA PieceKeepsType ==
    ASSUME Windowed, Judged, Labelled, NEW i \in 1..Len(pieces), NEW v \in Accs
    PROVE  DecodePiece(v, i) \in Accs
<1> DEFINE info == InfoOf(judged[i][1])
           w == pieces[i].word
           c == judged[i][2]
<1>1. w \in Nat
    BY PiecesRise DEF PieceRecs
<1>2. c \in Nat
    <2>1. judged[i] \in LabelIds \X Sureness
        BY DEF Judged
    <2> QED BY <2>1, DirAssumption
<1>3. info \in LabelRecs
    BY InfoIs
<1>4. v.out \in Seq(FoundRecs) /\ v.open \in Seq(FoundRecs) /\ v = [out |-> v.out, open |-> v.open]
    BY DEF Accs
<1>5. v.out \o v.open \in Seq(FoundRecs)
    BY <1>4, ConcatElements
<1>6. Starting(i, info) \in Seq(FoundRecs)
    <2>1. CASE info.type = "none"
        BY <2>1 DEF Starting
    <2>2. CASE info.type # "none"
        <3> DEFINE e == [type |-> info.type, from |-> w, to |-> w, total |-> c, count |-> 1]
        <3>1. Starting(i, info) = <<e>>
            BY <2>2 DEF Starting
        <3> HIDE DEF info, w, c
        <3>2. info.type \in NerTypes /\ c \in Int
            BY <2>2, <1>2, <1>3 DEF LabelRecs
        <3>3. e \in FoundRecs
            BY <3>2, <1>1 DEF FoundRecs
        <3> HIDE DEF e
        <3> QED BY <3>1, <3>3
    <2> QED BY <2>1, <2>2
<1>7. v.open # <<>> => Going(v.open, i) \in Seq(FoundRecs)
    <2> SUFFICES ASSUME v.open # <<>> PROVE Going(v.open, i) \in Seq(FoundRecs)
        OBVIOUS
    <2> DEFINE e == v.open[1]
               g == [e EXCEPT !.to = w, !.total = @ + c, !.count = @ + 1]
    <2>1. e \in FoundRecs
        BY <1>4
    <2>2. Going(v.open, i) = <<g>>
        BY DEF Going
    <2> HIDE DEF e, w, c
    <2> DEFINE x == e.total
               y == e.count
    <2>3. x \in Int /\ y \in Nat /\ x + c \in Int /\ y + 1 \in Nat
        BY <2>1, <1>2 DEF FoundRecs
    <2>4. g = [type |-> e.type, from |-> e.from, to |-> w, total |-> x + c, count |-> y + 1]
        BY <2>1, <2>3, <1>1, ChangedEntity DEF w
    <2> HIDE DEF x, y, g
    <2>5. g \in FoundRecs
        BY <2>1, <2>3, <2>4, <1>1 DEF FoundRecs
    <2> QED BY <2>2, <2>5
<1>8. CASE ~FirstPiece(i)
    <2>1. DecodePiece(v, i) = v
        BY <1>8 DEF DecodePiece
    <2> QED BY <2>1
<1>9. CASE FirstPiece(i) /\ info.tag = "I" /\ v.open # <<>> /\ v.open[1].type = info.type
    <2>1. DecodePiece(v, i) = [v EXCEPT !.open = Going(@, i)]
        BY <1>9 DEF DecodePiece
    <2>2. DecodePiece(v, i) = [out |-> v.out, open |-> Going(v.open, i)]
        BY <2>1, <1>4
    <2> QED BY <2>2, <1>4, <1>7, <1>9 DEF Accs
<1>10. CASE FirstPiece(i) /\ ~(info.tag = "I" /\ v.open # <<>> /\ v.open[1].type = info.type)
    <2> DEFINE u == v.out \o v.open
               st == Starting(i, info)
    <2>1. \/ DecodePiece(v, i) = [out |-> u, open |-> st]
          \/ DecodePiece(v, i) = [out |-> u, open |-> <<>>]
        BY <1>10 DEF DecodePiece
    <2>2. <<>> \in Seq(FoundRecs) /\ u \in Seq(FoundRecs) /\ st \in Seq(FoundRecs)
        BY <1>5, <1>6
    <2> HIDE DEF u, st
    <2>3. [out |-> u, open |-> st] \in Accs /\ [out |-> u, open |-> <<>>] \in Accs
        BY <2>2 DEF Accs
    <2> QED BY <2>1, <2>3
<1> QED BY <1>8, <1>9, <1>10

LEMMA DecodedAre ==
    ASSUME Windowed, Judged, Labelled
    PROVE  ToSet(Decoded.out \o Decoded.open) = {EntityOf(s) : s \in Stretches}
<1> DEFINE N    == Len(pieces)
           base == [out |-> <<>>, open |-> <<>>]
           Step(n, v) == DecodePiece(v, n)
           step == [p \in (0 + 1..N) \X Accs |-> Step(p[1], p[2])]
           F(f) == [n \in 0..N |-> IF n = 0 THEN base ELSE Step(n, f[n - 1])]
           f    == CHOOSE g : g = F(g)
<1>0. Decoded = f[N]
    BY DEF Decoded
<1>0a. /\ N \in Nat /\ WordsSeen \in Nat /\ Visible = 1..WordsSeen /\ WordsSeen = WordAtPiece(N)
       /\ WordAtPiece(0) = 0
       /\ \A j \in 0..N : WordAtPiece(j) \in 0..WordsSeen
    BY PiecesRise DEF WordsSeen
<1>1. N \in Nat /\ N \in Int /\ 0 \in Int /\ 0 <= N
    BY <1>0a
<1>2. base \in Accs
    BY DEF Accs
<1>3. ASSUME NEW n \in 1..N, NEW v \in Accs PROVE Step(n, v) \in Accs
    BY PieceKeepsType
<1>3a. base = [out |-> <<>>, open |-> <<>>]
    OBVIOUS
<1> HIDE DEF base, Step
<1>4. step \in [(0 + 1..N) \X Accs -> Accs]
    <2> HIDE DEF N
    <2>1. 0 + 1..N = 1..N
        BY <1>1
    <2> QED BY <2>1, <1>3
<1>5. PICK g \in [0..N -> Accs] : Recursion(g, 0, N, base, step)
    <2> HIDE DEF N, step, F, f
    <2> QED BY <1>1, <1>2, <1>4, RecursionExists
<1>6. g[0] = base
    BY <1>5 DEF Recursion
<1>7. ASSUME NEW n \in 1..N PROVE g[n] = Step(n, g[n - 1])
    <2>1. n \in 0 + 1..N /\ n - 1 \in 0..N
        BY <1>1
    <2>2. <<n, g[n - 1]>> \in (0 + 1..N) \X Accs /\ g[n] = step[<<n, g[n - 1]>>]
        <3> HIDE DEF step, N
        <3> QED BY <2>1, <1>5 DEF Recursion
    <2> HIDE DEF N
    <2>3. step[<<n, g[n - 1]>>] = Step(n, g[n - 1])
        BY <2>2
    <2> HIDE DEF step
    <2> QED BY <2>2, <2>3
<1>8. g = F(g)
    <2> HIDE DEF step, N
    <2>1. \A n \in 0..N : g[n] = F(g)[n]
        <3> SUFFICES ASSUME NEW n \in 0..N PROVE g[n] = F(g)[n]
            OBVIOUS
        <3>1. CASE n = 0
            BY <1>6, <3>1
        <3>2. CASE n # 0
            <4>1. n \in 1..N
                BY <1>1, <3>2
            <4> QED BY <1>7, <3>2, <4>1
        <3> HIDE DEF F
        <3> QED BY <3>1, <3>2
    <2> QED BY <1>5, <2>1
<1>9. f = F(f)
    <2> HIDE DEF F
    <2> QED BY <1>8
<1> HIDE DEF f
<1>10. f[0] = base
    <2> HIDE DEF N
    <2> QED BY <1>1, <1>9
<1>11. ASSUME NEW n \in 1..N PROVE f[n] = Step(n, f[n - 1])
    <2>1. n \in 0..N /\ n # 0
        BY <1>1
    <2> HIDE DEF N
    <2> QED BY <1>9, <2>1
<1>12. \A n \in 0..N : f[n] \in Accs
    <2> DEFINE T == {n \in 0..N : f[n] \in Accs}
    <2>1. 0 \in T
        <3> HIDE DEF N
        <3> QED BY <1>1, <1>2, <1>10
    <2>2. ASSUME NEW n \in 0..N - 1, n \in T PROVE n + 1 \in T
        <3>1. n + 1 \in 1..N /\ n + 1 \in 0..N /\ (n + 1) - 1 = n /\ f[n] \in Accs
            BY <2>2, <1>1
        <3> HIDE DEF N
        <3>2. f[n + 1] = Step(n + 1, f[n])
            BY <3>1, <1>11
        <3> QED BY <3>1, <3>2, <1>3
    <2>3. 0..N \subseteq T
        <3> HIDE DEF T, N
        <3> QED BY <1>1, <2>1, <2>2, IntervalInduction
    <2> QED BY <2>3
<1> HIDE DEF N
<1> DEFINE T == {j \in 0..N : DecodedTo(f[j], WordAtPiece(j))}
<1>13. 0 \in T
    <2>1. EndedBefore(0) = {}
        BY <1>0a DEF EndedBefore, Stretches
    <2>2. ToSet(<<>>) = {}
        BY DEF ToSet
    <2>3. DecodedTo(base, 0)
        BY <2>1, <2>2, <1>2, <1>3a DEF DecodedTo
    <2> QED BY <2>3, <1>0a, <1>1, <1>10
<1>14. ASSUME NEW j \in 0..N - 1, j \in T PROVE j + 1 \in T
    <2>1. j + 1 \in 1..N /\ j + 1 \in 0..N /\ (j + 1) - 1 = j /\ j \in 0..Len(pieces) - 1
        BY <1>1 DEF N
    <2>2. f[j + 1] = DecodePiece(f[j], j + 1)
        BY <2>1, <1>11 DEF Step
    <2>3. DecodedTo(f[j], WordAtPiece(j))
        BY <1>14
    <2>4. CASE FirstPiece(j + 1)
        BY <2>1, <2>2, <2>3, <2>4, DecodeGoesOn
    <2>5. CASE ~FirstPiece(j + 1)
        <3>1. DecodePiece(f[j], j + 1) = f[j]
            BY <2>5 DEF DecodePiece
        <3>2. WordAtPiece(j + 1) = WordAtPiece(j)
            BY <2>1, <2>5, FirstIs
        <3> QED BY <3>1, <3>2, <2>1, <2>2, <2>3
    <2> QED BY <2>4, <2>5
<1>15. 0..N \subseteq T
    <2> HIDE DEF T
    <2> QED BY <1>1, <1>13, <1>14, IntervalInduction
<1>16. DecodedTo(f[N], WordsSeen)
    <2>1. N \in 0..N
        BY <1>1
    <2> QED BY <2>1, <1>0a, <1>15
<1>17. ~Joined(WordsSeen + 1) /\ WordsSeen \in 0..WordsSeen
    <2>1. WordsSeen + 1 \notin 1..WordsSeen
        BY <1>0a
    <2> QED BY <2>1, <1>0a, JoinedIs
<1>18. EndedBefore(WordsSeen + 1) = Stretches
    BY <1>0a DEF EndedBefore, Stretches
<1> HIDE DEF f
<1>19. ToSet(f[N].out \o f[N].open) = {EntityOf(s) : s \in EndedBefore(WordsSeen + 1)}
    BY <1>16, <1>17, FlushIs
<1> QED BY <1>0, <1>18, <1>19

(* Between the steps of a pass: the directory and the words are as given,  *)
(* a label without a tag has no type, and the pieces are those of the      *)
(* window, judged from the first on.                                       *)
PassInv ==
    /\ modelDir \in ModelDirs /\ HasWords /\ Labelled
    /\ passStep \in {"load", "tokenize", "infer", "decode", "done", "refused"}
    /\ judged \in Seq(LabelIds \X Sureness)
    /\ passStep \in {"load", "tokenize"} => pieces = <<>> /\ judged = <<>>
    /\ passStep \in {"infer", "decode", "done"} => pieces = PieceWindow
    /\ passStep = "infer" => Len(judged) <= Len(pieces)
    /\ passStep \in {"decode", "done"} => Len(judged) = Len(pieces)
    /\ LabelledWordsAreReported

LEMMA BuiltMapIs ==
    ASSUME NEW d \in ModelDirs
    PROVE  BuildLabelMap(d) \in Seq(LabelRecs)
<1>1. CASE d.map \in {"labels", "id2label"}
    <2>1. d.names \in Seq({"O", "B", "I", "other"} \X STRING)
        BY DirAssumption
    <2> DEFINE N == Len(d.names)
    <2>2. N \in Nat /\ DOMAIN d.names = 1..N
        BY <2>1
    <2>3. \A n : ParseLabelName(n) \in LabelRecs
        BY DEF ParseLabelName, EntityToPiiType, LabelRecs, PieceTags
    <2>4. BuildLabelMap(d) = [i \in 1..N |-> ParseLabelName(d.names[i])]
        BY <1>1, <2>2 DEF BuildLabelMap
    <2> HIDE DEF N
    <2> QED BY <2>2, <2>3, <2>4
<1>2. CASE d.map \notin {"labels", "id2label"}
    <2> DEFINE types == <<"PER", "LOC", "ORG", "HEALTH", "CHILD">>
    <2>1. \A i \in 1..11 : i # 1 => i \div 2 \in 1..5
        OBVIOUS
    <2>2. \A k \in 1..5 : types[k] \in NerTypes
        BY DEF NerTypes
    <2>3. ASSUME NEW i \in 1..11 PROVE DefaultLabelMap[i] \in LabelRecs
        <3>1. CASE i = 1
            BY <3>1 DEF DefaultLabelMap, LabelRecs, PieceTags
        <3>2. CASE i # 1
            <4> DEFINE t == types[i \div 2]
                       g == IF i % 2 = 0 THEN "B" ELSE "I"
            <4>1. DefaultLabelMap[i] = [tag |-> g, type |-> t]
                BY <3>2 DEF DefaultLabelMap
            <4>2. t \in NerTypes /\ g \in {"B", "I"}
                BY <3>2, <2>1, <2>2
            <4> HIDE DEF t, g
            <4> QED BY <4>1, <4>2 DEF LabelRecs, PieceTags
        <3> QED BY <3>1, <3>2
    <2>4. DefaultLabelMap = [i \in 1..11 |-> DefaultLabelMap[i]]
        BY DEF DefaultLabelMap
    <2> DEFINE D == DefaultLabelMap
    <2>5. BuildLabelMap(d) = D
        BY <1>2 DEF BuildLabelMap
    <2> HIDE DEF D
    <2>6. D = [i \in 1..11 |-> D[i]] /\ \A i \in 1..11 : D[i] \in LabelRecs
        BY <2>3, <2>4 DEF D
    <2>7. [i \in 1..11 |-> D[i]] \in Seq(LabelRecs)
        <3> DEFINE M == 11
        <3>1. M \in Nat /\ \A i \in 1..M : D[i] \in LabelRecs
            BY <2>6
        <3> HIDE DEF M
        <3>2. [i \in 1..M |-> D[i]] \in Seq(LabelRecs)
            BY <3>1
        <3> QED BY <3>2 DEF M
    <2> QED BY <2>5, <2>6, <2>7
<1> QED BY <1>1, <1>2

LEMMA PassStarts == TokenInit => PassInv
<1> SUFFICES ASSUME TokenInit PROVE PassInv
    OBVIOUS
<1>1. /\ modelDir \in ModelDirs /\ wordsRead \in Passages
      /\ labelMap = <<>> /\ pieces = <<>> /\ judged = <<>> /\ passStep = "load"
    BY DEF TokenInit
<1>2. HasWords
    BY <1>1, DirAssumption DEF HasWords
<1>3. Labelled /\ judged \in Seq(LabelIds \X Sureness)
    BY <1>1 DEF Labelled
<1>4. LabelledWordsAreReported
    BY <1>1 DEF LabelledWordsAreReported
<1> QED BY <1>1, <1>2, <1>3, <1>4 DEF PassInv

LEMMA DecodingReports ==
    ASSUME PassInv, DecodeTags
    PROVE  LabelledWordsAreReported'
<1>1. /\ passStep = "decode" /\ passStep' = "done"
      /\ persons' = {[type |-> e.type, from |-> e.from, to |-> e.to]
                       : e \in {x \in ToSet(Decoded.out \o Decoded.open) : x.total >= NerThreshold * x.count}}
      /\ modelDir' = modelDir /\ labelMap' = labelMap /\ wordsRead' = wordsRead
      /\ pieces' = pieces /\ judged' = judged
    BY DEF DecodeTags
<1>2. Windowed /\ Judged /\ Labelled
    BY <1>1 DEF PassInv, Windowed, Judged
<1>3. ToSet(Decoded.out \o Decoded.open) = {EntityOf(s) : s \in Stretches}
    BY <1>2, DecodedAre
<1> DEFINE Sure(s) == Trust[s[2]] - Trust[s[1] - 1] >= NerThreshold * (s[2] - s[1] + 1)
           P(s) == [type |-> TypeOf(s[1]), from |-> s[1], to |-> s[2]]
<1>4. \A s \in Stretches :
        /\ EntityOf(s).type = TypeOf(s[1]) /\ EntityOf(s).from = s[1] /\ EntityOf(s).to = s[2]
        /\ EntityOf(s).total >= NerThreshold * EntityOf(s).count <=> Sure(s)
    BY DEF EntityOf
<1>5. persons' = {P(s) : s \in {t \in Stretches : Sure(t)}}
    <2> DEFINE E == {EntityOf(s) : s \in Stretches}
               K == {x \in E : x.total >= NerThreshold * x.count}
               Q(e) == [type |-> e.type, from |-> e.from, to |-> e.to]
    <2>1. persons' = {Q(e) : e \in K}
        BY <1>1, <1>3
    <2>2. \A s \in Stretches : EntityOf(s) \in K <=> Sure(s)
        BY <1>4
    <2>3. \A s \in Stretches : Q(EntityOf(s)) = P(s)
        BY <1>4
    <2>4. \A e \in K : \E s \in Stretches : e = EntityOf(s)
        OBVIOUS
    <2> HIDE DEF K, Q, P, Sure
    <2>5. ASSUME NEW x \in {Q(e) : e \in K} PROVE x \in {P(s) : s \in {t \in Stretches : Sure(t)}}
        <3>1. PICK e \in K : x = Q(e)
            OBVIOUS
        <3>2. PICK s \in Stretches : e = EntityOf(s)
            BY <2>4
        <3> QED BY <3>1, <3>2, <2>2, <2>3
    <2>6. ASSUME NEW x \in {P(s) : s \in {t \in Stretches : Sure(t)}} PROVE x \in {Q(e) : e \in K}
        <3>1. PICK s \in Stretches : Sure(s) /\ x = P(s)
            OBVIOUS
        <3> QED BY <3>1, <2>2, <2>3
    <2> QED BY <2>1, <2>5, <2>6
<1>6. /\ Stretches' = Stretches /\ Trust' = Trust
      /\ \A k : TypeOf(k)' = TypeOf(k)
    <2>1. Visible' = Visible /\ \A k : HeadOf(k)' = HeadOf(k)
        BY <1>1 DEF Visible, HeadOf
    <2>2. \A l : InfoOf(l)' = InfoOf(l)
        BY <1>1 DEF InfoOf
    <2>3. \A k : TypeOf(k)' = TypeOf(k) /\ Joined(k)' = Joined(k)
        BY <1>1, <2>1, <2>2 DEF TypeOf, Joined, InfoOf, Visible, HeadOf
    <2>4. Stretches' = Stretches
        BY <2>1, <2>3, <1>1 DEF Stretches, TypeOf, Joined, InfoOf, Visible, HeadOf
    <2>5. Trust' = Trust
        BY <1>1 DEF Trust, Visible, HeadOf
    <2> QED BY <2>3, <2>4, <2>5
<1> QED BY <1>5, <1>6 DEF LabelledWordsAreReported

LEMMA PassGoesOn == PassInv /\ [TokenNext]_tokenVars => PassInv'
<1> SUFFICES ASSUME PassInv, [TokenNext]_tokenVars PROVE PassInv'
    OBVIOUS
<1>1. /\ modelDir \in ModelDirs /\ HasWords /\ Labelled
      /\ passStep \in {"load", "tokenize", "infer", "decode", "done", "refused"}
      /\ judged \in Seq(LabelIds \X Sureness)
      /\ passStep \in {"load", "tokenize"} => pieces = <<>> /\ judged = <<>>
      /\ passStep \in {"infer", "decode", "done"} => pieces = PieceWindow
      /\ passStep = "infer" => Len(judged) <= Len(pieces)
      /\ passStep \in {"decode", "done"} => Len(judged) = Len(pieces)
      /\ LabelledWordsAreReported
    BY DEF PassInv
<1>2. CASE LoadModelDir
    <2>1. /\ passStep = "load" /\ passStep' \in {"tokenize", "refused"}
          /\ labelMap' = BuildLabelMap(modelDir) \/ labelMap' = labelMap
          /\ modelDir' = modelDir /\ wordsRead' = wordsRead /\ pieces' = pieces /\ judged' = judged
        BY <1>2 DEF LoadModelDir
    <2>2. Labelled'
        BY <2>1, <1>1, BuiltMapIs DEF Labelled
    <2>3. HasWords' /\ LabelledWordsAreReported'
        BY <2>1, <1>1 DEF HasWords, LabelledWordsAreReported
    <2> QED BY <2>1, <2>2, <2>3, <1>1 DEF PassInv
<1>3. CASE TokenizePassage
    <2>1. /\ passStep = "tokenize" /\ passStep' = "infer"
          /\ pieces' = PieceWindow
          /\ modelDir' = modelDir /\ labelMap' = labelMap /\ wordsRead' = wordsRead /\ judged' = judged
        BY <1>3 DEF TokenizePassage, PieceWindow
    <2>2. HasWords' /\ Labelled' /\ LabelledWordsAreReported'
        BY <2>1, <1>1 DEF HasWords, Labelled, LabelledWordsAreReported
    <2>3. PieceWindow' = PieceWindow
        BY <2>1 DEF PieceWindow, AllPieces, LabelledPieces
    <2>4. pieces' \in Seq(PieceRecs)
        <3>1. Complete(AllPieces, Len(wordsRead))
            BY <1>1, AllPiecesAre
        <3>2. AllPieces \in Seq(PieceRecs)
            BY <3>1 DEF Complete, SteadyPieces
        <3> DEFINE A == AllPieces
                   m == Min({Len(A), MaxLength - 2})
        <3>3. A \in Seq(PieceRecs) /\ Len(A) \in Nat /\ MaxLength - 2 \in Nat
            BY <3>2, DirAssumption
        <3> HIDE DEF A
        <3>4. m \in {Len(A), MaxLength - 2} /\ m <= Len(A)
            BY <3>3, SmallerIs
        <3> HIDE DEF m
        <3>5. m \in Nat /\ 1 \in Nat /\ 1 <= 1 /\ 1 <= m + 1
            BY <3>3, <3>4
        <3>6. SubSeq(A, 1, m) \in Seq(PieceRecs)
            BY <3>3, <3>4, <3>5, PartElements
        <3> QED BY <3>6, <2>1 DEF PieceWindow, A, m
    <2>5. Len(judged') <= Len(pieces')
        BY <2>1, <2>4, <1>1
    <2> QED BY <2>1, <2>2, <2>3, <2>5, <1>1 DEF PassInv
<1>4. CASE JudgePiece
    <2>1. /\ passStep = "infer"
          /\ \/ Len(judged) = Len(pieces) /\ passStep' = "decode" /\ judged' = judged
             \/ /\ Len(judged) # Len(pieces) /\ passStep' = "infer"
                /\ \E l \in LabelIds, c \in Sureness : judged' = Append(judged, <<l, c>>)
          /\ modelDir' = modelDir /\ labelMap' = labelMap /\ wordsRead' = wordsRead /\ pieces' = pieces
        BY <1>4 DEF JudgePiece
    <2>2. HasWords' /\ Labelled' /\ LabelledWordsAreReported'
        BY <2>1, <1>1 DEF HasWords, Labelled, LabelledWordsAreReported
    <2>3. PieceWindow' = PieceWindow
        BY <2>1 DEF PieceWindow, AllPieces, LabelledPieces
    <2>4. Len(pieces) \in Nat /\ Len(judged) \in Nat
        <3>1. Windowed
            BY <2>1, <1>1 DEF Windowed
        <3> QED BY <3>1, <1>1, PiecesRise
    <2>5. CASE judged' = judged /\ passStep' = "decode" /\ Len(judged) = Len(pieces)
        BY <2>1, <2>2, <2>3, <2>5, <1>1 DEF PassInv
    <2>6. CASE Len(judged) # Len(pieces) /\ passStep' = "infer"
               /\ \E l \in LabelIds, c \in Sureness : judged' = Append(judged, <<l, c>>)
        <3>1. PICK x \in LabelIds \X Sureness : judged' = Append(judged, x)
            BY <2>6
        <3>2. judged' \in Seq(LabelIds \X Sureness) /\ Len(judged') = Len(judged) + 1
            BY <3>1, <1>1
        <3>3. Len(judged') <= Len(pieces)
            BY <3>2, <2>1, <2>4, <2>6, <1>1
        <3> QED BY <3>2, <3>3, <2>1, <2>2, <2>3, <2>6, <1>1 DEF PassInv
    <2> QED BY <2>1, <2>5, <2>6
<1>5. CASE SinglePassFails
    <2>1. /\ passStep' = "refused"
          /\ modelDir' = modelDir /\ labelMap' = labelMap /\ wordsRead' = wordsRead /\ judged' = judged
        BY <1>5 DEF SinglePassFails
    <2>2. HasWords' /\ Labelled' /\ LabelledWordsAreReported'
        BY <2>1, <1>1 DEF HasWords, Labelled, LabelledWordsAreReported
    <2> QED BY <2>1, <2>2, <1>1 DEF PassInv
<1>6. CASE DecodeTags
    <2>1. /\ passStep = "decode" /\ passStep' = "done"
          /\ modelDir' = modelDir /\ labelMap' = labelMap /\ wordsRead' = wordsRead
          /\ pieces' = pieces /\ judged' = judged
        BY <1>6 DEF DecodeTags
    <2>2. HasWords' /\ Labelled'
        BY <2>1, <1>1 DEF HasWords, Labelled
    <2>3. PieceWindow' = PieceWindow
        BY <2>1 DEF PieceWindow, AllPieces, LabelledPieces
    <2>4. LabelledWordsAreReported'
        BY <1>6, DecodingReports
    <2> QED BY <2>1, <2>2, <2>3, <2>4, <1>1 DEF PassInv
<1>7. CASE UNCHANGED tokenVars
    <2>1. /\ modelDir' = modelDir /\ labelMap' = labelMap /\ wordsRead' = wordsRead
          /\ pieces' = pieces /\ judged' = judged /\ persons' = persons /\ passStep' = passStep
        BY <1>7 DEF tokenVars
    <2>2. HasWords' /\ Labelled'
        BY <2>1, <1>1 DEF HasWords, Labelled
    <2>3. PieceWindow' = PieceWindow
        BY <2>1 DEF PieceWindow, AllPieces, LabelledPieces
    <2>4. Stretches' = Stretches /\ Trust' = Trust /\ \A k : TypeOf(k)' = TypeOf(k)
        BY <2>1 DEF Stretches, TypeOf, Joined, InfoOf, Visible, HeadOf, Trust
    <2>5. LabelledWordsAreReported' <=> LabelledWordsAreReported
        BY <2>1, <2>4 DEF LabelledWordsAreReported
    <2> QED BY <2>1, <2>2, <2>3, <2>5, <1>1 DEF PassInv
<1> QED BY <1>2, <1>3, <1>4, <1>5, <1>6, <1>7 DEF TokenNext

LEMMA PassReports == PassInv => TokensAreReported
<1> SUFFICES ASSUME PassInv PROVE TokensAreReported
    OBVIOUS
<1>1. LabelledWordsAreReported
    BY DEF PassInv
<1>2. PiecesSpell
    <2> SUFFICES ASSUME passStep = "infer" PROVE PiecesSpell
        BY DEF PiecesSpell
    <2>1. Windowed
        BY DEF PassInv, Windowed
    <2>2. ASSUME NEW k \in Visible, NEW ps, ps = Those(pieces, {p \in Range(pieces) : p.word = k}),
                 NEW i \in DOMAIN ps
          PROVE  /\ ps[i].piece # <<"UNK">> =>
                       ps[i].piece = SubSeq(WordAsRead(k), BeginsOf(ps)[i - 1], BeginsOf(ps)[i] - 1)
                 /\ \A f \in BeginsOf(ps)[i]..Len(WordAsRead(k)) :
                       ~InVocabulary(modelDir, BeginsOf(ps)[i - 1],
                                     SubSeq(WordAsRead(k), BeginsOf(ps)[i - 1], f))
                 /\ k + 1 \in Visible /\ i = Len(ps) => BeginsOf(ps)[i] = Len(WordAsRead(k)) + 1
        BY <2>1, <2>2, WindowSpells
    <2> QED BY <2>2 DEF PiecesSpell, WordAsRead
<1> QED BY <1>1, <1>2 DEF TokensAreReported

(* Of the words the model sees the beginning of, those it labels are found *)
(* as entities, whole, and the pieces it is given spell them.              *)
THEOREM LabelledWordsFound == TokenSpec => []TokensAreReported
<1>1. TokenInit => PassInv
    BY PassStarts
<1>2. PassInv /\ [TokenNext]_tokenVars => PassInv'
    BY PassGoesOn
<1>3. PassInv => TokensAreReported
    BY PassReports
<1> QED BY <1>1, <1>2, <1>3, PTL DEF TokenSpec

-----------------------------------------------------------------------------
(* Where a word of a text is.                                              *)

WordCharacters == TextChars \cup Lowered

LEMMA ByteSizeIs ==
    /\ \A c \in WordCharacters : ByteSize[c] \in Nat /\ ByteSize[c] >= 1
    /\ \A c \in Ascii \cup {"-"} : ByteSize[c] = 1
BY DEF ByteSize, WordCharacters, Lowered, TextChars, Ascii

(* f has the size of each prefix of s.                                     *)
SizesBy(f, s) ==
    /\ f[0] = 0 /\ SizeOf(s) = f[Len(s)]
    /\ \A n \in 0..Len(s) : f[n] \in Nat
    /\ \A n \in 1..Len(s) : f[n] = f[n - 1] + ByteSize[s[n]]

LEMMA SizesExist ==
    ASSUME NEW s \in Seq(WordCharacters)
    PROVE  \E f : SizesBy(f, s)
<1> DEFINE N    == Len(s)
           base == 0
           Step(n, v) == v + ByteSize[s[n]]
           step == [p \in (0 + 1..N) \X Nat |-> Step(p[1], p[2])]
           F(f) == [n \in 0..N |-> IF n = 0 THEN base ELSE Step(n, f[n - 1])]
           f    == CHOOSE g : g = F(g)
<1>0. SizeOf(s) = f[N]
    BY DEF SizeOf
<1>1. N \in Nat /\ N \in Int /\ 0 \in Int /\ 0 <= N
    OBVIOUS
<1>2. base \in Nat
    OBVIOUS
<1>3. ASSUME NEW n \in 1..N, NEW v \in Nat PROVE Step(n, v) \in Nat
    <2>1. s[n] \in WordCharacters
        BY <1>1
    <2>2. ByteSize[s[n]] \in Nat
        BY <2>1, ByteSizeIs
    <2> QED BY <2>2
<1> HIDE DEF base, Step
<1>4. step \in [(0 + 1..N) \X Nat -> Nat]
    <2> HIDE DEF N
    <2>1. 0 + 1..N = 1..N
        BY <1>1
    <2> QED BY <2>1, <1>3
<1>5. PICK g \in [0..N -> Nat] : Recursion(g, 0, N, base, step)
    <2> HIDE DEF N, step, F, f
    <2> QED BY <1>1, <1>2, <1>4, RecursionExists
<1>6. g[0] = base
    BY <1>5 DEF Recursion
<1>7. ASSUME NEW n \in 1..N PROVE g[n] = Step(n, g[n - 1])
    <2>1. n \in 0 + 1..N /\ n - 1 \in 0..N
        BY <1>1
    <2>2. <<n, g[n - 1]>> \in (0 + 1..N) \X Nat /\ g[n] = step[<<n, g[n - 1]>>]
        <3> HIDE DEF step, N
        <3> QED BY <2>1, <1>5 DEF Recursion
    <2> HIDE DEF N
    <2>3. step[<<n, g[n - 1]>>] = Step(n, g[n - 1])
        BY <2>2
    <2> HIDE DEF step
    <2> QED BY <2>2, <2>3
<1>8. g = F(g)
    <2> HIDE DEF step, N
    <2>1. \A n \in 0..N : g[n] = F(g)[n]
        <3> SUFFICES ASSUME NEW n \in 0..N PROVE g[n] = F(g)[n]
            OBVIOUS
        <3>1. CASE n = 0
            BY <1>6, <3>1
        <3>2. CASE n # 0
            <4>1. n \in 1..N
                BY <1>1, <3>2
            <4> QED BY <1>7, <3>2, <4>1
        <3> HIDE DEF F
        <3> QED BY <3>1, <3>2
    <2> QED BY <1>5, <2>1
<1>9. f = F(f)
    <2> HIDE DEF F
    <2> QED BY <1>8
<1> HIDE DEF f
<1>10. f[0] = base
    <2> HIDE DEF N
    <2> QED BY <1>1, <1>9
<1>11. ASSUME NEW n \in 1..N PROVE f[n] = Step(n, f[n - 1])
    <2>1. n \in 0..N /\ n # 0
        BY <1>1
    <2> HIDE DEF N
    <2> QED BY <1>9, <2>1
<1>12. \A n \in 0..N : f[n] \in Nat
    <2> DEFINE T == {n \in 0..N : f[n] \in Nat}
    <2>1. 0 \in T
        <3> HIDE DEF N
        <3> QED BY <1>1, <1>2, <1>10
    <2>2. ASSUME NEW n \in 0..N - 1, n \in T PROVE n + 1 \in T
        <3>1. n + 1 \in 1..N /\ n + 1 \in 0..N /\ (n + 1) - 1 = n /\ f[n] \in Nat
            BY <2>2, <1>1
        <3> HIDE DEF N
        <3>2. f[n + 1] = Step(n + 1, f[n])
            BY <3>1, <1>11
        <3> QED BY <3>1, <3>2, <1>3
    <2>3. 0..N \subseteq T
        <3> HIDE DEF T, N
        <3> QED BY <1>1, <2>1, <2>2, IntervalInduction
    <2> QED BY <2>3
<1>13. SizesBy(f, s)
    BY <1>0, <1>10, <1>11, <1>12 DEF SizesBy, Step, base
<1> QED BY <1>13

LEMMA SizeOfAppend ==
    ASSUME NEW s \in Seq(WordCharacters), NEW c \in WordCharacters
    PROVE  /\ SizeOf(s) \in Nat /\ SizeOf(Append(s, c)) = SizeOf(s) + ByteSize[c]
           /\ SizeOf(<<>>) = 0
<1> DEFINE t == Append(s, c)
           N == Len(s)
<1>1. /\ t \in Seq(WordCharacters) /\ N \in Nat /\ N \in Int /\ 0 \in Int /\ Len(t) = N + 1 /\ t[N + 1] = c
      /\ \A n \in 1..N : t[n] = s[n]
    OBVIOUS
<1>2. PICK f : SizesBy(f, s)
    BY SizesExist
<1>3. PICK g : SizesBy(g, t)
    BY <1>1, SizesExist
<1>4. /\ f[0] = 0 /\ SizeOf(s) = f[N] /\ \A n \in 0..N : f[n] \in Nat
      /\ \A n \in 1..N : f[n] = f[n - 1] + ByteSize[s[n]]
    BY <1>2 DEF SizesBy
<1>5. /\ g[0] = 0 /\ SizeOf(t) = g[N + 1]
      /\ \A n \in 1..N + 1 : g[n] = g[n - 1] + ByteSize[t[n]]
    BY <1>1, <1>3 DEF SizesBy
<1> HIDE DEF t, N
<1> DEFINE T == {n \in 0..N : g[n] = f[n]}
<1>6. 0 \in T
    BY <1>1, <1>4, <1>5
<1>7. ASSUME NEW n \in 0..N - 1, n \in T PROVE n + 1 \in T
    <2>1. n + 1 \in 1..N /\ n + 1 \in 1..N + 1 /\ n + 1 \in 0..N /\ (n + 1) - 1 = n /\ g[n] = f[n]
        BY <1>1, <1>7
    <2>2. f[n + 1] = f[n] + ByteSize[s[n + 1]]
        BY <2>1, <1>4
    <2>3. g[n + 1] = g[n] + ByteSize[t[n + 1]] /\ t[n + 1] = s[n + 1]
        BY <2>1, <1>1, <1>5
    <2>4. g[n + 1] = f[n + 1]
        BY <2>1, <2>2, <2>3
    <2> QED BY <2>1, <2>4
<1>8. 0..N \subseteq T
    <2> HIDE DEF T
    <2> QED BY <1>1, <1>6, <1>7, IntervalInduction
<1>9. N \in 0..N /\ N + 1 \in 1..N + 1 /\ (N + 1) - 1 = N
    BY <1>1
<1>10. g[N + 1] = g[N] + ByteSize[t[N + 1]] /\ g[N] = f[N]
    BY <1>5, <1>8, <1>9
<1>11. SizeOf(<<>>) = 0
    <2>1. <<>> \in Seq(WordCharacters) /\ Len(<<>>) = 0
        OBVIOUS
    <2>2. PICK h : SizesBy(h, <<>>)
        BY <2>1, SizesExist
    <2> QED BY <2>1, <2>2 DEF SizesBy
<1> QED BY <1>1, <1>4, <1>5, <1>9, <1>10, <1>11 DEF t

LEMMA SizeIs == \A s \in Seq(WordCharacters) : SizeOf(s) \in Nat
BY SizeOfAppend DEF WordCharacters, TextChars

(* A part is the part before its last element and that element.            *)
LEMMA PartGrows ==
    ASSUME NEW X, NEW s \in Seq(X), NEW a \in Nat, NEW b \in Nat, 1 <= a, a <= b, b <= Len(s)
    PROVE  /\ SubSeq(s, a, b - 1) \in Seq(X) /\ s[b] \in X
           /\ SubSeq(s, a, b) = Append(SubSeq(s, a, b - 1), s[b])
<1> DEFINE p == SubSeq(s, a, b - 1)
           q == SubSeq(s, a, b)
           n == b - a
<1>1. /\ b - 1 \in Nat /\ a <= (b - 1) + 1 /\ a <= b + 1 /\ b - 1 <= Len(s) /\ b \in 1..Len(s) /\ n \in Nat
      /\ (b - 1) + 1 - a = n /\ b + 1 - a = n + 1 /\ a + (n + 1) - 1 = b
    OBVIOUS
<1>2. p \in Seq(X) /\ Len(p) = n /\ \A i \in 1..n : p[i] = s[a + i - 1]
    BY <1>1, PartElements
<1>3. q \in Seq(X) /\ Len(q) = n + 1 /\ \A i \in 1..n + 1 : q[i] = s[a + i - 1]
    BY <1>1, PartElements
<1>4. s[b] \in X
    BY <1>1
<1> HIDE DEF p, q, n
<1> DEFINE x == s[b]
           r == Append(p, x)
<1>5. r \in Seq(X) /\ Len(r) = n + 1 /\ r[n + 1] = x /\ \A i \in 1..n : r[i] = p[i]
    BY <1>1, <1>2, <1>4
<1> HIDE DEF r
<1>6. \A i \in 1..n + 1 : i \in 1..n \/ i = n + 1
    BY <1>1
<1>7. \A i \in 1..Len(q) : q[i] = r[i]
    BY <1>1, <1>2, <1>3, <1>5, <1>6
<1>8. q = r
    BY <1>3, <1>5, <1>7, SameSequence
<1> QED BY <1>2, <1>4, <1>8 DEF p, q, r

(* The offset of the character behind the first k.                         *)
Behind(s, k) == SizeOf(SubSeq(s, 1, k))

LEMMA BehindIs ==
    ASSUME NEW s \in Seq(WordCharacters)
    PROVE  /\ Behind(s, 0) = 0 /\ Behind(s, Len(s)) = SizeOf(s)
           /\ \A k \in 0..Len(s) : Behind(s, k) \in Nat
           /\ \A k \in 1..Len(s) : Behind(s, k) = Behind(s, k - 1) + ByteSize[s[k]]
<1>1. SubSeq(s, 1, 0) = <<>> /\ SubSeq(s, 1, Len(s)) = s
    OBVIOUS
<1>2. ASSUME NEW k \in 0..Len(s) PROVE Behind(s, k) \in Nat
    <2>1. SubSeq(s, 1, k) \in Seq(WordCharacters)
        OBVIOUS
    <2> QED BY <2>1, SizeIs DEF Behind
<1>3. ASSUME NEW k \in 1..Len(s) PROVE Behind(s, k) = Behind(s, k - 1) + ByteSize[s[k]]
    <2>1. k \in Nat /\ 1 \in Nat /\ 1 <= 1 /\ 1 <= k /\ k <= Len(s)
        OBVIOUS
    <2>2. /\ SubSeq(s, 1, k - 1) \in Seq(WordCharacters) /\ s[k] \in WordCharacters
          /\ SubSeq(s, 1, k) = Append(SubSeq(s, 1, k - 1), s[k])
        BY <2>1, PartGrows
    <2> QED BY <2>2, SizeOfAppend DEF Behind
<1>4. Behind(s, 0) = 0
    BY <1>1, SizeOfAppend DEF Behind, WordCharacters, TextChars
<1> QED BY <1>1, <1>2, <1>3, <1>4 DEF Behind

(* The size of a part is the distance of its ends.                         *)
LEMMA PartSize ==
    ASSUME NEW s \in Seq(WordCharacters), NEW a \in Nat, 1 <= a, NEW b \in Nat, a <= b + 1, b <= Len(s)
    PROVE  Behind(s, a - 1) + SizeOf(SubSeq(s, a, b)) = Behind(s, b)
<1> DEFINE N == Len(s)
           T == {k \in a - 1..N : Behind(s, a - 1) + SizeOf(SubSeq(s, a, k)) = Behind(s, k)}
<1>1. N \in Nat /\ a - 1 \in Nat /\ a - 1 \in Int /\ N \in Int /\ a - 1 \in a - 1..N /\ a - 1 \in 0..N
    OBVIOUS
<1>2. /\ \A k \in 0..N : Behind(s, k) \in Nat
      /\ \A k \in 1..N : Behind(s, k) = Behind(s, k - 1) + ByteSize[s[k]]
    BY BehindIs
<1>3. a - 1 \in T
    <2>1. SubSeq(s, a, a - 1) = <<>>
        OBVIOUS
    <2>2. SizeOf(<<>>) = 0
        BY SizeOfAppend DEF WordCharacters, TextChars
    <2>3. Behind(s, a - 1) + 0 = Behind(s, a - 1)
        <3> HIDE DEF N
        <3> QED BY <1>1, <1>2
    <2> QED BY <1>1, <2>1, <2>2, <2>3
<1>4. ASSUME NEW k \in a - 1..N - 1, k \in T PROVE k + 1 \in T
    <2>1. k + 1 \in Nat /\ a <= k + 1 /\ k + 1 <= N /\ k + 1 \in 1..N /\ k + 1 \in a - 1..N /\ (k + 1) - 1 = k
        BY <1>1
    <2> DEFINE p == SubSeq(s, a, k)
    <2>2. p \in Seq(WordCharacters) /\ s[k + 1] \in WordCharacters /\ SubSeq(s, a, k + 1) = Append(p, s[k + 1])
        BY <2>1, PartGrows
    <2>3. SizeOf(p) \in Nat /\ SizeOf(SubSeq(s, a, k + 1)) = SizeOf(p) + ByteSize[s[k + 1]]
        BY <2>2, SizeOfAppend
    <2>4. Behind(s, a - 1) + SizeOf(p) = Behind(s, k)
        BY <1>4
    <2>5. Behind(s, k + 1) = Behind(s, k) + ByteSize[s[k + 1]] /\ ByteSize[s[k + 1]] \in Nat
        BY <2>1, <2>2, <1>2, ByteSizeIs
    <2> DEFINE x == SizeOf(p)
               y == ByteSize[s[k + 1]]
               z == Behind(s, a - 1)
    <2>6. x \in Nat /\ y \in Nat /\ z \in Nat
        BY <2>3, <2>5, <1>1, <1>2
    <2>7. z + x = Behind(s, k) /\ Behind(s, k + 1) = Behind(s, k) + y /\ SizeOf(SubSeq(s, a, k + 1)) = x + y
        BY <2>3, <2>4, <2>5
    <2> HIDE DEF x, y, z, N, p
    <2>8. z + (x + y) = (z + x) + y
        BY <2>6
    <2>9. z + SizeOf(SubSeq(s, a, k + 1)) = Behind(s, k + 1)
        BY <2>7, <2>8
    <2> QED BY <2>1, <2>9 DEF z
<1>5. a - 1..N \subseteq T
    <2> HIDE DEF T, N
    <2> QED BY <1>1, <1>3, <1>4, IntervalInduction
<1>6. b \in a - 1..N
    OBVIOUS
<1> QED BY <1>5, <1>6

(* Offsets rise with the characters, so an offset is at one edge.          *)
LEMMA OffsetsRise ==
    ASSUME NEW s \in Seq(WordCharacters), NEW i \in 0..Len(s), NEW j \in 0..Len(s), i < j
    PROVE  Behind(s, i) < Behind(s, j)
<1> DEFINE N == Len(s)
           T == {k \in i + 1..N : Behind(s, i) < Behind(s, k)}
<1>1. /\ N \in Nat /\ N \in Int /\ i + 1 \in Int /\ i + 1 \in 1..N /\ (i + 1) - 1 = i
      /\ i + 1 \in i + 1..N /\ j \in i + 1..N
    OBVIOUS
<1>2. /\ \A k \in 0..N : Behind(s, k) \in Nat
      /\ \A k \in 1..N : Behind(s, k) = Behind(s, k - 1) + ByteSize[s[k]]
    BY BehindIs
<1>3. \A k \in 1..N : ByteSize[s[k]] \in Nat /\ ByteSize[s[k]] >= 1
    BY ByteSizeIs
<1>4. ASSUME NEW k \in 1..N PROVE Behind(s, k - 1) < Behind(s, k)
    <2>1. k - 1 \in 0..N
        BY <1>1
    <2>2. /\ Behind(s, k - 1) \in Nat /\ Behind(s, k) = Behind(s, k - 1) + ByteSize[s[k]]
          /\ ByteSize[s[k]] \in Nat /\ ByteSize[s[k]] >= 1
        BY <2>1, <1>2, <1>3
    <2> QED BY <2>2
<1> HIDE DEF N
<1>5. i + 1 \in T
    BY <1>1, <1>4
<1>6. ASSUME NEW k \in i + 1..N - 1, k \in T PROVE k + 1 \in T
    <2>1. k + 1 \in 1..N /\ k + 1 \in i + 1..N /\ (k + 1) - 1 = k /\ k \in 0..N /\ k + 1 \in 0..N /\ i \in 0..N
        BY <1>1
    <2>2. Behind(s, k) < Behind(s, k + 1) /\ Behind(s, i) < Behind(s, k)
        BY <2>1, <1>4, <1>6
    <2>3. Behind(s, k) \in Nat /\ Behind(s, k + 1) \in Nat /\ Behind(s, i) \in Nat
        BY <2>1, <1>2
    <2> QED BY <2>1, <2>2, <2>3
<1>7. i + 1..N \subseteq T
    <2> HIDE DEF T
    <2> QED BY <1>1, <1>5, <1>6, IntervalInduction
<1> QED BY <1>1, <1>7

LEMMA EdgeIs ==
    ASSUME NEW s \in Seq(WordCharacters), NEW k \in 0..Len(s)
    PROVE  Edge(s, Behind(s, k)) /\ EdgeAt(s, Behind(s, k)) = k
<1>1. \A j \in 0..Len(s) : Behind(s, j) = Behind(s, k) => j = k
    <2> SUFFICES ASSUME NEW j \in 0..Len(s), Behind(s, j) = Behind(s, k), j # k PROVE FALSE
        OBVIOUS
    <2>1. j < k \/ k < j
        OBVIOUS
    <2>2. Behind(s, j) \in Nat /\ Behind(s, k) \in Nat
        BY BehindIs
    <2>3. Behind(s, j) < Behind(s, k) \/ Behind(s, k) < Behind(s, j)
        BY <2>1, OffsetsRise
    <2> QED BY <2>2, <2>3
<1> HIDE DEF Behind
<1>2. (CHOOSE j \in 0..Len(s) : Behind(s, j) = Behind(s, k)) = k
    BY <1>1
<1>3. EdgeAt(s, Behind(s, k)) = CHOOSE j \in 0..Len(s) : Behind(s, j) = Behind(s, k)
    BY DEF EdgeAt, Behind
<1>4. Edge(s, Behind(s, k))
    BY DEF Edge, Behind
<1> QED BY <1>2, <1>3, <1>4

(* Where every character is one byte wide, offsets count characters.       *)
LEMMA NarrowOffsets ==
    ASSUME NEW s \in Seq(WordCharacters), NEW n \in 0..Len(s), \A k \in 1..n : ByteSize[s[k]] = 1
    PROVE  Behind(s, n) = n
<1> DEFINE T == {k \in 0..n : Behind(s, k) = k}
<1>1. n \in Nat /\ n \in Int /\ 0 \in Int /\ n \in 0..n
    OBVIOUS
<1>2. \A k \in 1..n : k \in 1..Len(s)
    OBVIOUS
<1>3. 0 \in T
    BY <1>1, BehindIs
<1>4. ASSUME NEW k \in 0..n - 1, k \in T PROVE k + 1 \in T
    <2>1. k + 1 \in 1..n /\ k + 1 \in 0..n /\ (k + 1) - 1 = k
        BY <1>1
    <2>2. Behind(s, k + 1) = Behind(s, k) + ByteSize[s[k + 1]]
        BY <2>1, <1>2, BehindIs
    <2> QED BY <2>1, <2>2, <1>4
<1>5. 0..n \subseteq T
    <2> HIDE DEF T
    <2> QED BY <1>1, <1>3, <1>4, IntervalInduction
<1> QED BY <1>1, <1>5

(* The characters from i on to j, each of one byte, are as many bytes.     *)
LEMMA NarrowDistance ==
    ASSUME NEW s \in Seq(WordCharacters), NEW i \in 0..Len(s), NEW j \in 0..Len(s), i <= j,
           \A k \in i + 1..j : ByteSize[s[k]] = 1
    PROVE  Behind(s, j) = Behind(s, i) + (j - i)
<1> DEFINE T == {k \in i..j : Behind(s, k) = Behind(s, i) + (k - i)}
<1>1. i \in Int /\ j \in Int /\ i \in i..j /\ j \in i..j
    OBVIOUS
<1>2. \A k \in i + 1..j : k \in 1..Len(s)
    OBVIOUS
<1>3. Behind(s, i) \in Nat
    BY BehindIs
<1>4. i \in T
    BY <1>1, <1>3
<1>5. ASSUME NEW k \in i..j - 1, k \in T PROVE k + 1 \in T
    <2>1. k + 1 \in i + 1..j /\ k + 1 \in i..j /\ (k + 1) - 1 = k
        BY <1>1
    <2>2. Behind(s, k + 1) = Behind(s, k) + ByteSize[s[k + 1]]
        BY <2>1, <1>2, BehindIs
    <2>3. Behind(s, k + 1) = (Behind(s, i) + (k - i)) + 1
        BY <2>1, <2>2, <1>5
    <2> QED BY <2>1, <2>3, <1>3
<1>6. i..j \subseteq T
    <2> HIDE DEF T
    <2> QED BY <1>1, <1>4, <1>5, IntervalInduction
<1> QED BY <1>1, <1>6

(* What is between the hyphens at the ends of s[i..j] is s[a..b].          *)
Between(s, i, j, a, b) ==
    /\ a \in i..j /\ b \in i..j /\ a <= b /\ s[a] # "-" /\ s[b] # "-"
    /\ \A k \in i..a - 1 : s[k] = "-"
    /\ \A k \in b + 1..j : s[k] = "-"

LEMMA TrimmedIs ==
    ASSUME NEW s, NEW i \in Nat, NEW j \in Nat, NEW a, NEW b, Between(s, i, j, a, b)
    PROVE  TrimmedAt(s, i, j) = [word |-> SubSeq(s, a, b), first |-> i, skipped |-> a - i]
<1> DEFINE inner == {k \in i..j : s[k] # "-"}
<1>1. /\ a \in i..j /\ b \in i..j /\ a <= b /\ s[a] # "-" /\ s[b] # "-"
      /\ \A k \in i..a - 1 : s[k] = "-"
      /\ \A k \in b + 1..j : s[k] = "-"
    BY DEF Between
<1>2. a \in inner /\ b \in inner /\ a \in Int /\ b \in Int
    BY <1>1
<1>3. \A k \in inner : a <= k /\ k <= b /\ k \in Int
    <2> SUFFICES ASSUME NEW k \in i..j, s[k] # "-" PROVE a <= k /\ k <= b
        OBVIOUS
    <2>1. k \notin i..a - 1 /\ k \notin b + 1..j
        BY <1>1
    <2> QED BY <2>1, <1>1
<1> HIDE DEF inner
<1>4. Min(inner) = a
    <2>1. \A x \in inner : (\A y \in inner : x =< y) <=> x = a
        BY <1>2, <1>3
    <2> QED BY <2>1, <1>2 DEF Min
<1>5. Max(inner) = b
    <2>1. \A x \in inner : (\A y \in inner : x >= y) <=> x = b
        BY <1>2, <1>3
    <2> QED BY <2>1, <1>2 DEF Max
<1> QED BY <1>4, <1>5 DEF TrimmedAt, inner

LEMMA BetweenExists ==
    ASSUME NEW s, NEW N \in Nat, NEW i \in 1..N, NEW j \in 1..N, \E k \in i..j : s[k] # "-"
    PROVE  \E a, b \in i..j : Between(s, i, j, a, b)
<1> DEFINE T == {k \in i..j : s[k] # "-"}
<1>1. T \in SUBSET (1..N) /\ T # {}
    OBVIOUS
<1>2. PICK a \in T : \A x \in T : a <= x
    <2> HIDE DEF T
    <2> QED BY <1>1, LeastExists
<1>3. PICK b \in T : \A x \in T : x <= b
    <2> HIDE DEF T
    <2> QED BY <1>1, GreatestExists
<1>4. a \in i..j /\ b \in i..j /\ s[a] # "-" /\ s[b] # "-" /\ a <= b
    BY <1>2, <1>3
<1>5. \A k \in i..a - 1 : s[k] = "-"
    <2> SUFFICES ASSUME NEW k \in i..a - 1, s[k] # "-" PROVE FALSE
        OBVIOUS
    <2>1. k \in T /\ ~(a <= k)
        BY <1>4
    <2> QED BY <2>1, <1>2
<1>6. \A k \in b + 1..j : s[k] = "-"
    <2> SUFFICES ASSUME NEW k \in b + 1..j, s[k] # "-" PROVE FALSE
        OBVIOUS
    <2>1. k \in T /\ ~(k <= b)
        BY <1>4
    <2> QED BY <2>1, <1>3
<1> QED BY <1>4, <1>5, <1>6 DEF Between

(* The tokens are the runs, trimmed.                                       *)
LEMMA TokensAre ==
    ASSUME NEW s \in Seq(WordCharacters), NEW chars
    PROVE  /\ \A i \in DOMAIN TokensOf(s, chars) : \E r \in Runs(s, chars) :
                TokensOf(s, chars)[i] = TrimmedAt(s, r[1], r[2])
           /\ \A r \in Runs(s, chars) : \E i \in DOMAIN TokensOf(s, chars) :
                TokensOf(s, chars)[i] = TrimmedAt(s, r[1], r[2])
<1> DEFINE N == Len(s)
           In(k) == k \in DOMAIN s /\ s[k] \in chars \cup {"-"}
           runs == Runs(s, chars)
           ids == [k \in DOMAIN s |-> k]
           S == {r[1] : r \in runs}
           begins == Those(ids, S)
           End(k) == CHOOSE j \in DOMAIN s : <<k, j>> \in runs
           ts == TokensOf(s, chars)
<1>1. N \in Nat /\ DOMAIN s = 1..N
    OBVIOUS
<1>2. ASSUME NEW r \in runs
      PROVE  /\ r = <<r[1], r[2]>> /\ r[1] \in 1..N /\ r[2] \in 1..N /\ r[1] <= r[2]
             /\ ~In(r[2] + 1) /\ \A k \in r[1]..r[2] : In(k)
    BY DEF Runs
<1>3. ts = [i \in DOMAIN begins |-> TrimmedAt(s, begins[i], End(begins[i]))]
    BY DEF TokensOf
<1> HIDE DEF ts, runs
<1>4. ASSUME NEW r \in runs PROVE End(r[1]) = r[2]
    <2>1. r[2] \in DOMAIN s /\ <<r[1], r[2]>> \in runs
        BY <1>1, <1>2
    <2>2. ASSUME NEW j \in DOMAIN s, <<r[1], j>> \in runs PROVE j = r[2]
        <3> DEFINE q == <<r[1], j>>
        <3>1. q \in runs /\ q[1] = r[1] /\ q[2] = j
            BY <2>2
        <3> HIDE DEF q
        <3>2. /\ j \in 1..N /\ ~In(j + 1) /\ r[1] <= j /\ \A k \in r[1]..j : In(k)
            BY <3>1, <1>2
        <3>3. r[2] \in 1..N /\ r[1] \in 1..N /\ ~In(r[2] + 1) /\ r[1] <= r[2] /\ \A k \in r[1]..r[2] : In(k)
            BY <1>2
        <3> HIDE DEF In, N
        <3>4. ~(j < r[2])
            <4> SUFFICES ASSUME j < r[2] PROVE FALSE
                OBVIOUS
            <4>1. j + 1 \in r[1]..r[2]
                BY <3>2, <3>3
            <4> QED BY <4>1, <3>2, <3>3
        <3>5. ~(r[2] < j)
            <4> SUFFICES ASSUME r[2] < j PROVE FALSE
                OBVIOUS
            <4>1. r[2] + 1 \in r[1]..j
                BY <3>2, <3>3
            <4> QED BY <4>1, <3>2, <3>3
        <3> QED BY <3>2, <3>3, <3>4, <3>5
    <2> HIDE DEF In
    <2> QED BY <2>1, <2>2
<1> HIDE DEF End
<1>5. ids \in Seq(1..N) /\ Len(ids) = N /\ \A k \in 1..N : ids[k] = k
    BY <1>1
<1>6. ToSet(ids) = 1..N
    <2>1. ToSet(ids) \subseteq 1..N /\ \A k \in 1..N : k \in ToSet(ids)
        BY <1>5, ToSetElements
    <2> QED BY <2>1
<1> HIDE DEF ids
<1>7. S \subseteq 1..N
    <2> SUFFICES ASSUME NEW r \in runs PROVE r[1] \in 1..N
        OBVIOUS
    <2> QED BY <1>2
<1>8. \A x : x \in S <=> \E r \in runs : x = r[1]
    OBVIOUS
<1> HIDE DEF S
<1>9. begins \in Seq((1..N) \cap S) /\ ToSet(begins) = (1..N) \cap S
    BY <1>5, <1>6, ThoseElements
<1> HIDE DEF begins
<1>10. /\ DOMAIN begins = 1..Len(begins)
       /\ \A i \in DOMAIN begins : begins[i] \in S
       /\ \A x \in S : \E i \in DOMAIN begins : x = begins[i]
    <2>1. DOMAIN begins = 1..Len(begins) /\ \A i \in DOMAIN begins : begins[i] \in S
        BY <1>9
    <2>2. \A x \in ToSet(begins) : \E i \in 1..Len(begins) : x = begins[i]
        BY <1>9, ToSetElements
    <2> QED BY <2>1, <2>2, <1>7, <1>9
<1>11. DOMAIN ts = DOMAIN begins /\ \A i \in DOMAIN begins : ts[i] = TrimmedAt(s, begins[i], End(begins[i]))
    BY <1>3
<1>12. ASSUME NEW i \in DOMAIN begins PROVE \E r \in runs : ts[i] = TrimmedAt(s, r[1], r[2])
    <2>1. PICK r \in runs : begins[i] = r[1]
        BY <1>8, <1>10
    <2> QED BY <2>1, <1>4, <1>11
<1>13. ASSUME NEW r \in runs PROVE \E i \in DOMAIN begins : ts[i] = TrimmedAt(s, r[1], r[2])
    <2>1. PICK i \in DOMAIN begins : r[1] = begins[i]
        BY <1>8, <1>10
    <2> QED BY <2>1, <1>4, <1>11
<1> QED BY <1>11, <1>12, <1>13 DEF ts, runs

(* The word at a..b, and that it stands alone but for hyphens.             *)
BytesAt(s, a, b) == [word |-> SubSeq(s, a, b), from |-> Behind(s, a - 1), to |-> Behind(s, b)]
UnitsAt(s, a, b) == [word |-> SubSeq(s, a, b), from |-> a - 1, to |-> b]
Alone(s, chars, a, b) == \E r \in Runs(s, chars) : Between(s, r[1], r[2], a, b)

LEMMA PlaceIs ==
    ASSUME NEW s \in Seq(WordCharacters), NEW i \in 1..Len(s), NEW j \in 1..Len(s), NEW a, NEW b,
           Between(s, i, j, a, b)
    PROVE  /\ a \in 1..Len(s) /\ b \in 1..Len(s) /\ a <= b
           /\ Behind(s, i - 1) + (a - i) = Behind(s, a - 1)
           /\ Behind(s, a - 1) + SizeOf(SubSeq(s, a, b)) = Behind(s, b)
           /\ (i - 1) + (a - i) = a - 1 /\ (a - 1) + Len(SubSeq(s, a, b)) = b
<1>1. /\ a \in i..j /\ b \in i..j /\ a <= b /\ \A k \in i..a - 1 : s[k] = "-"
    BY DEF Between
<1>2. /\ a \in 1..Len(s) /\ b \in 1..Len(s) /\ a \in Nat /\ b \in Nat /\ 1 <= a /\ a <= b + 1 /\ b <= Len(s)
      /\ i - 1 \in 0..Len(s) /\ a - 1 \in 0..Len(s) /\ i - 1 <= a - 1 /\ (i - 1) + 1 = i
      /\ (a - 1) - (i - 1) = a - i /\ (i - 1) + (a - i) = a - 1
    BY <1>1
<1>3. \A k \in (i - 1) + 1..a - 1 : ByteSize[s[k]] = 1
    BY <1>1, <1>2, ByteSizeIs
<1>4. Behind(s, a - 1) = Behind(s, i - 1) + ((a - 1) - (i - 1))
    BY <1>2, <1>3, NarrowDistance
<1>5. Behind(s, a - 1) + SizeOf(SubSeq(s, a, b)) = Behind(s, b)
    BY <1>2, PartSize
<1>6. (a - 1) + Len(SubSeq(s, a, b)) = b
    <2>1. Len(SubSeq(s, a, b)) = b + 1 - a
        BY <1>2, PartElements
    <2> QED BY <2>1, <1>2
<1> QED BY <1>1, <1>2, <1>4, <1>5, <1>6

LEMMA OffsetsAre ==
    ASSUME NEW s \in Seq(WordCharacters), NEW chars
    PROVE  /\ \A t \in ToSet(InBytes(s, TokensOf(s, chars))) :
                \E a, b \in 1..Len(s) : a <= b /\ t = BytesAt(s, a, b)
           /\ \A a, b : Alone(s, chars, a, b) => BytesAt(s, a, b) \in ToSet(InBytes(s, TokensOf(s, chars)))
           /\ \A t \in ToSet(InUtf16(TokensOf(s, chars))) :
                \E a, b \in 1..Len(s) : a <= b /\ t = UnitsAt(s, a, b)
           /\ \A a, b : Alone(s, chars, a, b) => UnitsAt(s, a, b) \in ToSet(InUtf16(TokensOf(s, chars)))
<1> DEFINE ts == TokensOf(s, chars)
           us == InBytes(s, ts)
           vs == InUtf16(ts)
<1>1. ASSUME NEW r \in Runs(s, chars)
      PROVE  /\ r[1] \in 1..Len(s) /\ r[2] \in 1..Len(s) /\ r[1] \in Nat /\ r[2] \in Nat
             /\ \E k \in r[1]..r[2] : s[k] # "-"
    BY DEF Runs
<1>2. ASSUME NEW i \in DOMAIN ts, NEW r \in Runs(s, chars), ts[i] = TrimmedAt(s, r[1], r[2]),
             NEW a, NEW b, Between(s, r[1], r[2], a, b)
      PROVE  us[i] = BytesAt(s, a, b) /\ vs[i] = UnitsAt(s, a, b)
    <2> DEFINE f == r[1]
               g == r[2]
               w == SubSeq(s, a, b)
               gap == a - f
               t == ts[i]
    <2>1. t = [word |-> w, first |-> f, skipped |-> gap]
        <3>1. f \in Nat /\ g \in Nat /\ Between(s, f, g, a, b) /\ t = TrimmedAt(s, f, g)
            BY <1>1, <1>2
        <3> HIDE DEF f, g, t
        <3> QED BY <3>1, TrimmedIs
    <2>2. /\ Behind(s, f - 1) + (a - f) = Behind(s, a - 1)
          /\ Behind(s, a - 1) + SizeOf(SubSeq(s, a, b)) = Behind(s, b)
          /\ (f - 1) + (a - f) = a - 1 /\ (a - 1) + Len(SubSeq(s, a, b)) = b
        BY <1>1, <1>2, PlaceIs
    <2>3. ts[i].word = SubSeq(s, a, b) /\ ts[i].first = f /\ ts[i].skipped = a - f
        <3> HIDE DEF t, w, f, gap
        <3>1. t.word = w /\ t.first = f /\ t.skipped = gap
            BY <2>1
        <3> QED BY <3>1 DEF t, w, gap
    <2> HIDE DEF f, ts
    <2>4. us[i] = [word |-> ts[i].word, from |-> SizeOf(SubSeq(s, 1, ts[i].first - 1)) + ts[i].skipped,
                   to |-> SizeOf(SubSeq(s, 1, ts[i].first - 1)) + ts[i].skipped + SizeOf(ts[i].word)]
        BY <1>2 DEF InBytes
    <2>5. us[i] = BytesAt(s, a, b)
        BY <2>2, <2>3, <2>4 DEF BytesAt, Behind
    <2>6. vs[i] = [word |-> ts[i].word, from |-> ts[i].first - 1 + ts[i].skipped,
                   to |-> ts[i].first - 1 + ts[i].skipped + Len(ts[i].word)]
        BY <1>2 DEF InUtf16
    <2>7. vs[i] = UnitsAt(s, a, b)
        BY <2>2, <2>3, <2>6 DEF UnitsAt
    <2> QED BY <2>5, <2>7
<1>3. DOMAIN us = DOMAIN ts /\ DOMAIN vs = DOMAIN ts
    BY DEF InBytes, InUtf16
<1> HIDE DEF us, vs
<1>4. ToSet(us) = {us[i] : i \in DOMAIN ts} /\ ToSet(vs) = {vs[i] : i \in DOMAIN ts}
    BY <1>3 DEF ToSet
<1>5. ASSUME NEW i \in DOMAIN ts
      PROVE  \E a, b \in 1..Len(s) : a <= b /\ us[i] = BytesAt(s, a, b) /\ vs[i] = UnitsAt(s, a, b)
    <2>1. PICK r \in Runs(s, chars) : ts[i] = TrimmedAt(s, r[1], r[2])
        BY TokensAre
    <2>2. PICK a \in r[1]..r[2], b \in r[1]..r[2] : Between(s, r[1], r[2], a, b)
        <3>1. Len(s) \in Nat
            OBVIOUS
        <3> QED BY <3>1, <1>1, BetweenExists
    <2>3. us[i] = BytesAt(s, a, b) /\ vs[i] = UnitsAt(s, a, b)
        BY <2>1, <2>2, <1>2
    <2>4. a \in 1..Len(s) /\ b \in 1..Len(s) /\ a <= b
        BY <2>2, <1>1, PlaceIs
    <2> QED BY <2>3, <2>4
<1>6. ASSUME NEW a, NEW b, Alone(s, chars, a, b) PROVE BytesAt(s, a, b) \in ToSet(us) /\ UnitsAt(s, a, b) \in ToSet(vs)
    <2>1. PICK r \in Runs(s, chars) : Between(s, r[1], r[2], a, b)
        BY <1>6 DEF Alone
    <2>2. PICK i \in DOMAIN ts : ts[i] = TrimmedAt(s, r[1], r[2])
        BY TokensAre
    <2>3. us[i] = BytesAt(s, a, b) /\ vs[i] = UnitsAt(s, a, b)
        BY <2>1, <2>2, <1>2
    <2> QED BY <2>3, <1>4
<1> QED BY <1>4, <1>5, <1>6 DEF us, vs, ts

(* The characters whose lower case is one character.                       *)
Single(c) == LoweredChar[c][1]

LEMMA LoweredCharIs ==
    /\ \A c \in TextChars : LoweredChar[c] \in Seq(Lowered)
    /\ \A c \in TextChars \ {"I"} :
         /\ Single(c) \in Lowered /\ LoweredChar[c] = <<Single(c)>>
         /\ Single(c) = "-" <=> c = "-"
         /\ c = " " => Single(c) = " "
    /\ \A c \in TextChars \ {"I", "K"} : ByteSize[Single(c)] = ByteSize[c]
    /\ \A c \in TextChars \cap Ascii : Single(c) \in Ascii
<1>1. \A c \in TextChars : \/ c = "a" \/ c = "A" \/ c = "1" \/ c = "-" \/ c = " " \/ c = "e" \/ c = "I" \/ c = "K"
    BY DEF TextChars
<1>2. /\ LoweredChar["a"] = <<"a">> /\ LoweredChar["A"] = <<"a">> /\ LoweredChar["1"] = <<"1">>
      /\ LoweredChar["-"] = <<"-">> /\ LoweredChar[" "] = <<" ">> /\ LoweredChar["e"] = <<"e">>
      /\ LoweredChar["I"] = <<"i", ".">> /\ LoweredChar["K"] = <<"k">>
    BY DEF LoweredChar, TextChars
<1>3. /\ "a" \in Lowered /\ "1" \in Lowered /\ "-" \in Lowered /\ " " \in Lowered /\ "e" \in Lowered
      /\ "i" \in Lowered /\ "." \in Lowered /\ "k" \in Lowered
    BY DEF Lowered
<1>4. \A c \in TextChars : LoweredChar[c] \in Seq(Lowered)
    <2> HIDE DEF Lowered
    <2>1. \A x \in Lowered : <<x>> \in Seq(Lowered)
        OBVIOUS
    <2>2. <<"i", ".">> \in Seq(Lowered)
        <3>1. \A x, y \in Lowered : <<x, y>> \in Seq(Lowered)
            OBVIOUS
        <3> QED BY <3>1, <1>3
    <2> QED BY <2>1, <2>2, <1>1, <1>2, <1>3
<1>5. /\ Single("a") = "a" /\ Single("A") = "a" /\ Single("1") = "1" /\ Single("-") = "-"
      /\ Single(" ") = " " /\ Single("e") = "e" /\ Single("K") = "k"
    <2>1. \A x : <<x>>[1] = x
        OBVIOUS
    <2>2. \A c, x : LoweredChar[c] = <<x>> => Single(c) = x
        BY <2>1 DEF Single
    <2> QED BY <2>2, <1>2
<1>6. \A c \in TextChars \ {"I"} : LoweredChar[c] = <<Single(c)>>
    BY <1>1, <1>2, <1>5
<1>7. \A c \in TextChars \ {"I"} : Single(c) \in Lowered
    BY <1>1, <1>3, <1>5
<1>8. \A c \in TextChars \ {"I"} : (Single(c) = "-" <=> c = "-") /\ (c = " " => Single(c) = " ")
    BY <1>1, <1>5
<1>9. \A c \in TextChars \ {"I", "K"} : ByteSize[Single(c)] = ByteSize[c]
    <2>1. /\ ByteSize["a"] = 1 /\ ByteSize["A"] = 1
        BY DEF ByteSize, TextChars, Lowered
    <2> QED BY <2>1, <1>1, <1>5
<1>10. \A c \in TextChars \cap Ascii : Single(c) \in Ascii
    BY <1>1, <1>5 DEF Ascii
<1> QED BY <1>4, <1>6, <1>7, <1>8, <1>9, <1>10

LEMMA SizeOfShort ==
    /\ \A c \in WordCharacters : SizeOf(<<c>>) = ByteSize[c]
    /\ \A c, d \in WordCharacters : SizeOf(<<c, d>>) = ByteSize[c] + ByteSize[d]
<1>1. <<>> \in Seq(WordCharacters)
    OBVIOUS
<1>2. ASSUME NEW c \in WordCharacters PROVE <<c>> \in Seq(WordCharacters) /\ SizeOf(<<c>>) = ByteSize[c]
    <2>1. <<c>> = Append(<<>>, c) /\ <<c>> \in Seq(WordCharacters)
        OBVIOUS
    <2>2. SizeOf(Append(<<>>, c)) = SizeOf(<<>>) + ByteSize[c] /\ SizeOf(<<>>) = 0 /\ ByteSize[c] \in Nat
        BY <1>1, SizeOfAppend, ByteSizeIs
    <2> QED BY <2>1, <2>2
<1>3. ASSUME NEW c \in WordCharacters, NEW d \in WordCharacters PROVE SizeOf(<<c, d>>) = ByteSize[c] + ByteSize[d]
    <2>1. <<c, d>> = Append(<<c>>, d)
        OBVIOUS
    <2>2. SizeOf(Append(<<c>>, d)) = SizeOf(<<c>>) + ByteSize[d]
        BY <1>2, SizeOfAppend
    <2> QED BY <2>1, <2>2, <1>2
<1> QED BY <1>2, <1>3

(* A text whose lower case is steady has neither of the two characters.    *)
LEMMA SteadyTexts ==
    ASSUME NEW s \in Seq(TextChars)
    PROVE  /\ Steady(s) => \A i \in 1..Len(s) : s[i] \in TextChars \ {"I", "K"}
           /\ SteadyJs(s) => \A i \in 1..Len(s) : s[i] \in TextChars \ {"I"}
           /\ Is(s, Ascii) => \A i \in 1..Len(s) : s[i] \in (TextChars \ {"I", "K"}) \cap Ascii
<1>1. LoweredChar["I"] = <<"i", ".">> /\ LoweredChar["K"] = <<"k">>
    BY DEF LoweredChar, TextChars
<1>2. ByteSize["I"] = 2 /\ ByteSize["K"] = 3 /\ ByteSize["k"] = 1 /\ ByteSize["i"] = 1 /\ ByteSize["."] = 2
    BY DEF ByteSize, TextChars, Lowered
<1>3. SizeOf(<<"i", ".">>) = 3 /\ SizeOf(<<"k">>) = 1
    <2>1. "i" \in WordCharacters /\ "." \in WordCharacters /\ "k" \in WordCharacters
        BY DEF WordCharacters, Lowered
    <2> QED BY <2>1, <1>2, SizeOfShort
<1>4. Len(<<"i", ".">>) = 2
    OBVIOUS
<1>5. \A i \in 1..Len(s) : s[i] \in TextChars /\ i \in DOMAIN s
    OBVIOUS
<1>6. Steady(s) => \A i \in 1..Len(s) : s[i] \in TextChars \ {"I", "K"}
    BY <1>1, <1>2, <1>3, <1>5 DEF Steady
<1>7. SteadyJs(s) => \A i \in 1..Len(s) : s[i] \in TextChars \ {"I"}
    <2> SUFFICES ASSUME SteadyJs(s), NEW i \in 1..Len(s), s[i] = "I" PROVE FALSE
        BY <1>5
    <2>1. Len(LoweredChar[s[i]]) = 1
        BY <1>5 DEF SteadyJs
    <2>2. LoweredChar[s[i]] = <<"i", ".">>
        BY <1>1
    <2> QED BY <2>1, <2>2, <1>4
<1>8. Is(s, Ascii) => \A i \in 1..Len(s) : s[i] \in (TextChars \ {"I", "K"}) \cap Ascii
    <2>1. "I" \notin Ascii /\ "K" \notin Ascii
        BY DEF Ascii
    <2>2. \A i \in 1..Len(s) : s[i] \in ToSet(s)
        BY ToSetElements
    <2> QED BY <2>1, <2>2, <1>5 DEF Is
<1> QED BY <1>6, <1>7, <1>8

(* Such a text in lower case is its characters in lower case.              *)
LEMMA LowerIs ==
    ASSUME NEW s \in Seq(TextChars), \A i \in 1..Len(s) : s[i] \in TextChars \ {"I"}
    PROVE  /\ ToLower(s) \in Seq(Lowered) /\ Len(ToLower(s)) = Len(s)
           /\ \A i \in 1..Len(s) : ToLower(s)[i] = Single(s[i])
<1> DEFINE p == [i \in 1..Len(s) |-> Single(s[i])]
<1>1. p \in Seq(Lowered) /\ Len(p) = Len(s) /\ \A i \in 1..Len(s) : p[i] = Single(s[i])
    <2>1. \A i \in 1..Len(s) : Single(s[i]) \in Lowered
        BY LoweredCharIs
    <2> QED BY <2>1
<1>2. \A i \in 1..Len(s) : LoweredChar[s[i]] = <<Single(s[i])>>
    BY LoweredCharIs
<1> HIDE DEF p
<1>3. [i \in DOMAIN s |-> LoweredChar[s[i]]] = [i \in 1..Len(p) |-> <<p[i]>>]
    <2>1. DOMAIN s = 1..Len(p)
        BY <1>1
    <2> QED BY <2>1, <1>1, <1>2
<1>4. ToLower(s) = p
    BY <1>1, <1>3, FlattenOfSingles DEF ToLower
<1> QED BY <1>1, <1>4

LEMMA LowerOfPart ==
    ASSUME NEW s \in Seq(TextChars), \A i \in 1..Len(s) : s[i] \in TextChars \ {"I"},
           NEW a \in 1..Len(s), NEW b \in 1..Len(s), a <= b
    PROVE  ToLower(SubSeq(s, a, b)) = SubSeq(ToLower(s), a, b)
<1> DEFINE p == SubSeq(s, a, b)
           l == ToLower(s)
           q == SubSeq(l, a, b)
           n == b + 1 - a
<1>1. l \in Seq(Lowered) /\ Len(l) = Len(s) /\ \A i \in 1..Len(s) : l[i] = Single(s[i])
    BY LowerIs
<1>2. a \in Nat /\ b \in Nat /\ 1 <= a /\ a <= b + 1 /\ b <= Len(s) /\ \A i \in 1..n : a + i - 1 \in 1..Len(s)
    OBVIOUS
<1>3. p \in Seq(TextChars) /\ Len(p) = n /\ \A i \in 1..n : p[i] = s[a + i - 1]
    BY <1>2, PartElements
<1> HIDE DEF l
<1>4. q \in Seq(Lowered) /\ Len(q) = n /\ \A i \in 1..n : q[i] = l[a + i - 1]
    BY <1>1, <1>2, PartElements
<1> HIDE DEF p, q, n
<1> DEFINE r == ToLower(p)
<1>5. r \in Seq(Lowered) /\ Len(r) = n /\ \A i \in 1..n : r[i] = Single(p[i])
    <2>1. \A i \in 1..Len(p) : p[i] \in TextChars \ {"I"}
        BY <1>2, <1>3
    <2> QED BY <2>1, <1>3, LowerIs
<1> HIDE DEF r
<1>6. \A i \in 1..Len(r) : r[i] = q[i]
    <2> SUFFICES ASSUME NEW i \in 1..n PROVE r[i] = q[i]
        BY <1>5
    <2> DEFINE k == a + i - 1
    <2>1. r[i] = Single(p[i]) /\ p[i] = s[k] /\ q[i] = l[k] /\ k \in 1..Len(s)
        BY <1>2, <1>3, <1>4, <1>5
    <2> HIDE DEF k
    <2> QED BY <2>1, <1>1
<1>7. r = q
    BY <1>4, <1>5, <1>6, SameSequence
<1> QED BY <1>7 DEF r, q, p, l

(* The lower case of a text, character by character.                       *)
LEMMA LoweredText ==
    ASSUME NEW r \in Seq(TextChars)
    PROVE  /\ ToLower(r) \in Seq(Lowered)
           /\ ToSet(ToLower(r)) = UNION {ToSet(LoweredChar[r[i]]) : i \in 1..Len(r)}
<1> DEFINE ss == [i \in DOMAIN r |-> LoweredChar[r[i]]]
<1>1. \A i \in 1..Len(r) : LoweredChar[r[i]] \in Seq(Lowered)
    <2>1. \A i \in 1..Len(r) : r[i] \in TextChars
        OBVIOUS
    <2> QED BY <2>1, LoweredCharIs
<1>2. ss \in Seq(Seq(Lowered)) /\ Len(ss) = Len(r) /\ \A i \in 1..Len(r) : ss[i] = LoweredChar[r[i]]
    <2> DEFINE Y == Seq(Lowered)
    <2>1. \A i \in 1..Len(r) : LoweredChar[r[i]] \in Y
        BY <1>1
    <2> HIDE DEF Y
    <2>2. ss \in Seq(Y) /\ Len(ss) = Len(r) /\ \A i \in 1..Len(r) : ss[i] = LoweredChar[r[i]]
        BY <2>1
    <2> QED BY <2>2 DEF Y
<1> HIDE DEF ss
<1>3. FlattenSeq(ss) \in Seq(Lowered) /\ ToSet(FlattenSeq(ss)) = UNION {ToSet(ss[i]) : i \in 1..Len(ss)}
    BY <1>2, FlattenElements
<1>4. {ToSet(ss[i]) : i \in 1..Len(ss)} = {ToSet(LoweredChar[r[i]]) : i \in 1..Len(r)}
    BY <1>2
<1>5. ToLower(r) = FlattenSeq(ss)
    BY DEF ToLower, ss
<1> QED BY <1>3, <1>4, <1>5

(* The lower case of a part has no characters the lower case has not.      *)
LEMMA LowerWithin ==
    ASSUME NEW s \in Seq(TextChars), NEW a \in 1..Len(s), NEW b \in 1..Len(s), a <= b
    PROVE  /\ ToLower(SubSeq(s, a, b)) \in Seq(Lowered)
           /\ ToSet(ToLower(SubSeq(s, a, b))) \subseteq ToSet(ToLower(s))
<1>1. ASSUME NEW r \in Seq(TextChars)
      PROVE  /\ ToLower(r) \in Seq(Lowered)
             /\ ToSet(ToLower(r)) = UNION {ToSet(LoweredChar[r[i]]) : i \in 1..Len(r)}
    BY LoweredText
<1>2. a \in Nat /\ b \in Nat /\ 1 <= a /\ a <= b + 1 /\ b <= Len(s)
    OBVIOUS
<1> DEFINE p == SubSeq(s, a, b)
<1>3. p \in Seq(TextChars) /\ \A x \in ToSet(p) : \E k \in a..b : x = s[k]
    BY <1>2, PartElements
<1> HIDE DEF p
<1>4. ASSUME NEW x \in ToSet(ToLower(p)) PROVE x \in ToSet(ToLower(s))
    <2>1. PICK i \in 1..Len(p) : x \in ToSet(LoweredChar[p[i]])
        BY <1>1, <1>3
    <2>2. p[i] \in ToSet(p)
        BY <1>3, ToSetElements
    <2>3. PICK k \in a..b : p[i] = s[k]
        BY <2>2, <1>3
    <2>4. k \in 1..Len(s)
        OBVIOUS
    <2> QED BY <2>1, <2>3, <2>4, <1>1
<1> QED BY <1>1, <1>3, <1>4 DEF p

(* Offsets in the lower case are offsets in the text.                      *)
LEMMA LowerOffsets ==
    ASSUME NEW s \in Seq(TextChars), \A i \in 1..Len(s) : s[i] \in TextChars \ {"I", "K"},
           NEW n \in 0..Len(s)
    PROVE  Behind(ToLower(s), n) = Behind(s, n)
<1> DEFINE l == ToLower(s)
           N == Len(s)
           T == {k \in 0..N : Behind(l, k) = Behind(s, k)}
<1>1. l \in Seq(Lowered) /\ Len(l) = N /\ \A i \in 1..N : l[i] = Single(s[i])
    <2>1. \A i \in 1..Len(s) : s[i] \in TextChars \ {"I"}
        OBVIOUS
    <2> QED BY <2>1, LowerIs
<1>2. l \in Seq(WordCharacters) /\ s \in Seq(WordCharacters)
    <2>1. Lowered \subseteq WordCharacters /\ TextChars \subseteq WordCharacters
        BY DEF WordCharacters
    <2> HIDE DEF l
    <2> QED BY <2>1, <1>1
<1>3. \A i \in 1..N : ByteSize[l[i]] = ByteSize[s[i]]
    BY <1>1, LoweredCharIs
<1> HIDE DEF l
<1>4. /\ Behind(l, 0) = 0 /\ Behind(s, 0) = 0
      /\ \A k \in 1..N : Behind(l, k) = Behind(l, k - 1) + ByteSize[l[k]]
      /\ \A k \in 1..N : Behind(s, k) = Behind(s, k - 1) + ByteSize[s[k]]
    BY <1>1, <1>2, BehindIs
<1>5. N \in Nat /\ N \in Int /\ 0 \in Int
    OBVIOUS
<1> HIDE DEF N
<1>6. 0 \in T
    BY <1>4, <1>5
<1>7. ASSUME NEW k \in 0..N - 1, k \in T PROVE k + 1 \in T
    <2>1. k + 1 \in 1..N /\ k + 1 \in 0..N /\ (k + 1) - 1 = k
        BY <1>5
    <2>2. Behind(l, k + 1) = Behind(l, k) + ByteSize[l[k + 1]]
        BY <2>1, <1>4
    <2>3. Behind(s, k + 1) = Behind(s, k) + ByteSize[s[k + 1]]
        BY <2>1, <1>4
    <2>4. Behind(l, k + 1) = Behind(s, k + 1)
        BY <2>1, <2>2, <2>3, <1>3, <1>7
    <2> QED BY <2>1, <2>4
<1>8. 0..N \subseteq T
    <2> HIDE DEF T
    <2> QED BY <1>5, <1>6, <1>7, IntervalInduction
<1> QED BY <1>8 DEF l, N

Gap == " "

(* u has the offsets, the hyphens and the blanks of s.                     *)
Aligned(s, u) ==
    /\ u \in Seq(WordCharacters) /\ Len(u) = Len(s)
    /\ \A k \in 1..Len(s) : s[k] = "-" <=> u[k] = "-"
    /\ \A k \in 1..Len(s) : s[k] = Gap => u[k] = Gap

LEMMA AlignedTexts ==
    ASSUME NEW s \in Seq(TextChars)
    PROVE  /\ s \in Seq(WordCharacters) /\ Aligned(s, s)
           /\ (\A i \in 1..Len(s) : s[i] \in TextChars \ {"I"}) => Aligned(s, ToLower(s))
<1>1. TextChars \subseteq WordCharacters /\ Lowered \subseteq WordCharacters
    BY DEF WordCharacters
<1>2. s \in Seq(WordCharacters)
    BY <1>1
<1>3. Aligned(s, s)
    BY <1>2 DEF Aligned
<1>4. ASSUME \A i \in 1..Len(s) : s[i] \in TextChars \ {"I"} PROVE Aligned(s, ToLower(s))
    <2> DEFINE l == ToLower(s)
    <2>1. l \in Seq(Lowered) /\ Len(l) = Len(s) /\ \A i \in 1..Len(s) : l[i] = Single(s[i])
        BY <1>4, LowerIs
    <2> HIDE DEF l
    <2>2. l \in Seq(WordCharacters)
        BY <1>1, <2>1
    <2>3. ASSUME NEW i \in 1..Len(s) PROVE s[i] = "-" <=> l[i] = "-"
        <3> DEFINE c == s[i]
        <3>1. c \in TextChars \ {"I"} /\ l[i] = Single(c)
            BY <2>1, <1>4
        <3> HIDE DEF c
        <3>2. Single(c) = "-" <=> c = "-"
            BY <3>1, LoweredCharIs
        <3> QED BY <3>1, <3>2 DEF c
    <2>4. \A i \in 1..Len(s) : s[i] = Gap => l[i] = Gap
        BY <2>1, <1>4, LoweredCharIs DEF Gap
    <2>5. Aligned(s, l)
        BY <2>1, <2>2, <2>3, <2>4 DEF Aligned
    <2> QED BY <2>5 DEF l
<1> QED BY <1>2, <1>3, <1>4

(* Nothing but hyphens is between s[a..b] and the next blanks.             *)
BlankAt(s, k) == k \notin DOMAIN s \/ s[k] = Gap
LoneAt(s, a, b) ==
    /\ a \in DOMAIN s /\ b \in DOMAIN s /\ a <= b /\ s[a] # "-" /\ s[b] # "-"
    /\ \E k \in 0..a - 1 : BlankAt(s, k) /\ \A x \in k + 1..a - 1 : s[x] = "-"
    /\ \E k \in b + 1..Len(s) + 1 : BlankAt(s, k) /\ \A x \in b + 1..k - 1 : s[x] = "-"

LEMMA LoneIsAlone ==
    ASSUME NEW s \in Seq(WordCharacters), NEW u, Aligned(s, u), NEW chars, Gap \notin chars,
           NEW a, NEW b, LoneAt(s, a, b), \A x \in a..b : u[x] \in chars \cup {"-"}
    PROVE  Alone(u, chars, a, b)
<1> DEFINE N == Len(s)
           In(x) == x \in DOMAIN u /\ u[x] \in chars \cup {"-"}
<1>1. /\ u \in Seq(WordCharacters) /\ Len(u) = N
      /\ \A k \in 1..N : s[k] = "-" <=> u[k] = "-"
      /\ \A k \in 1..N : s[k] = Gap => u[k] = Gap
    BY DEF Aligned
<1>2. DOMAIN s = 1..N /\ DOMAIN u = 1..N /\ N \in Nat
    <2>1. DOMAIN s = 1..N /\ N \in Nat
        OBVIOUS
    <2>2. DOMAIN u = 1..Len(u)
        BY <1>1
    <2> QED BY <2>1, <2>2, <1>1
<1>3. /\ a \in 1..N /\ b \in 1..N /\ a <= b /\ s[a] # "-" /\ s[b] # "-"
      /\ \E k \in 0..a - 1 : BlankAt(s, k) /\ \A x \in k + 1..a - 1 : s[x] = "-"
      /\ \E k \in b + 1..N + 1 : BlankAt(s, k) /\ \A x \in b + 1..k - 1 : s[x] = "-"
    BY <1>2 DEF LoneAt
<1>4. PICK k \in 0..a - 1 : BlankAt(s, k) /\ \A x \in k + 1..a - 1 : s[x] = "-"
    BY <1>3
<1>5. PICK m \in b + 1..N + 1 : BlankAt(s, m) /\ \A x \in b + 1..m - 1 : s[x] = "-"
    BY <1>3
<1> HIDE DEF N
<1>6. \A x : BlankAt(s, x) => ~In(x)
    <2>1. Gap # "-"
        BY DEF Gap
    <2> QED BY <2>1, <1>1, <1>2 DEF BlankAt
<1>7. /\ k + 1 \in 1..N /\ m - 1 \in 1..N /\ k + 1 <= m - 1 /\ (k + 1) - 1 = k /\ (m - 1) + 1 = m
      /\ a \in k + 1..m - 1 /\ b \in k + 1..m - 1
      /\ \A x \in k + 1..m - 1 : x \in 1..N /\ (x \in k + 1..a - 1 \/ x \in a..b \/ x \in b + 1..m - 1)
    <2>1. k \in Int /\ m \in Int /\ a \in Int /\ b \in Int /\ 0 <= k /\ k < a /\ a <= b /\ b < m /\ m <= N + 1
        BY <1>2, <1>3
    <2>2. k + 1 \in 1..N /\ m - 1 \in 1..N /\ k + 1 <= m - 1 /\ (k + 1) - 1 = k /\ (m - 1) + 1 = m
        BY <2>1, <1>2
    <2>3. a \in k + 1..m - 1 /\ b \in k + 1..m - 1
        BY <2>1
    <2>4. ASSUME NEW x \in k + 1..m - 1
          PROVE  x \in 1..N /\ (x \in k + 1..a - 1 \/ x \in a..b \/ x \in b + 1..m - 1)
        BY <2>1, <1>2
    <2> QED BY <2>2, <2>3, <2>4
<1>8. \A x \in k + 1..m - 1 : In(x)
    <2> SUFFICES ASSUME NEW x \in k + 1..m - 1 PROVE u[x] \in chars \cup {"-"}
        BY <1>2, <1>7
    <2>1. CASE x \in a..b
        BY <2>1
    <2>2. CASE x \in k + 1..a - 1
        BY <2>2, <1>1, <1>4, <1>7
    <2>3. CASE x \in b + 1..m - 1
        BY <2>3, <1>1, <1>5, <1>7
    <2> QED BY <2>1, <2>2, <2>3, <1>7
<1>9. u[a] # "-" /\ u[b] # "-"
    BY <1>1, <1>3
<1> DEFINE r == <<k + 1, m - 1>>
<1>10. r[1] = k + 1 /\ r[2] = m - 1 /\ r \in (DOMAIN u) \X (DOMAIN u)
    BY <1>2, <1>7
<1>11. Between(u, r[1], r[2], a, b)
    <2>1. ASSUME NEW x \in k + 1..a - 1 PROVE u[x] = "-"
        <3>1. x \in 1..N
            BY <1>3, <1>2
        <3> QED BY <3>1, <1>1, <1>4
    <2>2. ASSUME NEW x \in b + 1..m - 1 PROVE u[x] = "-"
        <3>1. x \in 1..N
            BY <1>3, <1>2
        <3> QED BY <3>1, <1>1, <1>5
    <2> HIDE DEF r
    <2> QED BY <2>1, <2>2, <1>3, <1>7, <1>9, <1>10 DEF Between
<1>12. r \in Runs(u, chars)
    <2>1. r[1] <= r[2] /\ ~In(r[1] - 1) /\ ~In(r[2] + 1)
        <3> HIDE DEF In, r
        <3> QED BY <1>4, <1>5, <1>6, <1>7, <1>10
    <2>2. \A x \in r[1]..r[2] : In(x)
        <3> HIDE DEF In, r
        <3> QED BY <1>8, <1>10
    <2>3. \E x \in r[1]..r[2] : u[x] # "-"
        <3> HIDE DEF r
        <3> QED BY <1>7, <1>9, <1>10
    <2> HIDE DEF r
    <2> QED BY <2>1, <2>2, <2>3, <1>10 DEF Runs
<1> QED BY <1>11, <1>12 DEF Alone

LEMMA PartHolds ==
    ASSUME NEW X, NEW s \in Seq(X), NEW a \in 1..Len(s), NEW b \in 1..Len(s), a <= b
    PROVE  \A x \in a..b : s[x] \in ToSet(SubSeq(s, a, b))
<1> DEFINE p == SubSeq(s, a, b)
<1>1. a \in Nat /\ b \in Nat /\ 1 <= a /\ a <= b + 1 /\ b <= Len(s)
    OBVIOUS
<1>2. p \in Seq(X) /\ Len(p) = b + 1 - a /\ \A i \in 1..b + 1 - a : p[i] = s[a + i - 1]
    BY <1>1, PartElements
<1> HIDE DEF p
<1>3. ASSUME NEW x \in a..b PROVE s[x] \in ToSet(p)
    <2> DEFINE i == x + 1 - a
    <2>1. i \in 1..b + 1 - a /\ a + i - 1 = x
        BY <1>1
    <2> HIDE DEF i
    <2>2. p[i] = s[x] /\ i \in 1..Len(p)
        BY <2>1, <1>2
    <2>3. p[i] \in ToSet(p)
        BY <2>2, <1>2, ToSetElements
    <2> QED BY <2>2, <2>3
<1> QED BY <1>3 DEF p

(* What is reported is of the text, and what stands alone is reported.     *)
PlacesIn(s, u, rep) ==
    \A r \in rep : \E a, b \in 1..Len(s) : a <= b /\ r.word = SubSeq(u, a, b) /\ r.raw = SubSeq(s, a, b)
FindsLone(s, u, words, rep) ==
    \A a, b : LoneAt(s, a, b) /\ SubSeq(u, a, b) \in words =>
      \E r \in rep : r.from = Behind(s, a - 1) /\ r.to = Behind(s, b)

LEMMA AloneIsFound ==
    ASSUME NEW s \in Seq(TextChars), NEW u, Aligned(s, u), NEW chars, Gap \notin chars,
           NEW a, NEW b, LoneAt(s, a, b), ToSet(SubSeq(u, a, b)) \subseteq chars \cup {"-"}
    PROVE  Alone(u, chars, a, b) /\ a \in 1..Len(s) /\ b \in 1..Len(s) /\ a <= b
<1>1. s \in Seq(WordCharacters)
    BY AlignedTexts
<1>2. a \in 1..Len(s) /\ b \in 1..Len(s) /\ a <= b
    <2>1. DOMAIN s = 1..Len(s)
        OBVIOUS
    <2> QED BY <2>1 DEF LoneAt
<1>3. u \in Seq(WordCharacters) /\ Len(u) = Len(s)
    BY DEF Aligned
<1>4. \A x \in a..b : u[x] \in ToSet(SubSeq(u, a, b))
    BY <1>2, <1>3, PartHolds
<1> QED BY <1>1, <1>2, <1>4, LoneIsAlone

LEMMA CutReports ==
    ASSUME written \in Seq(TextChars), NEW u, Aligned(written, u),
           \A k \in 0..Len(written) : Behind(u, k) = Behind(written, k),
           NEW words, \A w \in words : ToSet(w) \subseteq Alphanumeric \cup {"-"},
           Cut(Known(InBytes(u, TokensOf(u, Alphanumeric)), words))
    PROVE  /\ written' = written /\ reader' = "read"
           /\ PlacesIn(written, u, reported') /\ FindsLone(written, u, words, reported')
<1> DEFINE s == written
           N == Len(s)
           toks == ToSet(InBytes(u, TokensOf(u, Alphanumeric)))
           found == Known(InBytes(u, TokensOf(u, Alphanumeric)), words)
<1>1. s \in Seq(WordCharacters)
    BY AlignedTexts
<1>2. u \in Seq(WordCharacters) /\ Len(u) = N
    BY DEF Aligned
<1>3. /\ \A t \in toks : \E a, b \in 1..N : a <= b /\ t = BytesAt(u, a, b)
      /\ \A a, b : Alone(u, Alphanumeric, a, b) => BytesAt(u, a, b) \in toks
    BY <1>2, OffsetsAre
<1>4. \A t : t \in found <=> t \in toks /\ t.word \in words
    BY DEF Known
<1>5. ASSUME NEW a \in 1..N, NEW b \in 1..N, a <= b, NEW t, t = BytesAt(u, a, b)
      PROVE  /\ t.word = SubSeq(u, a, b) /\ t.from = Behind(s, a - 1) /\ t.to = Behind(s, b)
             /\ Sliceable(t) /\ Slice(t) = SubSeq(s, a, b)
    <2>1. a - 1 \in 0..N /\ b \in 0..N /\ (a - 1) + 1 = a
        BY <1>1
    <2>2. t.word = SubSeq(u, a, b) /\ t.from = Behind(s, a - 1) /\ t.to = Behind(s, b)
        BY <2>1, <1>5 DEF BytesAt
    <2>3. /\ Edge(s, Behind(s, a - 1)) /\ EdgeAt(s, Behind(s, a - 1)) = a - 1
          /\ Edge(s, Behind(s, b)) /\ EdgeAt(s, Behind(s, b)) = b
        BY <2>1, <1>1, EdgeIs
    <2>4. Sliceable(t)
        BY <2>2, <2>3 DEF Sliceable
    <2>5. Slice(t) = SubSeq(s, (a - 1) + 1, b)
        BY <2>2, <2>3 DEF Slice
    <2> QED BY <2>1, <2>2, <2>4, <2>5
<1> HIDE DEF toks, found, N
<1>6. \A t \in found : Sliceable(t)
    <2> SUFFICES ASSUME NEW t \in found PROVE Sliceable(t)
        OBVIOUS
    <2>1. PICK a \in 1..N, b \in 1..N : a <= b /\ t = BytesAt(u, a, b)
        BY <1>3, <1>4
    <2> QED BY <2>1, <1>5
<1>7. written' = written /\ reader' = "read" /\ reported' = {Report(t, Slice(t)) : t \in found}
    BY <1>6 DEF Cut, found
<1>8. PlacesIn(s, u, reported')
    <2>1. ASSUME NEW r \in reported'
          PROVE  \E a, b \in 1..N : a <= b /\ r.word = SubSeq(u, a, b) /\ r.raw = SubSeq(s, a, b)
        <3>1. PICK t \in found : r = Report(t, Slice(t))
            BY <2>1, <1>7
        <3>2. PICK a \in 1..N, b \in 1..N : a <= b /\ t = BytesAt(u, a, b)
            BY <1>3, <1>4
        <3>3. t.word = SubSeq(u, a, b) /\ Slice(t) = SubSeq(s, a, b)
            BY <3>2, <1>5
        <3>4. r.word = t.word /\ r.raw = Slice(t)
            BY <3>1 DEF Report
        <3> QED BY <3>2, <3>3, <3>4
    <2> QED BY <2>1 DEF PlacesIn, N
<1>9. FindsLone(s, u, words, reported')
    <2>1. ASSUME NEW a, NEW b, LoneAt(s, a, b), SubSeq(u, a, b) \in words
          PROVE  \E r \in reported' : r.from = Behind(s, a - 1) /\ r.to = Behind(s, b)
        <3>1. Gap \notin Alphanumeric
            BY DEF Gap, Alphanumeric
        <3>2. Alone(u, Alphanumeric, a, b) /\ a \in 1..N /\ b \in 1..N /\ a <= b
            BY <2>1, <3>1, AloneIsFound DEF N
        <3> DEFINE t == BytesAt(u, a, b)
                   r == Report(t, Slice(t))
        <3>3. t.word = SubSeq(u, a, b) /\ t.from = Behind(s, a - 1) /\ t.to = Behind(s, b)
            BY <3>2, <1>5
        <3>4. t \in found
            <4> HIDE DEF t
            <4>1. t \in toks
                BY <3>2, <1>3 DEF t
            <4> QED BY <4>1, <3>3, <1>4, <2>1
        <3> HIDE DEF t
        <3>5. r \in reported' /\ r.from = t.from /\ r.to = t.to
            BY <3>4, <1>7 DEF Report
        <3> HIDE DEF r
        <3> QED BY <3>3, <3>5
    <2> QED BY <2>1 DEF FindsLone
<1> QED BY <1>7, <1>8, <1>9

(* What the property says of a text, who read it and what was reported.    *)
ReadAsWords(s, who, rep) ==
    \A r \in rep :
      /\ who = "gazetteer" => r.raw = r.word
      /\ who \in {"keyword", "persuasion"} /\ Steady(s) => ToLower(r.raw) = r.word
      /\ who = "plugin" /\ SteadyJs(s) => ToLower(r.raw) = r.word
WideAbort(s, rd, who) ==
    rd = "aborted" => \/ who \in {"keyword", "persuasion"} /\ ~Steady(s)
                      \/ who = "tagger" /\ ~Is(ToLower(s), Ascii)
FoundByPlace(s, a, b, rep) == \E r \in rep : r.from = Behind(s, a - 1) /\ r.to = Behind(s, b)
LoneFound(s, rd, who, rep) ==
    rd = "read" => \A a, b : LoneAt(s, a, b) =>
       /\ who = "gazetteer" /\ SubSeq(s, a, b) \in KnownNames => FoundByPlace(s, a, b, rep)
       /\ who \in {"keyword", "persuasion"} /\ Steady(s) /\ ToLower(SubSeq(s, a, b)) \in KnownWords
          => FoundByPlace(s, a, b, rep)
       /\ who = "plugin" /\ Is(s, Ascii) /\ ToLower(SubSeq(s, a, b)) \in KnownWords
          => FoundByPlace(s, a, b, rep)
RightlyRead(s, rd, who, rep) == ReadAsWords(s, who, rep) /\ WideAbort(s, rd, who) /\ LoneFound(s, rd, who, rep)

WordInv ==
    /\ written \in Seq(TextChars)
    /\ reader \in Readers => reported = {}
    /\ RightlyRead(written, reader, by, reported)

LEMMA WordInvMeans == WordInv => OffsetsAddressText
<1> SUFFICES ASSUME WordInv PROVE OffsetsAddressText
    OBVIOUS
<1>1. RightlyRead(written, reader, by, reported)
    BY DEF WordInv
<1>2. SlicesReadAsWords
    BY <1>1 DEF RightlyRead, ReadAsWords, SlicesReadAsWords
<1>3. AbortsAreWide
    BY <1>1 DEF RightlyRead, WideAbort, AbortsAreWide
<1>4. LoneWordsAreFound
    <2> DEFINE Blank(k) == k \notin DOMAIN written \/ written[k] = " "
               Hyphens(i, j) == \A k \in i..j : written[k] = "-"
               Lone == {p \in (DOMAIN written) \X (DOMAIN written) :
                   /\ p[1] <= p[2] /\ written[p[1]] # "-" /\ written[p[2]] # "-"
                   /\ \E k \in 0..p[1] - 1 : Blank(k) /\ Hyphens(k + 1, p[1] - 1)
                   /\ \E k \in p[2] + 1..Len(written) + 1 : Blank(k) /\ Hyphens(p[2] + 1, k - 1)}
               At(p) == SubSeq(written, p[1], p[2])
               Bounds(p) == <<SizeOf(SubSeq(written, 1, p[1] - 1)), SizeOf(SubSeq(written, 1, p[2]))>>
               FoundBetween(p) == \E r \in reported : <<r.from, r.to>> = Bounds(p)
    <2>1. \A k : Blank(k) <=> BlankAt(written, k)
        BY DEF BlankAt, Gap
    <2> HIDE DEF Blank
    <2>2. \A p \in Lone : LoneAt(written, p[1], p[2])
        BY <2>1 DEF LoneAt
    <2>3. \A p : FoundByPlace(written, p[1], p[2], reported) => FoundBetween(p)
        BY DEF FoundByPlace, Behind
    <2> HIDE DEF Lone, FoundBetween
    <2>4. reader = "read" =>
          \A p \in Lone :
            /\ by = "gazetteer" /\ At(p) \in KnownNames => FoundBetween(p)
            /\ by \in {"keyword", "persuasion"} /\ Steady(written)
               /\ ToLower(At(p)) \in KnownWords => FoundBetween(p)
            /\ by = "plugin" /\ Is(written, Ascii) /\ ToLower(At(p)) \in KnownWords => FoundBetween(p)
        <3> SUFFICES ASSUME reader = "read", NEW p \in Lone
              PROVE  /\ by = "gazetteer" /\ At(p) \in KnownNames => FoundBetween(p)
                     /\ by \in {"keyword", "persuasion"} /\ Steady(written)
                        /\ ToLower(At(p)) \in KnownWords => FoundBetween(p)
                     /\ by = "plugin" /\ Is(written, Ascii) /\ ToLower(At(p)) \in KnownWords => FoundBetween(p)
            OBVIOUS
        <3> DEFINE a == p[1]
                   b == p[2]
        <3>1. LoneAt(written, a, b) /\ (FoundByPlace(written, a, b, reported) => FoundBetween(p))
            BY <2>2, <2>3
        <3>2. LoneFound(written, reader, by, reported)
            BY <1>1 DEF RightlyRead
        <3>3. At(p) = SubSeq(written, a, b)
            OBVIOUS
        <3> HIDE DEF a, b, At
        <3>4. /\ by = "gazetteer" /\ SubSeq(written, a, b) \in KnownNames => FoundByPlace(written, a, b, reported)
              /\ by \in {"keyword", "persuasion"} /\ Steady(written) /\ ToLower(SubSeq(written, a, b)) \in KnownWords
                 => FoundByPlace(written, a, b, reported)
              /\ by = "plugin" /\ Is(written, Ascii) /\ ToLower(SubSeq(written, a, b)) \in KnownWords
                 => FoundByPlace(written, a, b, reported)
            BY <3>1, <3>2 DEF LoneFound
        <3> QED BY <3>1, <3>3, <3>4
    <2> QED BY <2>4 DEF LoneWordsAreFound, Lone, FoundBetween, Blank
<1> QED BY <1>2, <1>3, <1>4 DEF OffsetsAddressText

LEMMA ReaderNames ==
    /\ "keyword" \in Readers /\ "persuasion" \in Readers /\ "gazetteer" \in Readers
    /\ "tagger" \in Readers /\ "plugin" \in Readers
    /\ "read" \notin Readers /\ "aborted" \notin Readers
BY DEF Readers

LEMMA NothingReported ==
    ASSUME NEW s, NEW rd, NEW who, rd # "read", WideAbort(s, rd, who)
    PROVE  RightlyRead(s, rd, who, {})
BY DEF RightlyRead, ReadAsWords, LoneFound

(* The two dictionaries of the core look at the text in lower case.        *)
LEMMA DictionaryReads ==
    ASSUME WordInv, NEW who \in {"keyword", "persuasion"}, Unread(who),
           Cut(Known(InBytes(ToLower(written), TokensOf(ToLower(written), Alphanumeric)), KnownWords))
    PROVE  WordInv'
<1> DEFINE s == written
           l == ToLower(written)
           found == Known(InBytes(l, TokensOf(l, Alphanumeric)), KnownWords)
<1>1. s \in Seq(TextChars) /\ reported = {} /\ by' = who /\ reader = who
    BY ReaderNames DEF WordInv, Unread
<1>2. /\ written' = written
      /\ \/ reader' = "read"
         \/ reader' = "aborted" /\ reported' = reported
    BY DEF Cut
<1>3. CASE ~Steady(s)
    <2>1. ReadAsWords(s, who, reported')
        BY <1>3 DEF ReadAsWords
    <2>2. WideAbort(s, reader', who)
        BY <1>3 DEF WideAbort
    <2>3. LoneFound(s, reader', who, reported')
        BY <1>3 DEF LoneFound
    <2>4. RightlyRead(s, reader', who, reported')
        BY <2>1, <2>2, <2>3 DEF RightlyRead
    <2> QED BY <1>1, <1>2, <2>4, ReaderNames DEF WordInv
<1>4. CASE Steady(s)
    <2>1. \A i \in 1..Len(s) : s[i] \in TextChars \ {"I", "K"}
        BY <1>1, <1>4, SteadyTexts
    <2>2. \A i \in 1..Len(s) : s[i] \in TextChars \ {"I"}
        BY <2>1
    <2>3. Aligned(s, l)
        BY <1>1, <2>2, AlignedTexts
    <2>4. \A k \in 0..Len(s) : Behind(l, k) = Behind(s, k)
        BY <1>1, <2>1, LowerOffsets
    <2>5. \A w \in KnownWords : ToSet(w) \subseteq Alphanumeric \cup {"-"}
        BY WordAssumption
    <2> HIDE DEF l
    <2>6. reader' = "read" /\ PlacesIn(s, l, reported') /\ FindsLone(s, l, KnownWords, reported')
        BY <1>1, <2>3, <2>4, <2>5, CutReports DEF l
    <2>7. ASSUME NEW a \in 1..Len(s), NEW b \in 1..Len(s), a <= b PROVE ToLower(SubSeq(s, a, b)) = SubSeq(l, a, b)
        BY <1>1, <2>2, <2>7, LowerOfPart DEF l
    <2>8. ReadAsWords(s, who, reported')
        <3> SUFFICES ASSUME NEW r \in reported' PROVE ToLower(r.raw) = r.word
            BY DEF ReadAsWords
        <3>1. PICK a \in 1..Len(s), b \in 1..Len(s) : a <= b /\ r.word = SubSeq(l, a, b) /\ r.raw = SubSeq(s, a, b)
            BY <2>6 DEF PlacesIn
        <3> QED BY <3>1, <2>7
    <2>9. LoneFound(s, reader', who, reported')
        <3> SUFFICES ASSUME NEW a, NEW b, LoneAt(s, a, b), ToLower(SubSeq(s, a, b)) \in KnownWords
                     PROVE  FoundByPlace(s, a, b, reported')
            BY DEF LoneFound
        <3>1. a \in 1..Len(s) /\ b \in 1..Len(s) /\ a <= b
            <4>1. DOMAIN s = 1..Len(s)
                BY <1>1
            <4> QED BY <4>1 DEF LoneAt
        <3> QED BY <3>1, <2>6, <2>7 DEF FindsLone, FoundByPlace
    <2>10. WideAbort(s, reader', who)
        BY <2>6 DEF WideAbort
    <2>11. RightlyRead(s, reader', who, reported')
        BY <2>8, <2>9, <2>10 DEF RightlyRead
    <2> QED BY <1>1, <1>2, <2>6, <2>11, ReaderNames DEF WordInv
<1> QED BY <1>3, <1>4

LEMMA GazetteerReads ==
    ASSUME WordInv, ScanNameText
    PROVE  WordInv'
<1> DEFINE s == written
<1>1. s \in Seq(TextChars) /\ reported = {} /\ by' = "gazetteer" /\ reader = "gazetteer"
    BY ReaderNames DEF WordInv, Unread, ScanNameText
<1>2. Cut(Known(InBytes(s, TokensOf(s, Alphanumeric)), KnownNames))
    BY DEF ScanNameText, TokenizeCaseSensitive
<1>3. Aligned(s, s)
    BY <1>1, AlignedTexts
<1>4. \A w \in KnownNames : ToSet(w) \subseteq Alphanumeric \cup {"-"}
    BY WordAssumption
<1>5. written' = written /\ reader' = "read" /\ PlacesIn(s, s, reported') /\ FindsLone(s, s, KnownNames, reported')
    BY <1>1, <1>2, <1>3, <1>4, CutReports
<1>6. ReadAsWords(s, "gazetteer", reported')
    <2> SUFFICES ASSUME NEW r \in reported' PROVE r.raw = r.word
        BY DEF ReadAsWords
    <2> QED BY <1>5 DEF PlacesIn
<1>7. LoneFound(s, reader', "gazetteer", reported')
    <2> SUFFICES ASSUME NEW a, NEW b, LoneAt(s, a, b), SubSeq(s, a, b) \in KnownNames
                 PROVE  FoundByPlace(s, a, b, reported')
        BY DEF LoneFound
    <2> QED BY <1>5 DEF FindsLone, FoundByPlace
<1>8. WideAbort(s, reader', "gazetteer")
    BY <1>5 DEF WideAbort
<1>9. RightlyRead(s, reader', "gazetteer", reported')
    BY <1>6, <1>7, <1>8 DEF RightlyRead
<1> QED BY <1>1, <1>5, <1>9, ReaderNames DEF WordInv

(* The plugin counts code units, and its slices stop at the end.           *)
LEMMA PluginReads ==
    ASSUME WordInv, ScanDictionaryJs
    PROVE  WordInv'
<1> DEFINE s == written
           l == ToLower(written)
           chars == Ascii \cap Alphanumeric
           toks == ToSet(InUtf16(TokensOf(l, chars)))
           Raw(t) == SubSeq(s, t.from + 1, Min({t.to, Len(s)}))
           N == Len(s)
<1>1. s \in Seq(TextChars) /\ by' = "plugin" /\ reader' = "read" /\ written' = written
    BY DEF WordInv, Unread, ScanDictionaryJs
<1>2. reported' = {Report(t, Raw(t)) : t \in {x \in toks : x.word \in KnownWords}}
    BY DEF ScanDictionaryJs, TokenizeJs, Known
<1> HIDE DEF toks, l, chars
<1>3. CASE ~SteadyJs(s)
    <2>1. ReadAsWords(s, "plugin", reported')
        BY <1>3 DEF ReadAsWords
    <2>2. ~Is(s, Ascii)
        <3> SUFFICES ASSUME Is(s, Ascii) PROVE FALSE
            OBVIOUS
        <3>1. \A i \in 1..Len(s) : s[i] \in TextChars \ {"I"}
            BY <1>1, SteadyTexts
        <3>2. DOMAIN s = 1..Len(s)
            BY <1>1
        <3>3. \A c \in TextChars \ {"I"} : Len(LoweredChar[c]) = 1
            <4>1. \A x : Len(<<x>>) = 1
                OBVIOUS
            <4> QED BY <4>1, LoweredCharIs
        <3> QED BY <3>1, <3>2, <3>3, <1>3 DEF SteadyJs
    <2>3. LoneFound(s, "read", "plugin", reported')
        BY <2>2 DEF LoneFound
    <2>4. WideAbort(s, "read", "plugin")
        BY DEF WideAbort
    <2>5. RightlyRead(s, "read", "plugin", reported')
        BY <2>1, <2>3, <2>4 DEF RightlyRead
    <2> QED BY <1>1, <2>5, ReaderNames DEF WordInv
<1>4. CASE SteadyJs(s)
    <2>1. \A i \in 1..Len(s) : s[i] \in TextChars \ {"I"}
        BY <1>1, <1>4, SteadyTexts
    <2>2. Aligned(s, l)
        BY <1>1, <2>1, AlignedTexts DEF l
    <2>3. l \in Seq(WordCharacters) /\ Len(l) = N /\ N \in Nat
        BY <2>2, <1>1 DEF Aligned
    <2>4. /\ \A t \in toks : \E a, b \in 1..N : a <= b /\ t = UnitsAt(l, a, b)
          /\ \A a, b : Alone(l, chars, a, b) => UnitsAt(l, a, b) \in toks
        BY <2>3, OffsetsAre DEF toks
    <2>5. ASSUME NEW a \in 1..N, NEW b \in 1..N, a <= b PROVE ToLower(SubSeq(s, a, b)) = SubSeq(l, a, b)
        BY <1>1, <2>1, <2>5, LowerOfPart DEF l
    <2>6. ASSUME NEW a \in 1..N, NEW b \in 1..N, a <= b, NEW t, t = UnitsAt(l, a, b)
          PROVE  t.word = SubSeq(l, a, b) /\ t.from = a - 1 /\ t.to = b /\ Raw(t) = SubSeq(s, a, b)
        <3>1. t.word = SubSeq(l, a, b) /\ t.from = a - 1 /\ t.to = b
            BY <2>6 DEF UnitsAt
        <3>2. Min({b, N}) = b
            <4>1. b \in Int /\ N \in Int /\ b <= N
                BY <2>3
            <4> HIDE DEF N
            <4>2. \A x \in {b, N} : (\A y \in {b, N} : x =< y) <=> x = b
                BY <4>1
            <4> QED BY <4>2 DEF Min
        <3>3. (a - 1) + 1 = a
            BY <2>3
        <3> QED BY <3>1, <3>2, <3>3
    <2> HIDE DEF Raw, N
    <2>7. ReadAsWords(s, "plugin", reported')
        <3> SUFFICES ASSUME NEW r \in reported' PROVE ToLower(r.raw) = r.word
            BY DEF ReadAsWords
        <3>1. PICK t \in toks : r = Report(t, Raw(t))
            BY <1>2
        <3>2. PICK a \in 1..N, b \in 1..N : a <= b /\ t = UnitsAt(l, a, b)
            BY <2>4
        <3>3. r.word = t.word /\ r.raw = Raw(t)
            BY <3>1 DEF Report
        <3>4. t.word = SubSeq(l, a, b) /\ Raw(t) = SubSeq(s, a, b)
            BY <3>2, <2>6
        <3> QED BY <3>2, <3>3, <3>4, <2>5
    <2>8. LoneFound(s, "read", "plugin", reported')
        <3> SUFFICES ASSUME NEW a, NEW b, LoneAt(s, a, b), Is(s, Ascii), ToLower(SubSeq(s, a, b)) \in KnownWords
                     PROVE  FoundByPlace(s, a, b, reported')
            BY DEF LoneFound
        <3>1. \A i \in 1..N : s[i] \in (TextChars \ {"I", "K"}) \cap Ascii
            BY <1>1, SteadyTexts DEF N
        <3>2. a \in 1..N /\ b \in 1..N /\ a <= b /\ a \in Nat /\ b \in Nat
            <4>1. DOMAIN s = 1..N
                BY <1>1 DEF N
            <4> QED BY <4>1 DEF LoneAt
        <3>3. ToSet(SubSeq(l, a, b)) \subseteq chars \cup {"-"}
            <4>1. \A x \in ToSet(SubSeq(l, a, b)) : x \in Alphanumeric \cup {"-"}
                BY <2>5, <3>2, WordAssumption
            <4>2. \A x \in ToSet(SubSeq(l, a, b)) : x \in Ascii
                <5>1. /\ l \in Seq(WordCharacters) /\ 1 <= a /\ a <= b + 1 /\ b <= Len(l)
                    BY <2>3, <3>2
                <5>2. \A x \in ToSet(SubSeq(l, a, b)) : \E k \in a..b : x = l[k]
                    BY <5>1, <3>2, PartElements
                <5>3. \A k \in 1..N : l[k] = Single(s[k])
                    BY <1>1, <2>1, LowerIs DEF l, N
                <5>4. \A k \in a..b : k \in 1..N
                    BY <2>3, <3>2
                <5>5. \A c \in TextChars \cap Ascii : Single(c) \in Ascii
                    BY LoweredCharIs
                <5>6. \A k \in 1..N : l[k] \in Ascii
                    BY <5>3, <5>5, <3>1
                <5> QED BY <5>2, <5>4, <5>6
            <4> QED BY <4>1, <4>2 DEF chars
        <3>4. Gap \notin chars
            BY DEF Gap, chars, Alphanumeric
        <3>5. Alone(l, chars, a, b)
            BY <1>1, <2>2, <3>3, <3>4, AloneIsFound
        <3> DEFINE t == UnitsAt(l, a, b)
                   r == Report(t, Raw(t))
        <3>6. t \in toks
            BY <3>5, <2>4
        <3>7. t.word = SubSeq(l, a, b) /\ t.from = a - 1 /\ t.to = b
            BY <3>2, <2>6
        <3> HIDE DEF t
        <3>8. t.word \in KnownWords
            BY <3>2, <3>7, <2>5
        <3>9. r \in reported' /\ r.from = t.from /\ r.to = t.to
            BY <3>6, <3>8, <1>2 DEF Report
        <3> HIDE DEF r
        <3>10. Behind(s, a - 1) = a - 1 /\ Behind(s, b) = b
            <4>1. s \in Seq(WordCharacters)
                BY <1>1, AlignedTexts
            <4>2. \A k \in 1..N : ByteSize[s[k]] = 1
                BY <3>1, ByteSizeIs
            <4>3. /\ a - 1 \in 0..Len(s) /\ b \in 0..Len(s)
                  /\ \A k \in 1..a - 1 : k \in 1..N
                  /\ \A k \in 1..b : k \in 1..N
                BY <2>3, <3>2 DEF N
            <4> QED BY <4>1, <4>2, <4>3, NarrowOffsets
        <3> QED BY <3>7, <3>9, <3>10 DEF FoundByPlace
    <2>9. WideAbort(s, "read", "plugin")
        BY DEF WideAbort
    <2>10. RightlyRead(s, "read", "plugin", reported')
        BY <2>7, <2>8, <2>9 DEF RightlyRead
    <2> QED BY <1>1, <2>10, ReaderNames DEF WordInv
<1> QED BY <1>3, <1>4

(* A word of narrow characters is cut anywhere.                            *)
LEMMA NarrowIsCut ==
    ASSUME NEW w \in Seq(Lowered), ToSet(w) \subseteq Ascii
    PROVE  AffixesCut(w)
<1>1. w \in Seq(WordCharacters)
    BY DEF WordCharacters
<1>2. \A k \in 1..Len(w) : ByteSize[w[k]] = 1
    <2>1. \A k \in 1..Len(w) : w[k] \in Ascii
        BY ToSetElements
    <2> QED BY <2>1, ByteSizeIs
<1>3. ASSUME NEW n \in 0..Len(w) PROVE Edge(w, n)
    <2>1. \A k \in 1..n : k \in 1..Len(w)
        OBVIOUS
    <2>2. Behind(w, n) = n
        BY <1>1, <1>2, <2>1, NarrowOffsets
    <2>3. Edge(w, Behind(w, n))
        BY <1>1, EdgeIs
    <2> QED BY <2>2, <2>3
<1>4. SizeOf(w) = Len(w)
    <2>1. Len(w) \in 0..Len(w)
        OBVIOUS
    <2>2. Behind(w, Len(w)) = Len(w)
        BY <1>1, <1>2, <2>1, NarrowOffsets
    <2> QED BY <1>1, <2>2, BehindIs
<1>5. ASSUME NEW n \in 1..3, n <= Len(w) PROVE n \in 0..Len(w) /\ Len(w) - n \in 0..Len(w)
    BY <1>5
<1> QED BY <1>3, <1>4, <1>5 DEF AffixesCut

LEMMA TaggerReads ==
    ASSUME WordInv, ExtractFeatures
    PROVE  WordInv'
<1> DEFINE s == written
           crf == TokenizeForCrf(written)
<1>1. /\ s \in Seq(TextChars) /\ reported = {} /\ by' = "tagger" /\ reader = "tagger"
      /\ written' = written /\ reported' = {}
    BY ReaderNames DEF WordInv, Unread, ExtractFeatures
<1>2. /\ reader' \in {"read", "aborted"}
      /\ (\A i \in DOMAIN crf : AffixesCut(crf[i].lower)) => reader' = "read"
    BY DEF ExtractFeatures
<1>3. ASSUME Is(ToLower(s), Ascii), NEW i \in DOMAIN crf PROVE AffixesCut(crf[i].lower)
    <2> DEFINE ts == InBytes(s, TokensOf(s, Alphanumeric))
    <2>1. crf = [k \in DOMAIN ts |-> [word |-> ts[k].word, lower |-> ToLower(ts[k].word)]]
        BY DEF TokenizeForCrf
    <2>2. s \in Seq(WordCharacters)
        BY <1>1, AlignedTexts
    <2>3. \A t \in ToSet(ts) : \E a, b \in 1..Len(s) : a <= b /\ t = BytesAt(s, a, b)
        BY <2>2, OffsetsAre
    <2> HIDE DEF ts, crf
    <2>4. i \in DOMAIN ts /\ crf[i].lower = ToLower(ts[i].word)
        BY <2>1, <1>3
    <2>5. ts[i] \in ToSet(ts)
        BY <2>4 DEF ToSet
    <2>6. PICK a \in 1..Len(s), b \in 1..Len(s) : a <= b /\ ts[i] = BytesAt(s, a, b)
        BY <2>3, <2>5
    <2>7. ts[i].word = SubSeq(s, a, b)
        BY <2>6 DEF BytesAt
    <2> DEFINE w == ToLower(SubSeq(s, a, b))
    <2>8. w \in Seq(Lowered) /\ ToSet(w) \subseteq ToSet(ToLower(s))
        BY <1>1, <2>6, LowerWithin
    <2> HIDE DEF w
    <2>9. AffixesCut(w)
        BY <2>8, <1>3, NarrowIsCut DEF Is
    <2> QED BY <2>4, <2>7, <2>9 DEF w
<1>4. WideAbort(s, reader', "tagger")
    BY <1>2, <1>3 DEF WideAbort
<1>5. ReadAsWords(s, "tagger", {}) /\ LoneFound(s, reader', "tagger", {})
    BY DEF ReadAsWords, LoneFound
<1>6. RightlyRead(s, reader', "tagger", {})
    BY <1>4, <1>5 DEF RightlyRead
<1> QED BY <1>1, <1>2, <1>6, ReaderNames DEF WordInv

LEMMA WordInitInv == WordInit => WordInv
<1> SUFFICES ASSUME WordInit PROVE WordInv
    OBVIOUS
<1>1. written \in Seq(TextChars)
    BY BoundedSeqIs, WordAssumption DEF WordInit
<1>2. reader # "read" /\ reader # "aborted" /\ reported = {}
    BY ReaderNames DEF WordInit
<1>3. RightlyRead(written, reader, by, {})
    BY <1>2, NothingReported DEF WideAbort
<1> QED BY <1>1, <1>2, <1>3 DEF WordInv

LEMMA WordStepInv == WordInv /\ [WordNext]_wordVars => WordInv'
<1> SUFFICES ASSUME WordInv, [WordNext]_wordVars PROVE WordInv'
    OBVIOUS
<1>1. CASE ScanKeywordText
    BY <1>1, DictionaryReads DEF ScanKeywordText, Tokenize
<1>2. CASE ScanPersuasionText
    BY <1>2, DictionaryReads DEF ScanPersuasionText, TokenizePhrases
<1>3. CASE ScanNameText
    BY <1>3, GazetteerReads
<1>4. CASE ScanDictionaryJs
    BY <1>4, PluginReads
<1>5. CASE ExtractFeatures
    BY <1>5, TaggerReads
<1>6. CASE UNCHANGED wordVars
    BY <1>6 DEF WordInv, wordVars
<1> QED BY <1>1, <1>2, <1>3, <1>4, <1>5, <1>6 DEF WordNext

LEMMA WordInvHolds == WordSpec => []WordInv
BY WordInitInv, WordStepInv, PTL DEF WordSpec

(* In whatever text, what a tokenizer reports is in the text where it says,*)
(* the process aborts only over the texts named, and a known word between  *)
(* blanks and hyphens is reported with its offsets.                        *)
THEOREM OffsetsHold == WordSpec => []OffsetsAddressText
<1>1. WordInv => OffsetsAddressText
    BY WordInvMeans
<1> QED BY <1>1, WordInvHolds, PTL

-----------------------------------------------------------------------------
(* The chunks of a text and the entities in them.                          *)

(* The least and the greatest of some offsets.                             *)
LEMMA OffsetBounds ==
    ASSUME NEW N \in Nat, NEW T \in SUBSET (0..N), T # {}
    PROVE  /\ Min(T) \in T /\ \A x \in T : Min(T) <= x
           /\ Max(T) \in T /\ \A x \in T : x <= Max(T)
<1> DEFINE U == {x + 1 : x \in T}
<1>1. N + 1 \in Nat /\ U \in SUBSET (1..N + 1) /\ U # {}
    <2>1. \A x \in T : x + 1 \in 1..N + 1
        OBVIOUS
    <2>2. \A u \in U : u \in 1..N + 1
        BY <2>1
    <2>3. \E x \in T : TRUE
        OBVIOUS
    <2>4. U # {}
        BY <2>3
    <2>5. N + 1 \in Nat
        OBVIOUS
    <2> HIDE DEF U
    <2> QED BY <2>2, <2>4, <2>5
<1>2. \A x \in T : x + 1 \in U /\ x \in Nat
    OBVIOUS
<1>3. \A u \in U : u - 1 \in T /\ (u - 1) + 1 = u /\ u \in Nat
    OBVIOUS
<1> HIDE DEF U
<1>4. PICK m \in U : \A u \in U : m <= u
    BY <1>1, LeastExists
<1>5. PICK n \in U : \A u \in U : u <= n
    BY <1>1, GreatestExists
<1>6. m - 1 \in T /\ \A x \in T : m - 1 <= x
    BY <1>2, <1>3, <1>4
<1>7. n - 1 \in T /\ \A x \in T : n - 1 >= x
    BY <1>2, <1>3, <1>5
<1>8. Min(T) \in T /\ \A x \in T : Min(T) <= x
    BY <1>6 DEF Min
<1>9. Max(T) \in T /\ \A x \in T : Max(T) >= x
    BY <1>7 DEF Max
<1>10. \A x \in T : x <= Max(T)
    BY <1>2, <1>9
<1> QED BY <1>8, <1>9, <1>10

(* A passage, of which whitespace and boundaries are all that matters.     *)
Passage == passage \in Seq({" ", "x", "(", ")"}) /\ passage # <<>> /\ WellFormed(passage)
PassageSize == Len(passage)

LEMMA PassageIs ==
    ASSUME Passage
    PROVE  /\ PassageSize \in Nat /\ PassageSize > 0 /\ DOMAIN passage = 1..PassageSize
           /\ Boundary(PassageSize)
           /\ \A p \in 0..PassageSize - 1 : Space(p) => Boundary(p)
           /\ \A p \in 0..PassageSize - 1 : ~Boundary(p) => p > 0 /\ Boundary(p - 1)
<1> DEFINE X == {" ", "x", "(", ")"}
<1>1. passage \in Seq(X) /\ passage # <<>>
    BY DEF Passage
<1> HIDE DEF X
<1>2. PassageSize \in Nat /\ PassageSize > 0 /\ DOMAIN passage = 1..PassageSize
    BY <1>1 DEF PassageSize
<1>3. /\ Head(passage) # ")"
      /\ \A i \in 1..PassageSize - 1 : passage[i] = "(" <=> passage[i + 1] = ")"
    BY DEF Passage, WellFormed, PassageSize
<1>4. Boundary(PassageSize)
    BY DEF Boundary, PassageSize
<1>5. \A p \in 0..PassageSize - 1 : Space(p) => Boundary(p)
    BY DEF Boundary, Space
<1>6. ASSUME NEW p \in 0..PassageSize - 1, ~Boundary(p) PROVE p > 0 /\ Boundary(p - 1)
    <2>1. passage[p + 1] = ")"
        BY <1>6 DEF Boundary
    <2>2. p # 0
        <3>1. Head(passage) = passage[1]
            BY <1>1
        <3>2. p = 0 => p + 1 = 1
            OBVIOUS
        <3> QED BY <2>1, <3>1, <3>2, <1>3
    <2>3. p \in 1..PassageSize - 1 /\ (p - 1) + 1 = p
        BY <2>2, <1>2
    <2>4. passage[p] = "("
        BY <2>1, <2>3, <1>3
    <2>5. passage[(p - 1) + 1] # ")"
        <3>1. "(" # ")"
            OBVIOUS
        <3> QED BY <2>3, <2>4, <3>1
    <2> QED BY <2>3, <2>5, <1>2 DEF Boundary
<1> QED BY <1>2, <1>4, <1>5, <1>6

LEMMA EndInIs ==
    ASSUME NEW e \in Nat, NEW p \in Nat, p < e
    PROVE  /\ EndIn(p, e) \in p + 1..e /\ (EndIn(p, e) = e \/ Space(EndIn(p, e)))
           /\ \A x \in p + 1..EndIn(p, e) - 1 : ~Space(x)
<1> DEFINE T == {q \in p + 1..e : q = e \/ Space(q)}
           m == Min(T)
<1>1. T \in SUBSET (0..e) /\ e \in T
    OBVIOUS
<1>2. m \in T /\ \A x \in T : m <= x
    <2> HIDE DEF T
    <2> QED BY <1>1, OffsetBounds
<1>3. m = EndIn(p, e)
    BY DEF EndIn
<1> HIDE DEF m
<1>4. m \in p + 1..e /\ (m = e \/ Space(m))
    BY <1>2
<1>5. ASSUME NEW x \in p + 1..m - 1 PROVE ~Space(x)
    <2>1. x \in p + 1..e /\ ~(m <= x)
        BY <1>4
    <2> QED BY <2>1, <1>2
<1> QED BY <1>3, <1>4, <1>5

(* The words of b..e, from the front.                                      *)
Successive(ws) == \A i, j \in 1..Len(ws) : i < j => ws[i][1] < ws[j][1]

LEMMA WordsInAre ==
    ASSUME Passage, NEW b \in 0..PassageSize, NEW e \in 0..PassageSize
    PROVE  /\ WordsIn(b, e) \in Seq((0..PassageSize) \X (0..PassageSize))
           /\ \A i \in 1..Len(WordsIn(b, e)) :
                /\ WordsIn(b, e)[i][1] \in StartsIn(b, e)
                /\ WordsIn(b, e)[i][2] = EndIn(WordsIn(b, e)[i][1], e)
           /\ \A p \in StartsIn(b, e) : \E i \in 1..Len(WordsIn(b, e)) : WordsIn(b, e)[i][1] = p
           /\ Successive(WordsIn(b, e))
<1> DEFINE N == PassageSize
           ids == [i \in DOMAIN passage |-> i - 1]
           S == StartsIn(b, e)
           starts == Those(ids, S)
           ws == WordsIn(b, e)
           R == {r \in (0..N) \X (0..N) : r[1] < r[2]}
<1>1. N \in Nat /\ DOMAIN passage = 1..N
    BY PassageIs
<1>2. S \subseteq 0..N - 1 /\ \A p \in S : p \in b..e - 1
    BY <1>1 DEF StartsIn
<1>3. ws = [k \in DOMAIN starts |-> <<starts[k], EndIn(starts[k], e)>>]
    BY DEF WordsIn
<1> HIDE DEF S, ws
<1>4. ids \in Seq(0..N - 1) /\ Len(ids) = N /\ \A i \in 1..N : ids[i] = i - 1
    <2> HIDE DEF N
    <2>1. ids = [i \in 1..N |-> i - 1] /\ \A i \in 1..N : i - 1 \in 0..N - 1
        BY <1>1
    <2> QED BY <2>1, <1>1
<1> HIDE DEF ids, N
<1>5. ToSet(ids) = 0..N - 1
    <2>1. ToSet(ids) \subseteq 0..N - 1 /\ \A i \in 1..N : ids[i] \in ToSet(ids)
        BY <1>4, ToSetElements
    <2>2. ASSUME NEW p \in 0..N - 1 PROVE p \in ToSet(ids)
        <3>1. p + 1 \in 1..N /\ (p + 1) - 1 = p
            BY <1>1
        <3> QED BY <3>1, <2>1, <1>4
    <2> QED BY <2>1, <2>2
<1>6. starts \in Seq((0..N - 1) \cap S) /\ ToSet(starts) = (0..N - 1) \cap S
    BY <1>4, <1>5, ThoseElements
<1>7. Ordered(ids, R)
    <2> SUFFICES ASSUME NEW i \in 1..N, NEW j \in 1..N, i < j PROVE <<ids[i], ids[j]>> \in R
        BY <1>4 DEF Ordered
    <2>1. ids[i] = i - 1 /\ ids[j] = j - 1 /\ i - 1 \in 0..N /\ j - 1 \in 0..N /\ i - 1 < j - 1
        BY <1>1, <1>4
    <2> QED BY <2>1
<1>8. Ordered(starts, R)
    BY <1>4, <1>7, ThoseOrdered
<1> HIDE DEF starts
<1>9. /\ DOMAIN starts = 1..Len(starts) /\ Len(starts) \in Nat
      /\ \A k \in 1..Len(starts) : starts[k] \in S
      /\ \A p \in S : \E k \in 1..Len(starts) : p = starts[k]
    <2>1. DOMAIN starts = 1..Len(starts) /\ Len(starts) \in Nat /\ \A k \in 1..Len(starts) : starts[k] \in S
        BY <1>6
    <2>2. \A p \in ToSet(starts) : \E k \in 1..Len(starts) : p = starts[k]
        BY <1>6, ToSetElements
    <2> QED BY <2>1, <2>2, <1>2, <1>6
<1>10. \A p \in S : p \in 0..N /\ EndIn(p, e) \in 0..N
    <2> SUFFICES ASSUME NEW p \in S PROVE p \in 0..N /\ EndIn(p, e) \in 0..N
        OBVIOUS
    <2>1. p \in Nat /\ e \in Nat /\ p < e /\ e <= N
        BY <1>1, <1>2 DEF N
    <2>2. EndIn(p, e) \in p + 1..e
        BY <2>1, EndInIs
    <2> QED BY <2>1, <2>2, <1>1
<1>11. \A k \in 1..Len(starts) : <<starts[k], EndIn(starts[k], e)>> \in (0..N) \X (0..N)
    BY <1>9, <1>10
<1>12. ws \in Seq((0..N) \X (0..N)) /\ Len(ws) = Len(starts)
    <2> DEFINE P == (0..N) \X (0..N)
    <2>1. \A k \in 1..Len(starts) : <<starts[k], EndIn(starts[k], e)>> \in P
        BY <1>11
    <2> HIDE DEF P
    <2>2. ws \in Seq(P) /\ Len(ws) = Len(starts)
        BY <2>1, <1>3, <1>9
    <2> QED BY <2>2 DEF P
<1>13. \A k \in 1..Len(starts) : ws[k][1] = starts[k] /\ ws[k][2] = EndIn(starts[k], e)
    BY <1>3, <1>9
<1>14. Successive(ws)
    <2> SUFFICES ASSUME NEW i \in 1..Len(ws), NEW j \in 1..Len(ws), i < j PROVE ws[i][1] < ws[j][1]
        BY DEF Successive
    <2>1. <<starts[i], starts[j]>> \in R
        BY <1>8, <1>12 DEF Ordered
    <2> QED BY <2>1, <1>12, <1>13
<1>15. \A k \in 1..Len(ws) : ws[k][1] \in S /\ ws[k][2] = EndIn(ws[k][1], e)
    BY <1>9, <1>12, <1>13
<1>16. ASSUME NEW p \in S PROVE \E k \in 1..Len(ws) : ws[k][1] = p
    <2>1. PICK k \in 1..Len(starts) : p = starts[k]
        BY <1>9
    <2>2. k \in 1..Len(ws) /\ ws[k][1] = p
        BY <2>1, <1>12, <1>13
    <2> QED BY <2>2
<1> QED BY <1>12, <1>14, <1>15, <1>16 DEF S, ws, N

-----------------------------------------------------------------------------
(* A word of the text: its bytes are no whitespace, those around it are.   *)
IsWord(w) ==
    /\ w[1] \in 0..PassageSize - 1 /\ w[2] \in w[1] + 1..PassageSize
    /\ \A x \in w[1]..w[2] - 1 : ~Space(x)
    /\ w[1] = 0 \/ Space(w[1] - 1)
    /\ w[2] = PassageSize \/ Space(w[2])

LEMMA WordsAre ==
    ASSUME Passage
    PROVE  /\ Words \in Seq((0..PassageSize) \X (0..PassageSize))
           /\ \A k \in 1..Len(Words) : IsWord(Words[k])
           /\ \A p \in StartsIn(0, PassageSize) : \E k \in 1..Len(Words) : Words[k][1] = p
           /\ Successive(Words)
<1>1. PassageSize \in Nat /\ PassageSize > 0 /\ 0 \in 0..PassageSize /\ PassageSize \in 0..PassageSize
    BY PassageIs
<1>2. /\ Words \in Seq((0..PassageSize) \X (0..PassageSize))
      /\ \A k \in 1..Len(Words) : Words[k][1] \in StartsIn(0, PassageSize) /\ Words[k][2] = EndIn(Words[k][1], PassageSize)
      /\ \A p \in StartsIn(0, PassageSize) : \E k \in 1..Len(Words) : Words[k][1] = p
      /\ Successive(Words)
    BY <1>1, WordsInAre DEF Words, PassageSize
<1>3. ASSUME NEW k \in 1..Len(Words) PROVE IsWord(Words[k])
    <2> DEFINE p == Words[k][1]
               q == Words[k][2]
    <2>1. p \in StartsIn(0, PassageSize) /\ q = EndIn(p, PassageSize)
        BY <1>2
    <2> HIDE DEF p, q
    <2>2. p \in 0..PassageSize - 1 /\ ~Space(p) /\ (p = 0 \/ Space(p - 1))
        BY <2>1 DEF StartsIn
    <2>3. /\ q \in p + 1..PassageSize /\ (q = PassageSize \/ Space(q))
          /\ \A x \in p + 1..q - 1 : ~Space(x)
        <3> DEFINE S == PassageSize
        <3>1. S \in Nat /\ p \in Nat /\ p < S
            BY <1>1, <2>2
        <3>2. q = EndIn(p, S)
            BY <2>1
        <3> HIDE DEF S
        <3>3. /\ q \in p + 1..S /\ (q = S \/ Space(q))
              /\ \A x \in p + 1..q - 1 : ~Space(x)
            BY <3>1, <3>2, EndInIs
        <3> QED BY <3>3 DEF S
    <2>4. ASSUME NEW x \in p..q - 1 PROVE ~Space(x)
        <3>1. x = p \/ x \in p + 1..q - 1
            BY <2>2, <2>3
        <3> QED BY <3>1, <2>2, <2>3
    <2> QED BY <2>2, <2>3, <2>4 DEF IsWord, p, q
<1> QED BY <1>2, <1>3

(* Between two words is whitespace.                                        *)
LEMMA WordsApart ==
    ASSUME Passage, NEW v, NEW w, IsWord(v), IsWord(w), v[1] < w[1]
    PROVE  v[2] < w[1]
<1>1. /\ v[1] \in Nat /\ v[2] \in Nat /\ w[1] \in Nat /\ w[1] # 0
      /\ Space(w[1] - 1) /\ \A x \in v[1]..v[2] - 1 : ~Space(x)
    BY PassageIs DEF IsWord
<1>2. ~(w[1] - 1 \in v[1]..v[2] - 1)
    BY <1>1
<1> QED BY <1>1, <1>2

(* The word a byte is in.                                                  *)
LEMMA WordAtIs ==
    ASSUME Passage, NEW p \in 0..PassageSize - 1, ~Space(p)
    PROVE  /\ WordAt(p) \in 1..Len(Words)
           /\ Words[WordAt(p)][1] <= p /\ p < Words[WordAt(p)][2]
           /\ \A k \in 1..Len(Words) : Words[k][1] <= p /\ p < Words[k][2] => k = WordAt(p)
<1> DEFINE T == {x \in 0..p : \A y \in x..p : ~Space(y)}
           s == Min(T)
           In(k) == Words[k][1] <= p /\ p < Words[k][2]
<1>1. p \in Nat /\ T \in SUBSET (0..p) /\ p \in T
    BY PassageIs
<1>2. s \in T /\ \A x \in T : s <= x
    <2> HIDE DEF T
    <2> QED BY <1>1, OffsetBounds
<1> HIDE DEF s
<1>3. s \in 0..p /\ \A y \in s..p : ~Space(y)
    BY <1>2
<1>4. s = 0 \/ Space(s - 1)
    <2> SUFFICES ASSUME s # 0, ~Space(s - 1) PROVE FALSE
        OBVIOUS
    <2>1. s - 1 \in 0..p /\ ~(s <= s - 1) /\ \A y \in s - 1..p : y = s - 1 \/ y \in s..p
        BY <1>1, <1>3
    <2>2. s - 1 \in T
        BY <2>1, <1>3
    <2> QED BY <2>1, <2>2, <1>2
<1> HIDE DEF T
<1>5. s \in StartsIn(0, PassageSize)
    BY <1>1, <1>3, <1>4, PassageIs DEF StartsIn
<1>6. PICK k \in 1..Len(Words) : Words[k][1] = s
    BY <1>5, WordsAre
<1>7. /\ Words \in Seq((0..PassageSize) \X (0..PassageSize)) /\ Len(Words) \in Nat
      /\ \A j \in 1..Len(Words) : IsWord(Words[j]) /\ Words[j][1] \in Nat /\ Words[j][2] \in Nat
    BY WordsAre, PassageIs DEF IsWord
<1>8. In(k)
    <2> DEFINE q == Words[k][2]
    <2>1. q \in s + 1..PassageSize /\ (q = PassageSize \/ Space(q))
        BY <1>6, <1>7 DEF IsWord
    <2> HIDE DEF q
    <2>2. ~(q <= p)
        <3> SUFFICES ASSUME q <= p PROVE FALSE
            OBVIOUS
        <3>1. q \in s..p /\ q # PassageSize
            BY <2>1, <1>1, <1>3, PassageIs
        <3> QED BY <3>1, <2>1, <1>3
    <2>3. s <= p /\ p < q
        BY <2>1, <2>2, <1>3, <1>1, PassageIs
    <2> QED BY <2>3, <1>6 DEF q
<1>9. ASSUME NEW i \in 1..Len(Words), NEW j \in 1..Len(Words), In(i), In(j) PROVE i = j
    <2> SUFFICES ASSUME i # j PROVE FALSE
        OBVIOUS
    <2>1. i < j \/ j < i
        OBVIOUS
    <2>2. Words[i][1] < Words[j][1] \/ Words[j][1] < Words[i][1]
        BY <2>1, WordsAre DEF Successive
    <2>3. Words[i][2] < Words[j][1] \/ Words[j][2] < Words[i][1]
        BY <2>2, <1>7, WordsApart
    <2>4. /\ Words[i][1] <= p /\ p < Words[i][2] /\ Words[j][1] <= p /\ p < Words[j][2]
          /\ Words[i][1] \in Nat /\ Words[i][2] \in Nat /\ Words[j][1] \in Nat /\ Words[j][2] \in Nat
        BY <1>7, <1>9
    <2> QED BY <2>3, <2>4, <1>1
<1>10. DOMAIN Words = 1..Len(Words)
    BY <1>7
<1>11. WordAt(p) = CHOOSE j \in 1..Len(Words) : In(j)
    BY <1>10 DEF WordAt
<1> HIDE DEF In
<1>12. WordAt(p) \in 1..Len(Words) /\ In(WordAt(p))
    BY <1>8, <1>11
<1>13. \A j \in 1..Len(Words) : In(j) => j = WordAt(p)
    BY <1>9, <1>12
<1> QED BY <1>12, <1>13 DEF In

(* A word of a chunk is what the chunk holds of a word of the text.        *)
Clipped(w, k, b, e) ==
    /\ k \in 1..Len(Words)
    /\ Words[k][1] <= w[1] /\ w[1] < w[2] /\ w[2] <= Words[k][2]
    /\ b <= w[1] /\ w[2] <= e
    /\ w[1] = Words[k][1] \/ (w[1] = b /\ Words[k][1] < b)
    /\ w[2] = Words[k][2] \/ (w[2] = e /\ e < Words[k][2])

LEMMA ClippedIs ==
    ASSUME Passage, NEW b \in 0..PassageSize, NEW e \in 0..PassageSize,
           NEW w \in (0..PassageSize) \X (0..PassageSize), w[1] \in StartsIn(b, e), w[2] = EndIn(w[1], e)
    PROVE  Clipped(w, WordAt(w[1]), b, e)
<1> DEFINE p == w[1]
           q == w[2]
           k == WordAt(p)
           v == Words[k]
<1>1. PassageSize \in Nat /\ b \in Nat /\ e \in Nat /\ e <= PassageSize
    BY PassageIs
<1>2. p \in b..e - 1 /\ ~Space(p) /\ (p = b \/ Space(p - 1))
    BY DEF StartsIn
<1>3. p \in Nat /\ p < e /\ p \in 0..PassageSize - 1
    BY <1>1, <1>2
<1>4. q \in p + 1..e /\ (q = e \/ Space(q)) /\ \A x \in p + 1..q - 1 : ~Space(x)
    BY <1>1, <1>3, EndInIs
<1>5. k \in 1..Len(Words) /\ v[1] <= p /\ p < v[2]
    BY <1>2, <1>3, WordAtIs
<1>6. IsWord(v)
    BY <1>5, WordsAre
<1> HIDE DEF p, q, v, k
<1>7. /\ v[1] \in Nat /\ v[2] \in Nat /\ v[2] <= PassageSize
      /\ \A x \in v[1]..v[2] - 1 : ~Space(x)
      /\ v[2] = PassageSize \/ Space(v[2])
    BY <1>1, <1>6 DEF IsWord
<1>8. p = v[1] \/ (p = b /\ v[1] < b)
    <2> SUFFICES ASSUME v[1] < p PROVE p = b
        BY <1>2, <1>3, <1>5, <1>7
    <2>1. p - 1 \in v[1]..v[2] - 1
        BY <1>3, <1>5, <1>7
    <2> QED BY <2>1, <1>2, <1>7
<1>9. q <= v[2] /\ (q = v[2] \/ (q = e /\ e < v[2]))
    <2>1. CASE q < v[2]
        <3>1. q \in v[1]..v[2] - 1
            BY <2>1, <1>3, <1>4, <1>5, <1>7
        <3>2. q = e
            BY <3>1, <1>4, <1>7
        <3> QED BY <3>2, <2>1, <1>1, <1>7
    <2>2. CASE q = v[2]
        BY <2>2, <1>7
    <2>3. CASE v[2] < q
        <3>1. v[2] # PassageSize /\ v[2] \in p + 1..q - 1
            BY <2>3, <1>1, <1>3, <1>4, <1>5, <1>7
        <3> QED BY <3>1, <1>4, <1>7
    <2> QED BY <2>1, <2>2, <2>3, <1>1, <1>4, <1>7, <1>3
<1>10. p < q /\ b <= p /\ q <= e
    BY <1>1, <1>2, <1>3, <1>4
<1> QED BY <1>5, <1>8, <1>9, <1>10 DEF Clipped, p, q, v, k

(* The words in sight are one after another in the text, from ahead on.    *)
Sighted(ws, b, e, ahead) ==
    /\ ws \in Seq((0..PassageSize) \X (0..PassageSize)) /\ ahead \in Nat
    /\ \A i \in 1..Len(ws) : WordAt(ws[i][1]) = ahead + i /\ Clipped(ws[i], ahead + i, b, e)
    /\ \A k \in 1..Len(Words) : b <= Words[k][1] /\ Words[k][1] < e => k - ahead \in 1..Len(ws)

LEMMA SightedWords ==
    ASSUME Passage, NEW b \in 0..PassageSize, NEW e \in 0..PassageSize
    PROVE  \E ahead : Sighted(WordsIn(b, e), b, e, ahead)
<1> DEFINE ws == WordsIn(b, e)
           N == Len(ws)
           K(i) == WordAt(ws[i][1])
           ahead == IF N = 0 THEN 0 ELSE K(1) - 1
<1>1. /\ ws \in Seq((0..PassageSize) \X (0..PassageSize))
      /\ \A i \in 1..N : ws[i][1] \in StartsIn(b, e) /\ ws[i][2] = EndIn(ws[i][1], e)
      /\ \A p \in StartsIn(b, e) : \E i \in 1..N : ws[i][1] = p
      /\ \A i, j \in 1..N : i < j => ws[i][1] < ws[j][1]
    BY WordsInAre DEF Successive
<1>2. PassageSize \in Nat /\ b \in Nat /\ e \in Nat /\ e <= PassageSize
    BY PassageIs
<1> HIDE DEF ws
<1>3. N \in Nat
    BY <1>1
<1> HIDE DEF N
<1>4. ASSUME NEW i \in 1..N PROVE Clipped(ws[i], K(i), b, e) /\ K(i) \in 1..Len(Words) /\ ws[i] \in (0..PassageSize) \X (0..PassageSize)
    <2>1. ws[i] \in (0..PassageSize) \X (0..PassageSize)
        BY <1>1 DEF N
    <2>2. Clipped(ws[i], K(i), b, e)
        BY <2>1, <1>1, ClippedIs
    <2> QED BY <2>1, <2>2 DEF Clipped
<1>5. /\ Words \in Seq((0..PassageSize) \X (0..PassageSize)) /\ Len(Words) \in Nat
      /\ \A k \in 1..Len(Words) : IsWord(Words[k]) /\ Words[k][1] \in Nat /\ Words[k][2] \in Nat
    BY WordsAre, <1>2 DEF IsWord
<1>6. ASSUME NEW i \in 1..Len(Words), NEW j \in 1..Len(Words), i < j PROVE Words[i][2] < Words[j][1]
    <2>1. Words[i][1] < Words[j][1]
        BY <1>6, WordsAre DEF Successive
    <2> QED BY <2>1, <1>5, WordsApart
<1>7. ASSUME NEW k \in 1..Len(Words), b <= Words[k][1], Words[k][1] < e
      PROVE  \E i \in 1..N : ws[i][1] = Words[k][1] /\ K(i) = k
    <2> DEFINE p == Words[k][1]
               q == Words[k][2]
    <2>1. IsWord(Words[k]) /\ p \in Nat /\ q \in Nat
        BY <1>5
    <2>2. /\ p \in 0..PassageSize - 1 /\ q \in p + 1..PassageSize
          /\ \A x \in p..q - 1 : ~Space(x)
          /\ p = 0 \/ Space(p - 1)
        BY <2>1 DEF IsWord
    <2>3. p <= p /\ p < q /\ p \in p..q - 1 /\ p \in b..e - 1 /\ (p = b \/ p # 0)
        BY <2>1, <2>2, <1>2, <1>7
    <2>4. p \in StartsIn(b, e)
        BY <2>2, <2>3 DEF StartsIn
    <2>5. PICK i \in 1..N : ws[i][1] = p
        BY <2>4, <1>1
    <2>6. k = WordAt(p)
        BY <2>2, <2>3, WordAtIs
    <2> QED BY <2>5, <2>6
<1>8. ASSUME NEW i \in 1..N, i + 1 \in 1..N PROVE K(i + 1) = K(i) + 1
    <2> DEFINE k == K(i)
               l == K(i + 1)
               v == ws[i]
               w == ws[i + 1]
    <2>1. Clipped(v, k, b, e) /\ Clipped(w, l, b, e) /\ k \in 1..Len(Words) /\ l \in 1..Len(Words)
        BY <1>4, <1>8
    <2>2. v[1] < w[1] /\ v[1] \in Nat /\ w[1] \in Nat /\ v[2] \in Nat /\ w[2] \in Nat
        <3>1. i < i + 1
            OBVIOUS
        <3>2. v[1] < w[1]
            BY <3>1, <1>1, <1>8
        <3>3. v \in (0..PassageSize) \X (0..PassageSize) /\ w \in (0..PassageSize) \X (0..PassageSize)
            BY <1>4, <1>8
        <3> HIDE DEF v, w
        <3> QED BY <3>2, <3>3, <1>2
    <2> HIDE DEF k, l, v, w
    <2>3. /\ Words[k][1] <= v[1] /\ v[1] < v[2] /\ v[2] <= Words[k][2] /\ b <= v[1] /\ v[2] <= e
          /\ v[1] = Words[k][1] \/ (v[1] = b /\ Words[k][1] < b)
          /\ Words[l][1] <= w[1] /\ w[1] < w[2] /\ w[2] <= Words[l][2] /\ w[2] <= e
          /\ w[1] = Words[l][1] \/ (w[1] = b /\ Words[l][1] < b)
        BY <2>1 DEF Clipped
    <2>4. w[1] = Words[l][1]
        BY <2>2, <2>3, <1>2
    <2>5. Words[k][1] \in Nat /\ Words[k][2] \in Nat /\ Words[l][1] \in Nat /\ Words[l][2] \in Nat
        BY <2>1, <1>5
    <2>6. k # l
        BY <2>2, <2>3, <2>4, <2>5
    <2>7. ~(l < k)
        <3> SUFFICES ASSUME l < k PROVE FALSE
            OBVIOUS
        <3>1. Words[l][2] < Words[k][1]
            BY <2>1, <1>6
        <3> QED BY <3>1, <2>2, <2>3, <2>5
    <2>8. ~(k + 1 < l)
        <3> SUFFICES ASSUME k + 1 < l PROVE FALSE
            OBVIOUS
        <3> DEFINE m == k + 1
        <3>1. m \in 1..Len(Words) /\ k < m /\ m < l
            <4> DEFINE L == Len(Words)
            <4>1. k \in 1..L /\ l \in 1..L /\ L \in Nat
                BY <2>1, <1>5
            <4> HIDE DEF k, l, L
            <4>2. m \in 1..L /\ k < m /\ m < l
                BY <4>1
            <4> QED BY <4>2 DEF L
        <3> HIDE DEF m
        <3>2. Words[k][2] < Words[m][1] /\ Words[m][2] < Words[l][1]
            BY <3>1, <2>1, <1>6
        <3>3. Words[m][1] \in Nat /\ Words[m][2] \in Nat /\ Words[m][1] < Words[m][2]
            <4>1. Words[m][2] \in Words[m][1] + 1..PassageSize
                BY <3>1, <1>5 DEF IsWord
            <4> QED BY <4>1, <3>1, <1>5
        <3> DEFINE x == Words[m][1]
        <3>4. x \in Nat /\ v[1] < x /\ x < w[1] /\ b <= x /\ x < e
            BY <3>2, <3>3, <2>2, <2>3, <2>5, <2>4, <1>2
        <3>5. PICK j \in 1..N : ws[j][1] = x
            BY <3>1, <3>4, <1>7
        <3> HIDE DEF x
        <3>6. j = i \/ j = i + 1 \/ j < i \/ i + 1 < j
            BY <1>8
        <3>7. \/ ws[j][1] = v[1] \/ ws[j][1] = w[1] \/ ws[j][1] < v[1] \/ w[1] < ws[j][1]
            BY <3>6, <1>1, <1>8 DEF v, w
        <3> QED BY <3>4, <3>5, <3>7, <2>2
    <2>9. k \in Int /\ l \in Int
        BY <2>1, <1>5
    <2>10. l = k + 1
        BY <2>6, <2>7, <2>8, <2>9
    <2> QED BY <2>10 DEF k, l
<1>9. ahead \in Nat /\ \A i \in 1..N : K(i) = ahead + i
    <2>1. CASE N = 0
        BY <2>1
    <2>2. CASE N # 0
        <3> DEFINE T == {i \in 1..N : K(i) = ahead + i}
        <3>1. 1 \in 1..N /\ 1 \in Int /\ N \in Int /\ K(1) \in Nat /\ K(1) > 0
            <4>1. 1 \in 1..N
                BY <2>2, <1>3
            <4>2. K(1) \in 1..Len(Words)
                BY <4>1, <1>4
            <4> HIDE DEF K
            <4> QED BY <4>1, <4>2, <1>3
        <3>2. ahead = K(1) - 1
            BY <2>2
        <3> HIDE DEF ahead
        <3>3. ahead \in Nat /\ 1 \in T
            <4> HIDE DEF K
            <4> QED BY <3>1, <3>2
        <3>4. ASSUME NEW i \in 1..N - 1, i \in T PROVE i + 1 \in T
            <4>1. i \in 1..N /\ i + 1 \in 1..N
                BY <1>3
            <4>2. K(i + 1) = K(i) + 1
                BY <4>1, <1>8
            <4> HIDE DEF K
            <4>3. K(i) = ahead + i
                BY <3>4
            <4>4. K(i + 1) = ahead + (i + 1)
                BY <4>2, <4>3, <3>3, <4>1
            <4> QED BY <4>1, <4>4
        <3>5. 1..N \subseteq T
            <4> HIDE DEF T
            <4> QED BY <3>1, <3>3, <3>4, IntervalInduction
        <3> QED BY <3>3, <3>5
    <2> QED BY <2>1, <2>2
<1>10. ASSUME NEW k \in 1..Len(Words), b <= Words[k][1], Words[k][1] < e PROVE k - ahead \in 1..N
    <2>1. PICK i \in 1..N : K(i) = k
        BY <1>7, <1>10
    <2>2. k = ahead + i /\ ahead \in Nat
        BY <2>1, <1>9
    <2> HIDE DEF K, ahead
    <2> QED BY <2>2, <1>3
<1>11. \A i \in 1..N : WordAt(ws[i][1]) = ahead + i /\ Clipped(ws[i], ahead + i, b, e)
    <2> HIDE DEF ahead
    <2> QED BY <1>4, <1>9
<1>12. Sighted(ws, b, e, ahead)
    <2> HIDE DEF ahead
    <2> QED BY <1>1, <1>9, <1>10, <1>11 DEF Sighted, N
<1> QED BY <1>12 DEF ws

(* The entities the model labels: runs of words, apart from one another.   *)
Entities ==
    /\ \A e \in entities : e.type \in EntityTypes /\ e.from \in 1..Len(Words) /\ e.to \in e.from..Len(Words)
    /\ \A e, f \in entities : e = f \/ e.to < f.from \/ f.to < e.from

Has(e, k) == e.from <= k /\ k <= e.to

LEMMA LabelledEntityIs ==
    ASSUME Passage, Entities, NEW e \in entities
    PROVE  /\ e.type \in EntityTypes /\ e.from \in Nat /\ e.to \in Nat
           /\ 1 <= e.from /\ e.from <= e.to /\ e.to <= Len(Words) /\ Len(Words) \in Nat
           /\ \A f \in entities, k \in Int : Has(e, k) /\ Has(f, k) => e = f
<1>1. Len(Words) \in Nat
    BY WordsAre
<1>2. e.type \in EntityTypes /\ e.from \in 1..Len(Words) /\ e.to \in e.from..Len(Words)
    BY DEF Entities
<1>3. \A f \in entities : f.from \in 1..Len(Words) /\ f.to \in f.from..Len(Words)
    BY DEF Entities
<1>4. \A f \in entities : e = f \/ e.to < f.from \/ f.to < e.from
    BY DEF Entities
<1>5. ASSUME NEW f \in entities, NEW k \in Int, Has(e, k), Has(f, k) PROVE e = f
    <2>1. e.from <= k /\ k <= e.to /\ f.from <= k /\ k <= f.to
        BY <1>5 DEF Has
    <2>2. e.from \in Int /\ e.to \in Int /\ f.from \in Int /\ f.to \in Int
        BY <1>1, <1>2, <1>3
    <2> QED BY <2>1, <2>2, <1>4
<1> QED BY <1>1, <1>2, <1>5

LEMMA NerLabelIs ==
    ASSUME Passage, Entities, NEW w, NEW k \in Int, WordAt(w[1]) = k
    PROVE  /\ (\A e \in entities : ~Has(e, k)) => LabelOf(w).tag = "O"
           /\ \A e \in entities : Has(e, k) =>
                /\ LabelOf(w).tag = IF k = e.from THEN "B" ELSE "I"
                /\ LabelOf(w).type = e.type
<1> DEFINE here == {e \in entities : e.from <= k /\ k <= e.to}
           f == CHOOSE x \in here : TRUE
<1>1. LabelOf(w) = IF here = {} THEN Label0
                   ELSE [tag |-> IF k = f.from THEN "B" ELSE "I", type |-> f.type]
    BY DEF LabelOf
<1>2. \A e \in entities : Has(e, k) <=> e \in here
    BY DEF Has
<1>3. ASSUME NEW e \in entities, Has(e, k) PROVE here # {} /\ e = f
    <2>1. f \in here /\ here # {}
        BY <1>2, <1>3
    <2>2. f \in entities /\ Has(f, k)
        BY <2>1 DEF Has
    <2> QED BY <2>1, <2>2, <1>3, LabelledEntityIs
<1>4. (\A e \in entities : ~Has(e, k)) => here = {}
    BY <1>2
<1> HIDE DEF here, f
<1> QED BY <1>1, <1>3, <1>4 DEF Label0

-----------------------------------------------------------------------------
NerMarks == [type : EntityTypes, start : 0..PassageSize, end : 0..PassageSize]
NerReadings == [out : Seq(NerMarks), open : Seq(NerMarks)]

Reading(f, ws) ==
    /\ \A n \in 0..Len(ws) : f[n] \in NerReadings
    /\ f[0] = [out |-> <<>>, open |-> <<>>]
    /\ \A n \in 1..Len(ws) : f[n] = Tagged(f[n - 1], LabelOf(ws[n]), ws[n])
    /\ Decode(ws) = f[Len(ws)].out \o f[Len(ws)].open

LEMMA LabelTypes ==
    ASSUME Passage, Entities, NEW w, WordAt(w[1]) \in Int
    PROVE  LabelOf(w).type \in EntityTypes
<1>1. CASE \E e \in entities : Has(e, WordAt(w[1]))
    BY <1>1, NerLabelIs, LabelledEntityIs
<1>2. CASE \A e \in entities : ~Has(e, WordAt(w[1]))
    <2>1. LabelOf(w) = Label0
        BY <1>2 DEF LabelOf, Has
    <2> QED BY <2>1 DEF Label0, EntityTypes
<1> QED BY <1>1, <1>2

(* A step of the decoder, whatever its words.                              *)
LEMMA TaggedIs ==
    ASSUME NEW acc \in NerReadings, NEW l, l.type \in EntityTypes, NEW w \in (0..PassageSize) \X (0..PassageSize)
    PROVE  /\ Tagged(acc, l, w) \in NerReadings
           /\ Continues(l, acc.open) =>
                /\ Tagged(acc, l, w).out = acc.out
                /\ Len(Tagged(acc, l, w).open) = 1
                /\ Tagged(acc, l, w).open[1] =
                     [type |-> acc.open[1].type, start |-> acc.open[1].start, end |-> w[2]]
           /\ ~Continues(l, acc.open) =>
                /\ Tagged(acc, l, w).out = acc.out \o acc.open
                /\ Tagged(acc, l, w).open =
                     IF l.tag = "O" THEN <<>> ELSE <<[type |-> l.type, start |-> w[1], end |-> w[2]]>>
<1> DEFINE t == Tagged(acc, l, w)
<1>1. acc.out \in Seq(NerMarks) /\ acc.open \in Seq(NerMarks) /\ w[1] \in 0..PassageSize /\ w[2] \in 0..PassageSize
    BY DEF NerReadings
<1>2. \A m \in NerMarks : <<m>> \in Seq(NerMarks) /\ Len(<<m>>) = 1 /\ <<m>>[1] = m
    OBVIOUS
<1>3. \A s, u \in Seq(NerMarks) : [out |-> s, open |-> u] \in NerReadings
    BY DEF NerReadings
<1>8. \A s, u : [out |-> s, open |-> u].out = s /\ [out |-> s, open |-> u].open = u
    OBVIOUS
<1>4. <<>> \in Seq(NerMarks)
    OBVIOUS
<1>5. \A s, u \in Seq(NerMarks) : s \o u \in Seq(NerMarks)
    OBVIOUS
<1>6. CASE Continues(l, acc.open)
    <2> DEFINE m == acc.open[1]
               n == [m EXCEPT !.end = w[2]]
    <2>1. m \in NerMarks
        BY <1>1, <1>6 DEF Continues
    <2>2. n = [type |-> m.type, start |-> m.start, end |-> w[2]]
        BY <2>1 DEF NerMarks
    <2>3. n \in NerMarks
        BY <2>1, <2>2, <1>1 DEF NerMarks
    <2>4. t = [out |-> acc.out, open |-> <<n>>]
        BY <1>6 DEF Tagged, Extended
    <2> HIDE DEF n, m
    <2> DEFINE u == <<n>>
    <2>6. u \in Seq(NerMarks) /\ Len(u) = 1 /\ u[1] = n
        BY <2>3, <1>2
    <2> HIDE DEF u
    <2>7. t \in NerReadings
        BY <2>4, <2>6, <1>1, <1>3 DEF u
    <2>8. t.out = acc.out /\ t.open = u
        BY <2>4, <1>8 DEF u
    <2>5. t \in NerReadings /\ t.out = acc.out /\ Len(t.open) = 1 /\ t.open[1] = n
        BY <2>6, <2>7, <2>8
    <2> HIDE DEF t
    <2> QED BY <2>5, <2>2, <1>6 DEF m, t
<1>7. CASE ~Continues(l, acc.open)
    <2> DEFINE n == [type |-> l.type, start |-> w[1], end |-> w[2]]
               u == IF l.tag = "O" THEN <<>> ELSE <<n>>
    <2>1. n \in NerMarks
        BY <1>1 DEF NerMarks
    <2>2. t = [out |-> acc.out \o acc.open, open |-> u]
        BY <1>7 DEF Tagged, Opened
    <2> HIDE DEF n
    <2>3. u \in Seq(NerMarks)
        BY <2>1, <1>2, <1>4
    <2> HIDE DEF u
    <2> DEFINE v == acc.out \o acc.open
    <2>5. v \in Seq(NerMarks)
        BY <1>1, <1>5
    <2> HIDE DEF v
    <2>6. t \in NerReadings
        BY <2>2, <2>3, <2>5, <1>3 DEF v
    <2>8. t = [out |-> v, open |-> u]
        BY <2>2 DEF v
    <2> HIDE DEF t
    <2>7. t.out = v /\ t.open = u
        BY <2>8, <1>8
    <2>4. t \in NerReadings /\ t.out = acc.out \o acc.open /\ t.open = u
        BY <2>6, <2>7 DEF v
    <2> QED BY <2>4, <1>7 DEF u, v, n, t
<1> QED BY <1>6, <1>7

LEMMA ReadingExists ==
    ASSUME Passage, Entities, NEW ws \in Seq((0..PassageSize) \X (0..PassageSize)),
           \A i \in 1..Len(ws) : WordAt(ws[i][1]) \in Int
    PROVE  \E f : Reading(f, ws)
<1> DEFINE N    == Len(ws)
           base == [out |-> <<>>, open |-> <<>>]
           Step(n, v) == Tagged(v, LabelOf(ws[n]), ws[n])
           step == [p \in (0 + 1..N) \X NerReadings |-> Step(p[1], p[2])]
           F(f) == [n \in 0..N |-> IF n = 0 THEN base ELSE Step(n, f[n - 1])]
           f    == CHOOSE g : g = F(g)
<1>0. Decode(ws) = f[N].out \o f[N].open
    BY DEF Decode
<1>1. N \in Nat /\ N \in Int /\ 0 \in Int /\ 0 <= N
    OBVIOUS
<1>2. base \in NerReadings
    <2>1. <<>> \in Seq(NerMarks)
        OBVIOUS
    <2> QED BY <2>1 DEF NerReadings
<1>3. ASSUME NEW n \in 1..N, NEW v \in NerReadings PROVE Step(n, v) \in NerReadings
    <2>1. ws[n] \in (0..PassageSize) \X (0..PassageSize)
        BY <1>1
    <2>2. LabelOf(ws[n]).type \in EntityTypes
        BY LabelTypes
    <2> QED BY <2>1, <2>2, TaggedIs
<1> HIDE DEF base, Step
<1>4. step \in [(0 + 1..N) \X NerReadings -> NerReadings]
    <2> HIDE DEF N
    <2>1. 0 + 1..N = 1..N
        BY <1>1
    <2> QED BY <2>1, <1>3
<1>5. PICK g \in [0..N -> NerReadings] : Recursion(g, 0, N, base, step)
    <2> HIDE DEF N, step, F, f
    <2> QED BY <1>1, <1>2, <1>4, RecursionExists
<1>6. g[0] = base
    BY <1>5 DEF Recursion
<1>7. ASSUME NEW n \in 1..N PROVE g[n] = Step(n, g[n - 1])
    <2>1. n \in 0 + 1..N /\ n - 1 \in 0..N
        BY <1>1
    <2>2. <<n, g[n - 1]>> \in (0 + 1..N) \X NerReadings /\ g[n] = step[<<n, g[n - 1]>>]
        <3> HIDE DEF step, N
        <3> QED BY <2>1, <1>5 DEF Recursion
    <2> HIDE DEF N
    <2>3. step[<<n, g[n - 1]>>] = Step(n, g[n - 1])
        BY <2>2
    <2> HIDE DEF step
    <2> QED BY <2>2, <2>3
<1>8. g = F(g)
    <2> HIDE DEF step, N
    <2>1. \A n \in 0..N : g[n] = F(g)[n]
        <3> SUFFICES ASSUME NEW n \in 0..N PROVE g[n] = F(g)[n]
            OBVIOUS
        <3>1. CASE n = 0
            BY <1>6, <3>1
        <3>2. CASE n # 0
            <4>1. n \in 1..N
                BY <1>1, <3>2
            <4> QED BY <1>7, <3>2, <4>1
        <3> HIDE DEF F
        <3> QED BY <3>1, <3>2
    <2> QED BY <1>5, <2>1
<1>9. f = F(f)
    <2> HIDE DEF F
    <2> QED BY <1>8
<1> HIDE DEF f
<1>10. f[0] = base
    <2> HIDE DEF N
    <2> QED BY <1>1, <1>9
<1>11. ASSUME NEW n \in 1..N PROVE f[n] = Step(n, f[n - 1])
    <2>1. n \in 0..N /\ n # 0
        BY <1>1
    <2> HIDE DEF N
    <2> QED BY <1>9, <2>1
<1>12. \A n \in 0..N : f[n] \in NerReadings
    <2> DEFINE T == {n \in 0..N : f[n] \in NerReadings}
    <2>1. 0 \in T
        <3> HIDE DEF N
        <3> QED BY <1>1, <1>2, <1>10
    <2>2. ASSUME NEW n \in 0..N - 1, n \in T PROVE n + 1 \in T
        <3>1. n + 1 \in 1..N /\ n + 1 \in 0..N /\ (n + 1) - 1 = n /\ f[n] \in NerReadings
            BY <2>2, <1>1
        <3> HIDE DEF N
        <3>2. f[n + 1] = Step(n + 1, f[n])
            BY <3>1, <1>11
        <3> QED BY <3>1, <3>2, <1>3
    <2>3. 0..N \subseteq T
        <3> HIDE DEF T, N
        <3> QED BY <1>1, <2>1, <2>2, IntervalInduction
    <2> QED BY <2>3
<1>13. Reading(f, ws)
    BY <1>0, <1>10, <1>11, <1>12 DEF Reading, Step, base
<1> QED BY <1>13

(* An entity in the chunk from the word Since on, as its words span it.    *)
Since(e, ahead) == IF e.from > ahead THEN e.from - ahead ELSE 1
WordSpan(ws, e, i, j) == [type |-> e.type, start |-> ws[i][1], end |-> ws[j][2]]
SpanOf(ws, e, ahead) == WordSpan(ws, e, Since(e, ahead), e.to - ahead)
Ended(ahead, n) == {e \in entities : ahead < e.to /\ e.to < ahead + n}

(* The decoder behind n words: the entities that ended, and the open one.  *)
ClosedAhead(s, ws, ahead, n) ==
    /\ \A m \in ToSet(s) : \E e \in Ended(ahead, n) : m = SpanOf(ws, e, ahead)
    /\ \A e \in Ended(ahead, n) : SpanOf(ws, e, ahead) \in ToSet(s)
OpenIs(o, ws, ahead, n) ==
    /\ (n = 0 \/ \A e \in entities : ~Has(e, ahead + n)) => o = <<>>
    /\ \A e \in entities : n > 0 /\ Has(e, ahead + n) =>
         Len(o) = 1 /\ o[1] = WordSpan(ws, e, Since(e, ahead), n)
Decoding(acc, ws, ahead, n) ==
    ClosedAhead(acc.out, ws, ahead, n) /\ OpenIs(acc.open, ws, ahead, n)

LEMMA EndedNext ==
    ASSUME Passage, Entities, NEW ahead \in Nat, NEW n \in Nat,
           n > 0 => \A e \in entities : ~(Has(e, ahead + n) /\ Has(e, ahead + n + 1))
    PROVE  /\ n = 0 => Ended(ahead, n + 1) = {}
           /\ n > 0 => \A e \in entities :
                e \in Ended(ahead, n + 1) <=> e \in Ended(ahead, n) \/ Has(e, ahead + n)
<1> SUFFICES ASSUME NEW e \in entities
             PROVE  /\ n = 0 => e \notin Ended(ahead, n + 1)
                    /\ n > 0 => (e \in Ended(ahead, n + 1) <=> e \in Ended(ahead, n) \/ Has(e, ahead + n))
    BY DEF Ended
<1>1. e.from \in Nat /\ e.to \in Nat /\ e.from <= e.to
    BY LabelledEntityIs
<1>2. n > 0 => ~(e.from <= ahead + n /\ e.to >= ahead + n + 1)
    BY <1>1 DEF Has
<1>3. /\ n = 0 => ~(ahead < e.to /\ e.to < ahead + (n + 1))
      /\ n > 0 => (ahead < e.to /\ e.to < ahead + (n + 1)
                     <=> (ahead < e.to /\ e.to < ahead + n) \/ (e.from <= ahead + n /\ ahead + n <= e.to))
    BY <1>1, <1>2
<1> QED BY <1>3 DEF Ended, Has

LEMMA ClosedNext ==
    ASSUME Passage, Entities, NEW ahead \in Nat, NEW n \in Nat, NEW ws, NEW acc \in NerReadings,
           Decoding(acc, ws, ahead, n),
           n > 0 => \A e \in entities : ~(Has(e, ahead + n) /\ Has(e, ahead + n + 1))
    PROVE  ClosedAhead(acc.out \o acc.open, ws, ahead, n + 1)
<1> DEFINE s == acc.out
           o == acc.open
           u == s \o o
           Sp(e) == SpanOf(ws, e, ahead)
           E0 == Ended(ahead, n)
           E1 == Ended(ahead, n + 1)
<1>1. s \in Seq(NerMarks) /\ o \in Seq(NerMarks)
    BY DEF NerReadings
<1>2. ToSet(u) = ToSet(s) \cup ToSet(o)
    BY <1>1, ToSetConcat
<1>3. /\ \A m \in ToSet(s) : \E e \in E0 : m = Sp(e)
      /\ \A e \in E0 : Sp(e) \in ToSet(s)
      /\ OpenIs(o, ws, ahead, n)
    BY DEF Decoding, ClosedAhead
<1>4. /\ n = 0 => E1 = {}
      /\ n > 0 => \A e \in entities : e \in E1 <=> e \in E0 \/ Has(e, ahead + n)
    BY EndedNext
<1>5. E1 \subseteq entities /\ E0 \subseteq entities /\ (n = 0 => E0 = {})
    <2>1. \A e \in entities : e.to \in Nat
        BY LabelledEntityIs
    <2>2. n = 0 => \A e \in entities : ~(ahead < e.to /\ e.to < ahead + n)
        BY <2>1
    <2> QED BY <2>2 DEF Ended
<1>6. (\A m \in ToSet(u) : \E e \in E1 : m = Sp(e)) /\ (\A e \in E1 : Sp(e) \in ToSet(u))
    <2>1. CASE n = 0 \/ \A e \in entities : ~Has(e, ahead + n)
        <3>1. o = <<>>
            BY <2>1, <1>3 DEF OpenIs
        <3>2. ToSet(o) = {}
            BY <3>1 DEF ToSet
        <3>3. \A e \in entities : e \in E1 <=> e \in E0
            BY <2>1, <1>4, <1>5
        <3> HIDE DEF u, s, o, Sp, E0, E1
        <3> QED BY <3>2, <3>3, <1>2, <1>3, <1>5
    <2>2. CASE n > 0 /\ \E e \in entities : Has(e, ahead + n)
        <3>1. PICK f \in entities : Has(f, ahead + n)
            BY <2>2
        <3>2. Len(o) = 1 /\ o[1] = WordSpan(ws, f, Since(f, ahead), n)
            BY <2>2, <3>1, <1>3 DEF OpenIs
        <3>3. ToSet(o) = {o[1]}
            <4>1. 1..Len(o) = {1} /\ DOMAIN o = 1..Len(o)
                BY <3>2, <1>1
            <4> QED BY <4>1 DEF ToSet
        <3>4. f.from \in Nat /\ f.to \in Nat /\ f.from <= f.to
            BY LabelledEntityIs
        <3>5. f.to - ahead = n
            <4>1. f.from <= ahead + n /\ ahead + n <= f.to
                BY <3>1 DEF Has
            <4>2. ~(f.from <= ahead + n + 1 /\ ahead + n + 1 <= f.to)
                BY <2>2, <3>1 DEF Has
            <4> QED BY <4>1, <4>2, <3>4
        <3>6. o[1] = Sp(f)
            BY <3>2, <3>5 DEF SpanOf
        <3>7. \A e \in entities : Has(e, ahead + n) => e = f
            BY <3>1, LabelledEntityIs
        <3>8. \A e \in entities : e \in E1 <=> e \in E0 \/ e = f
            BY <2>2, <3>1, <3>7, <1>4
        <3> HIDE DEF u, s, o, Sp, E0, E1
        <3> QED BY <3>3, <3>6, <3>8, <1>2, <1>3, <1>5
    <2> QED BY <2>1, <2>2
<1> QED BY <1>6 DEF ClosedAhead

LEMMA DecodingStep ==
    ASSUME Passage, Entities, NEW b, NEW e0, NEW ahead, NEW ws, Sighted(ws, b, e0, ahead),
           NEW n \in Nat, n + 1 <= Len(ws), NEW acc \in NerReadings, Decoding(acc, ws, ahead, n)
    PROVE  Decoding(Tagged(acc, LabelOf(ws[n + 1]), ws[n + 1]), ws, ahead, n + 1)
<1> DEFINE w == ws[n + 1]
           l == LabelOf(w)
           t == Tagged(acc, l, w)
           k == ahead + n + 1
           here(e) == e \in entities /\ Has(e, k)
<1>1. ahead \in Nat /\ ws \in Seq((0..PassageSize) \X (0..PassageSize)) /\ n + 1 \in 1..Len(ws)
    BY DEF Sighted
<1>2. w \in (0..PassageSize) \X (0..PassageSize) /\ WordAt(w[1]) = k /\ k \in Int /\ k = ahead + (n + 1)
    BY <1>1 DEF Sighted
<1> HIDE DEF k
<1>3. l.type \in EntityTypes
    BY <1>2, LabelTypes
<1>4. /\ (\A e \in entities : ~Has(e, k)) => l.tag = "O"
      /\ \A e \in entities : Has(e, k) =>
           l.tag = (IF k = e.from THEN "B" ELSE "I") /\ l.type = e.type
    BY <1>2, NerLabelIs
<1>5. /\ Continues(l, acc.open) =>
                /\ t.out = acc.out
                /\ Len(t.open) = 1
                /\ t.open[1] = [type |-> acc.open[1].type, start |-> acc.open[1].start, end |-> w[2]]
      /\ ~Continues(l, acc.open) =>
                /\ t.out = acc.out \o acc.open
                /\ t.open = IF l.tag = "O" THEN <<>> ELSE <<[type |-> l.type, start |-> w[1], end |-> w[2]]>>
    BY <1>2, <1>3, TaggedIs
<1> HIDE DEF w, l, t
<1>6. /\ ClosedAhead(acc.out, ws, ahead, n) /\ OpenIs(acc.open, ws, ahead, n)
    BY DEF Decoding
<1>7. \A e \in entities : e.from \in Nat /\ e.to \in Nat /\ e.from <= e.to
    BY LabelledEntityIs
<1>8. ASSUME n > 0, NEW e \in entities, Has(e, k), k # e.from PROVE Has(e, ahead + n)
    <2>1. e.from <= k /\ k <= e.to
        BY <1>8 DEF Has
    <2>3. e.from \in Nat /\ e.to \in Nat /\ ahead \in Nat /\ k = ahead + (n + 1)
        BY <1>1, <1>2, <1>7
    <2>2. e.from <= ahead + n /\ ahead + n <= e.to
        BY <2>1, <2>3, <1>8
    <2> QED BY <2>2 DEF Has
<1>9. CASE Continues(l, acc.open)
    <2>1. l.tag = "I" /\ acc.open # <<>>
        BY <1>9 DEF Continues
    <2>2. PICK e \in entities : Has(e, k)
        BY <2>1, <1>4
    <2>3. k # e.from
        BY <2>1, <2>2, <1>4
    <2>4. n > 0 /\ Has(e, ahead + n)
        BY <2>1, <2>2, <2>3, <1>6, <1>8 DEF OpenIs
    <2>5. Len(acc.open) = 1 /\ acc.open[1] = WordSpan(ws, e, Since(e, ahead), n)
        BY <2>4, <1>6 DEF OpenIs
    <2>6. acc.open[1].type = e.type /\ acc.open[1].start = ws[Since(e, ahead)][1]
        BY <2>5 DEF WordSpan
    <2>7. t.open[1] = WordSpan(ws, e, Since(e, ahead), n + 1) /\ Len(t.open) = 1 /\ t.out = acc.out
        BY <2>6, <1>5, <1>9 DEF WordSpan, w
    <2>8. \A f \in entities : Has(f, ahead + (n + 1)) => f = e
        BY <2>2, <1>2, LabelledEntityIs
    <2>9. n + 1 # 0 /\ Has(e, ahead + (n + 1))
        BY <2>2, <1>2
    <2>10. OpenIs(t.open, ws, ahead, n + 1)
        BY <2>7, <2>8, <2>9 DEF OpenIs
    <2>11. \A f \in entities : f \in Ended(ahead, n + 1) <=> f \in Ended(ahead, n)
        <3> SUFFICES ASSUME NEW f \in entities PROVE f \in Ended(ahead, n + 1) <=> f \in Ended(ahead, n)
            OBVIOUS
        <3>3. f.to \in Nat /\ f.from \in Nat /\ f.from <= f.to
            BY <1>7
        <3>4. f \in Ended(ahead, n + 1) <=> ahead < f.to /\ f.to < ahead + (n + 1)
            BY DEF Ended
        <3>5. f \in Ended(ahead, n) <=> ahead < f.to /\ f.to < ahead + n
            BY DEF Ended
        <3>6. \A x \in Nat : x = ahead + n \/ (ahead < x /\ x < ahead + (n + 1) <=> ahead < x /\ x < ahead + n)
            BY <1>1
        <3> SUFFICES ASSUME f.to = ahead + n PROVE FALSE
            BY <3>3, <3>4, <3>5, <3>6
        <3>1. Has(f, ahead + n)
            BY <3>3 DEF Has
        <3>2. f = e
            BY <3>1, <2>4, <1>1, LabelledEntityIs
        <3> QED BY <3>2, <2>9, <1>1, <1>7 DEF Has
    <2>12. Ended(ahead, n + 1) = Ended(ahead, n)
        BY <2>11 DEF Ended
    <2>13. ClosedAhead(t.out, ws, ahead, n + 1)
        BY <2>7, <2>12, <1>6 DEF ClosedAhead
    <2> QED BY <2>10, <2>13 DEF Decoding, t, l, w
<1>10. CASE ~Continues(l, acc.open)
    <2>1. ASSUME n > 0, NEW e \in entities, Has(e, ahead + n), Has(e, k) PROVE FALSE
        <3>1. e.from <= ahead + n
            BY <2>1 DEF Has
        <3>2. k # e.from
            BY <3>1, <1>1, <1>2, <1>7
        <3>3. l.tag = "I" /\ l.type = e.type
            BY <3>2, <2>1, <1>4
        <3>4. Len(acc.open) = 1 /\ acc.open[1] = WordSpan(ws, e, Since(e, ahead), n)
            BY <2>1, <1>6 DEF OpenIs
        <3>5. acc.open # <<>> /\ acc.open[1].type = e.type
            BY <3>4 DEF WordSpan
        <3> QED BY <3>3, <3>5, <1>10 DEF Continues
    <2>2. ClosedAhead(acc.out \o acc.open, ws, ahead, n + 1)
        BY <2>1, <1>1, ClosedNext DEF k
    <2>3. (\A e \in entities : ~Has(e, ahead + (n + 1))) => t.open = <<>>
        BY <1>2, <1>4, <1>5, <1>10
    <2>4. ASSUME NEW e \in entities, Has(e, ahead + (n + 1))
          PROVE  Len(t.open) = 1 /\ t.open[1] = WordSpan(ws, e, Since(e, ahead), n + 1)
        <3>1. l.tag # "O" /\ l.type = e.type
            BY <2>4, <1>2, <1>4
        <3> DEFINE x == [type |-> l.type, start |-> w[1], end |-> w[2]]
        <3>2. t.open = <<x>>
            BY <3>1, <1>5, <1>10
        <3>3. \A y : Len(<<y>>) = 1 /\ <<y>>[1] = y
            OBVIOUS
        <3>4. Since(e, ahead) = n + 1
            <4>1. e.from <= k /\ k <= e.to
                BY <2>4, <1>2 DEF Has
            <4>2. n = 0 \/ k = e.from
                <5>1. n > 0 /\ k # e.from => FALSE
                    BY <2>1, <2>4, <1>2, <1>8
                <5> QED BY <5>1
            <4> DEFINE x0 == e.from
            <4>3. x0 \in Nat /\ k = ahead + (n + 1) /\ x0 <= k /\ (n = 0 \/ k = x0)
                BY <4>1, <4>2, <1>2, <1>7
            <4>4. Since(e, ahead) = IF x0 > ahead THEN x0 - ahead ELSE 1
                BY DEF Since
            <4> HIDE DEF x0
            <4> QED BY <4>3, <4>4, <1>1
        <3>5. x = WordSpan(ws, e, Since(e, ahead), n + 1)
            BY <3>1, <3>4 DEF WordSpan, w
        <3> HIDE DEF x
        <3> QED BY <3>2, <3>3, <3>5
    <2>5. OpenIs(t.open, ws, ahead, n + 1)
        BY <2>3, <2>4 DEF OpenIs
    <2> QED BY <2>2, <2>5, <1>5, <1>10 DEF Decoding, t, l, w
<1> QED BY <1>9, <1>10

LEMMA SinceIs ==
    ASSUME NEW ahead \in Nat, NEW e, e.from \in Nat, e.to \in Nat, e.from <= e.to, ahead < e.to,
           NEW N \in Nat, N > 0, e.from <= ahead + N
    PROVE  /\ Since(e, ahead) \in 1..N
           /\ Since(e, ahead) = 1 \/ ahead + Since(e, ahead) = e.from
           /\ e.from <= ahead + Since(e, ahead) /\ ahead + Since(e, ahead) <= e.to
           /\ e.from > ahead => Since(e, ahead) = e.from - ahead
<1> DEFINE x == e.from
           y == e.to
           i == Since(e, ahead)
<1>1. /\ x \in Nat /\ y \in Nat /\ x <= y /\ ahead < y /\ x <= ahead + N
      /\ i = IF x > ahead THEN x - ahead ELSE 1
    BY DEF Since
<1> HIDE DEF x, y, i
<1>2. /\ i \in 1..N /\ (i = 1 \/ ahead + i = x) /\ x <= ahead + i /\ ahead + i <= y
      /\ x > ahead => i = x - ahead
    BY <1>1
<1> QED BY <1>2 DEF x, y, i

EntityRun(ws, ahead, e, i, j) ==
    /\ i \in 1..Len(ws) /\ j \in i..Len(ws)
    /\ Has(e, ahead + i) /\ Has(e, ahead + j)
    /\ i = 1 \/ ahead + i = e.from
    /\ j = Len(ws) \/ ahead + j = e.to

LEMMA DecodedRuns ==
    ASSUME Passage, Entities, NEW b, NEW c, NEW ahead, NEW ws, Sighted(ws, b, c, ahead)
    PROVE  /\ Decode(ws) \in Seq(NerMarks)
           /\ \A m \in ToSet(Decode(ws)) : \E e \in entities, i, j \in 1..Len(ws) :
                EntityRun(ws, ahead, e, i, j) /\ m = WordSpan(ws, e, i, j)
           /\ \A e \in entities :
                e.from - ahead \in 1..Len(ws) /\ e.to - ahead \in 1..Len(ws) =>
                  WordSpan(ws, e, e.from - ahead, e.to - ahead) \in ToSet(Decode(ws))
<1> DEFINE N == Len(ws)
<1>1. ahead \in Nat /\ ws \in Seq((0..PassageSize) \X (0..PassageSize)) /\ N \in Nat
    BY DEF Sighted
<1>2. \A i \in 1..N : WordAt(ws[i][1]) = ahead + i
    BY DEF Sighted
<1>3. PICK f : Reading(f, ws)
    <2>1. \A i \in 1..N : WordAt(ws[i][1]) \in Int
        BY <1>1, <1>2
    <2> QED BY <2>1, <1>1, ReadingExists
<1>4. /\ \A n \in 0..N : f[n] \in NerReadings
      /\ f[0] = [out |-> <<>>, open |-> <<>>]
      /\ \A n \in 1..N : f[n] = Tagged(f[n - 1], LabelOf(ws[n]), ws[n])
      /\ Decode(ws) = f[N].out \o f[N].open
    BY <1>3 DEF Reading
<1> DEFINE T == {n \in 0..N : Decoding(f[n], ws, ahead, n)}
<1>5. \A e \in entities : e.from \in Nat /\ e.to \in Nat /\ e.from <= e.to
    BY LabelledEntityIs
<1>6. 0 \in T
    <2>1. f[0].out = <<>> /\ f[0].open = <<>>
        BY <1>4
    <2>2. ToSet(<<>>) = {}
        BY DEF ToSet
    <2>3. \A e \in entities : ~(ahead < e.to /\ e.to < ahead + 0)
        BY <1>1, <1>5
    <2>4. Ended(ahead, 0) = {}
        BY <2>3 DEF Ended
    <2>5. ClosedAhead(f[0].out, ws, ahead, 0)
        BY <2>1, <2>2, <2>4 DEF ClosedAhead
    <2>6. OpenIs(f[0].open, ws, ahead, 0)
        BY <2>1 DEF OpenIs
    <2> QED BY <2>5, <2>6, <1>1 DEF Decoding
<1>7. ASSUME NEW n \in 0..N - 1, n \in T PROVE n + 1 \in T
    <2>1. n \in Nat /\ n + 1 \in 1..N /\ n + 1 <= N /\ n + 1 \in 0..N /\ (n + 1) - 1 = n /\ n \in 0..N
        BY <1>1
    <2>2. f[n] \in NerReadings /\ Decoding(f[n], ws, ahead, n)
        BY <1>4, <1>7, <2>1
    <2>3. f[n + 1] = Tagged(f[n], LabelOf(ws[n + 1]), ws[n + 1])
        BY <1>4, <2>1
    <2>4. Decoding(f[n + 1], ws, ahead, n + 1)
        BY <2>1, <2>2, <2>3, DecodingStep
    <2> QED BY <2>1, <2>4
<1>8. 0..N \subseteq T
    <2> HIDE DEF T, N
    <2>1. N \in Int /\ 0 \in Int
        BY <1>1
    <2> QED BY <2>1, <1>1, <1>6, <1>7, IntervalInduction
<1> DEFINE s == f[N].out
           o == f[N].open
<1>9. f[N] \in NerReadings /\ Decoding(f[N], ws, ahead, N)
    <2>1. N \in 0..N
        BY <1>1
    <2> QED BY <2>1, <1>4, <1>8
<1>10. ClosedAhead(s, ws, ahead, N) /\ OpenIs(o, ws, ahead, N)
    BY <1>9 DEF Decoding
<1>11. s \in Seq(NerMarks) /\ o \in Seq(NerMarks)
    BY <1>9 DEF NerReadings
<1> HIDE DEF T, s, o
<1>12. Decode(ws) = s \o o /\ ToSet(Decode(ws)) = ToSet(s) \cup ToSet(o) /\ Decode(ws) \in Seq(NerMarks)
    <2>1. Decode(ws) = s \o o
        BY <1>4 DEF s, o
    <2>2. ToSet(s \o o) = ToSet(s) \cup ToSet(o)
        BY <1>11, ToSetConcat
    <2>3. s \o o \in Seq(NerMarks)
        BY <1>11
    <2> QED BY <2>1, <2>2, <2>3
<1>13. ASSUME NEW m \in ToSet(s)
       PROVE  \E e \in entities, i, j \in 1..N : EntityRun(ws, ahead, e, i, j) /\ m = WordSpan(ws, e, i, j)
    <2>1. PICK e \in Ended(ahead, N) : m = SpanOf(ws, e, ahead)
        BY <1>10 DEF ClosedAhead
    <2>2. e \in entities /\ ahead < e.to /\ e.to < ahead + N
        BY <2>1 DEF Ended
    <2> DEFINE i == Since(e, ahead)
               j == e.to - ahead
    <2>3. i \in 1..N /\ j \in i..N /\ j \in 1..N /\ (i = 1 \/ ahead + i = e.from)
          /\ e.from <= ahead + i /\ ahead + i <= e.to /\ ahead + j = e.to
        <3> DEFINE x == e.from
                   y == e.to
        <3>1. x \in Nat /\ y \in Nat /\ x <= y /\ ahead < y /\ y < ahead + N /\ j = y - ahead
            BY <2>2, <1>5
        <3> HIDE DEF x, y, j, N
        <3>2. N > 0 /\ x <= ahead + N /\ j \in 1..N /\ ahead + j = y
            BY <3>1, <1>1
        <3>3. /\ i \in 1..N /\ (i = 1 \/ ahead + i = x) /\ x <= ahead + i /\ ahead + i <= y
            BY <3>1, <3>2, <1>1, SinceIs DEF x, y
        <3> HIDE DEF i
        <3>4. j \in i..N
            BY <3>1, <3>2, <3>3, <1>1
        <3> QED BY <3>2, <3>3, <3>4 DEF x, y
    <2>4. EntityRun(ws, ahead, e, i, j)
        BY <2>2, <2>3, <1>5 DEF EntityRun, Has
    <2> QED BY <2>1, <2>2, <2>3, <2>4 DEF SpanOf
<1>14. ASSUME NEW m \in ToSet(o)
       PROVE  \E e \in entities, i, j \in 1..N : EntityRun(ws, ahead, e, i, j) /\ m = WordSpan(ws, e, i, j)
    <2>0. ToSet(o) # {} => o # <<>>
        BY DEF ToSet
    <2>1. N > 0 /\ \E e \in entities : Has(e, ahead + N)
        BY <2>0, <1>1, <1>10, <1>14 DEF OpenIs
    <2>2. PICK e \in entities : Has(e, ahead + N)
        BY <2>1
    <2> DEFINE i == Since(e, ahead)
    <2>3. Len(o) = 1 /\ o[1] = WordSpan(ws, e, i, N)
        BY <2>1, <2>2, <1>10 DEF OpenIs
    <2>4. m = o[1]
        <3>1. PICK k \in 1..Len(o) : m = o[k]
            BY <1>11, ToSetElements
        <3> QED BY <3>1, <2>3
    <2>5. e.from <= ahead + N /\ ahead + N <= e.to
        BY <2>2 DEF Has
    <2>6. i \in 1..N /\ N \in i..N /\ N \in 1..N /\ (i = 1 \/ ahead + i = e.from)
          /\ e.from <= ahead + i /\ ahead + i <= e.to
        <3> DEFINE x == e.from
                   y == e.to
        <3>1. x \in Nat /\ y \in Nat /\ x <= y /\ x <= ahead + N /\ ahead + N <= y
            BY <2>5, <1>5
        <3> HIDE DEF x, y, N
        <3>2. ahead < y
            BY <3>1, <2>1, <1>1
        <3>3. /\ i \in 1..N /\ (i = 1 \/ ahead + i = x) /\ x <= ahead + i /\ ahead + i <= y
            BY <3>1, <3>2, <2>1, <1>1, SinceIs DEF x, y
        <3> HIDE DEF i
        <3>4. N \in i..N /\ N \in 1..N
            BY <3>3, <2>1, <1>1
        <3> QED BY <3>3, <3>4 DEF x, y
    <2>7. EntityRun(ws, ahead, e, i, N)
        BY <2>2, <2>6 DEF EntityRun, Has
    <2> QED BY <2>3, <2>4, <2>6, <2>7
<1>15. ASSUME NEW e \in entities, e.from - ahead \in 1..N, e.to - ahead \in 1..N
       PROVE  WordSpan(ws, e, e.from - ahead, e.to - ahead) \in ToSet(s) \cup ToSet(o)
    <2>1. Since(e, ahead) = e.from - ahead /\ ahead < e.to /\ e.to <= ahead + N /\ e.from <= e.to /\ N > 0
        <3> DEFINE x == e.from
                   y == e.to
        <3>1. x \in Nat /\ y \in Nat /\ x <= y /\ x - ahead \in 1..N /\ y - ahead \in 1..N
            BY <1>5, <1>15
        <3> HIDE DEF x, y, N
        <3>2. x > ahead /\ ahead < y /\ x <= ahead + N /\ y <= ahead + N /\ N > 0
            BY <3>1, <1>1
        <3>3. Since(e, ahead) = x - ahead
            BY <3>1, <3>2, <1>1, SinceIs DEF x, y
        <3> QED BY <3>1, <3>2, <3>3 DEF x, y
    <2>2. CASE e.to = ahead + N
        <3>1. Has(e, ahead + N) /\ e.to - ahead = N
            BY <2>1, <2>2, <1>1, <1>5 DEF Has
        <3>2. Len(o) = 1 /\ o[1] = WordSpan(ws, e, Since(e, ahead), N)
            BY <2>1, <3>1, <1>10 DEF OpenIs
        <3>3. o[1] \in ToSet(o)
            BY <3>2, <1>11, ToSetElements
        <3> QED BY <3>1, <3>2, <3>3, <2>1
    <2>3. CASE e.to # ahead + N
        <3>3. e.to \in Nat
            BY <1>5
        <3>4. ahead < e.to /\ e.to < ahead + N
            <4> DEFINE y == e.to
            <4>1. y \in Nat /\ ahead < y /\ y <= ahead + N /\ y # ahead + N
                BY <3>3, <2>1, <2>3
            <4> HIDE DEF y, N
            <4>2. ahead < y /\ y < ahead + N
                BY <4>1, <1>1
            <4> QED BY <4>2 DEF y
        <3>1. e \in Ended(ahead, N)
            BY <3>4 DEF Ended
        <3>2. SpanOf(ws, e, ahead) \in ToSet(s)
            BY <3>1, <1>10 DEF ClosedAhead
        <3> QED BY <3>2, <2>1 DEF SpanOf
    <2> QED BY <2>2, <2>3
<1> QED BY <1>12, <1>13, <1>14, <1>15

-----------------------------------------------------------------------------
(* Where an entity begins and ends.                                        *)
LEMMA BoundsOf ==
    ASSUME Passage, Entities, NEW e \in entities
    PROVE  /\ First(e) \in 0..PassageSize /\ Final(e) \in 0..PassageSize /\ First(e) < Final(e)
           /\ First(e) \in Nat /\ Final(e) \in Nat
           /\ e.from \in 1..Len(Words) /\ e.to \in 1..Len(Words)
<1>1. /\ e.from \in 1..Len(Words) /\ e.to \in 1..Len(Words) /\ e.from <= e.to
      /\ e.from \in Nat /\ e.to \in Nat
    BY LabelledEntityIs
<1>2. IsWord(Words[e.from]) /\ IsWord(Words[e.to]) /\ PassageSize \in Nat
    BY <1>1, WordsAre, PassageIs
<1>3. /\ Words[e.from][1] \in 0..PassageSize - 1 /\ Words[e.from][2] \in Words[e.from][1] + 1..PassageSize
      /\ Words[e.to][1] \in 0..PassageSize - 1 /\ Words[e.to][2] \in Words[e.to][1] + 1..PassageSize
    BY <1>2 DEF IsWord
<1>4. Words[e.from][1] <= Words[e.to][1]
    <2>1. CASE e.from = e.to
        BY <2>1, <1>3, <1>2
    <2>2. CASE e.from # e.to
        <3>1. e.from < e.to
            BY <2>2, <1>1
        <3>2. Words[e.from][1] < Words[e.to][1]
            BY <3>1, <1>1, WordsAre DEF Successive
        <3> QED BY <3>2, <1>3, <1>2
    <2> QED BY <2>1, <2>2
<1>5. /\ Words[e.from][1] \in 0..PassageSize /\ Words[e.to][2] \in 0..PassageSize
      /\ Words[e.from][1] < Words[e.to][2]
      /\ Words[e.from][1] \in Nat /\ Words[e.to][2] \in Nat
    BY <1>2, <1>3, <1>4
<1> QED BY <1>1, <1>5 DEF First, Final

(* A mark of a chunk: an entity, or what the chunk holds of it.            *)
SeenOf(m, e, c) ==
    /\ m.type = e.type
    /\ First(e) <= m.start /\ c[1] <= m.start /\ m.start < m.end
    /\ m.end <= Final(e) /\ m.end <= c[2]
    /\ m.end = Final(e) \/ c[2] < Final(e)

WordOrder == \A k, l \in 1..Len(Words) : k < l => Words[k][2] < Words[l][1]

LEMMA WordsInOrder ==
    ASSUME Passage
    PROVE  /\ WordOrder
           /\ \A k \in 1..Len(Words) :
                Words[k][1] \in Nat /\ Words[k][2] \in Nat /\ Words[k][1] < Words[k][2]
           /\ Len(Words) \in Nat
<1>1. /\ Len(Words) \in Nat /\ PassageSize \in Nat
      /\ \A k \in 1..Len(Words) : IsWord(Words[k])
      /\ Successive(Words)
    BY WordsAre, PassageIs
<1>2. ASSUME NEW k \in 1..Len(Words)
      PROVE  Words[k][1] \in Nat /\ Words[k][2] \in Nat /\ Words[k][1] < Words[k][2]
    <2>1. Words[k][1] \in 0..PassageSize - 1 /\ Words[k][2] \in Words[k][1] + 1..PassageSize
        BY <1>1 DEF IsWord
    <2> QED BY <2>1, <1>1
<1>3. WordOrder
    BY <1>1, WordsApart DEF Successive, WordOrder
<1> QED BY <1>1, <1>2, <1>3

LEMMA RunIsSeen ==
    ASSUME Passage, Entities, NEW c1 \in 0..PassageSize, NEW c2 \in 0..PassageSize,
           NEW ws, NEW ahead, Sighted(ws, c1, c2, ahead),
           NEW e \in entities, NEW i \in 1..Len(ws), NEW j \in 1..Len(ws), EntityRun(ws, ahead, e, i, j)
    PROVE  SeenOf(WordSpan(ws, e, i, j), e, <<c1, c2>>)
<1> DEFINE k == ahead + i
           l == ahead + j
           N == Len(ws)
           p == ws[i]
           q == ws[j]
<1>1. /\ ahead \in Nat /\ N \in Nat /\ PassageSize \in Nat
      /\ ws \in Seq((0..PassageSize) \X (0..PassageSize))
      /\ \A n \in 1..N : Clipped(ws[n], ahead + n, c1, c2)
      /\ \A n \in 1..Len(Words) : c1 <= Words[n][1] /\ Words[n][1] < c2 => n - ahead \in 1..N
    <2>1. PassageSize \in Nat
        BY PassageIs
    <2>2. ahead \in Nat /\ ws \in Seq((0..PassageSize) \X (0..PassageSize))
        BY DEF Sighted
    <2>3. \A n \in 1..N : Clipped(ws[n], ahead + n, c1, c2)
        BY DEF Sighted
    <2>4. \A n \in 1..Len(Words) : c1 <= Words[n][1] /\ Words[n][1] < c2 => n - ahead \in 1..N
        BY DEF Sighted
    <2>5. N \in Nat
        BY <2>2
    <2> HIDE DEF N
    <2> QED BY <2>1, <2>2, <2>3, <2>4, <2>5
<1>2. c1 \in Nat /\ c2 \in Nat /\ i <= j /\ i \in Nat /\ j \in Nat /\ i <= N /\ j <= N
    BY <1>1 DEF EntityRun
<1>3. /\ e.from <= k /\ k <= e.to /\ e.from <= l /\ l <= e.to
      /\ i = 1 \/ k = e.from
      /\ j = N \/ l = e.to
    BY DEF EntityRun, Has
<1>4. Clipped(p, k, c1, c2) /\ Clipped(q, l, c1, c2)
    BY <1>1
<1>5. /\ k \in 1..Len(Words) /\ l \in 1..Len(Words)
      /\ Words[k][1] <= p[1] /\ p[1] < p[2] /\ p[2] <= Words[k][2] /\ c1 <= p[1] /\ p[2] <= c2
      /\ Words[l][1] <= q[1] /\ q[1] < q[2] /\ q[2] <= Words[l][2] /\ c1 <= q[1] /\ q[2] <= c2
      /\ q[2] = Words[l][2] \/ (q[2] = c2 /\ c2 < Words[l][2])
    BY <1>4 DEF Clipped
<1>6. p[1] \in Nat /\ p[2] \in Nat /\ q[1] \in Nat /\ q[2] \in Nat
    <2>0. \A n \in 1..N : ws[n] \in (0..PassageSize) \X (0..PassageSize)
        BY <1>1
    <2>1. p \in (0..PassageSize) \X (0..PassageSize) /\ q \in (0..PassageSize) \X (0..PassageSize)
        BY <2>0
    <2> HIDE DEF p, q
    <2> QED BY <2>1, <1>1
<1>17. \A x, y, z \in Nat : (x <= y /\ y <= z => x <= z) /\ (x < y /\ y < z => x < z)
    OBVIOUS
<1>7. /\ WordOrder /\ Len(Words) \in Nat
      /\ \A n \in 1..Len(Words) :
           Words[n][1] \in Nat /\ Words[n][2] \in Nat /\ Words[n][1] < Words[n][2]
    BY WordsInOrder
<1>8. e.from \in 1..Len(Words) /\ e.to \in 1..Len(Words) /\ First(e) = Words[e.from][1] /\ Final(e) = Words[e.to][2]
    BY BoundsOf DEF First, Final
<1>9. k \in Nat /\ l \in Nat /\ k <= l
    <2>1. ahead \in Nat
        BY <1>1
    <2> QED BY <2>1, <1>2
<1> HIDE DEF k, l, p, q
<1>10. \A n, o \in 1..Len(Words) : n <= o => Words[n][1] <= Words[o][1] /\ Words[n][2] <= Words[o][2]
    <2> SUFFICES ASSUME NEW n \in 1..Len(Words), NEW o \in 1..Len(Words), n <= o
                 PROVE  Words[n][1] <= Words[o][1] /\ Words[n][2] <= Words[o][2]
        OBVIOUS
    <2>1. CASE n = o
        BY <2>1, <1>7
    <2>2. CASE n # o
        <3>1. n < o
            BY <2>2, <1>7
        <3>2. Words[n][2] < Words[o][1]
            BY <3>1, <1>7 DEF WordOrder
        <3> QED BY <3>2, <1>7
    <2> QED BY <2>1, <2>2
<1>11. First(e) <= p[1]
    <2>1. Words[e.from][1] <= Words[k][1]
        BY <1>3, <1>5, <1>8, <1>10
    <2>2. Words[k][1] <= p[1] /\ Words[k][1] \in Nat /\ Words[e.from][1] \in Nat
        BY <1>5, <1>7, <1>8
    <2>3. Words[e.from][1] <= p[1]
        BY <2>1, <2>2, <1>6, <1>17
    <2> QED BY <2>3, <1>8
<1>12. q[2] <= Final(e)
    <2>1. Words[l][2] <= Words[e.to][2]
        BY <1>3, <1>5, <1>8, <1>10
    <2>2. q[2] <= Words[l][2] /\ Words[l][2] \in Nat /\ Words[e.to][2] \in Nat
        BY <1>5, <1>7, <1>8
    <2>3. q[2] <= Words[e.to][2]
        BY <2>1, <2>2, <1>6, <1>17
    <2> QED BY <2>3, <1>8
<1>13. p[1] < q[2]
    <2>1. CASE i = j
        BY <2>1, <1>5 DEF p, q
    <2>2. CASE i # j
        <3>1. k < l
            BY <2>2, <1>1, <1>2 DEF k, l
        <3>2. Words[k][2] < Words[l][1]
            BY <3>1, <1>5, <1>7 DEF WordOrder
        <3> DEFINE x == Words[k][2]
                   y == Words[l][1]
        <3>3. x \in Nat /\ y \in Nat /\ x < y /\ p[2] <= x /\ y <= q[1]
            BY <3>2, <1>5, <1>7
        <3> HIDE DEF x, y
        <3> DEFINE p1 == p[1]
                   p2 == p[2]
                   q1 == q[1]
                   q2 == q[2]
        <3>4. p1 \in Nat /\ p2 \in Nat /\ q1 \in Nat /\ q2 \in Nat /\ p1 < p2 /\ q1 < q2 /\ p2 <= x /\ y <= q1
            BY <3>3, <1>5, <1>6
        <3> HIDE DEF p1, p2, q1, q2
        <3>5. p1 < q2
            BY <3>3, <3>4
        <3> QED BY <3>5 DEF p1, q2
    <2> QED BY <2>1, <2>2
<1>14. q[2] = Final(e) \/ c2 < Final(e)
    <2>1. CASE l = e.to
        BY <2>1, <1>5, <1>8
    <2>2. CASE l # e.to
        <3>1. j = N /\ l < e.to /\ l = ahead + N
            <4>1. e.to \in Int /\ l \in Int
                BY <1>7, <1>8, <1>9
            <4> QED BY <4>1, <2>2, <1>3 DEF l
        <3>2. Words[l][2] < Words[e.to][1]
            BY <3>1, <1>5, <1>7, <1>8 DEF WordOrder
        <3>3. ~(e.to - ahead \in 1..N)
            <4>1. e.to \in Nat
                BY <1>7, <1>8
            <4> DEFINE t == e.to
            <4>2. t \in Nat /\ ahead + N < t
                BY <4>1, <3>1
            <4> HIDE DEF t, N
            <4>3. ~(t - ahead \in 1..N)
                BY <4>2, <1>1
            <4> QED BY <4>3 DEF t
        <3>4. ~(c1 <= Words[e.to][1] /\ Words[e.to][1] < c2)
            BY <3>3, <1>1, <1>8
        <3> DEFINE x == Words[e.to][1]
                   y == Words[e.to][2]
                   z == Words[l][2]
        <3>5. x \in Nat /\ y \in Nat /\ z \in Nat /\ x < y /\ z < x /\ ~(c1 <= x /\ x < c2)
              /\ Final(e) = y /\ q[2] <= z
            BY <3>2, <3>4, <1>5, <1>7, <1>8
        <3> HIDE DEF x, y, z
        <3> DEFINE q1 == q[1]
                   q2 == q[2]
        <3>7. q1 \in Nat /\ q2 \in Nat /\ c1 <= q1 /\ q1 < q2 /\ q2 <= z
            BY <3>5, <1>5, <1>6
        <3> HIDE DEF q1, q2
        <3>6. c2 < y
            BY <3>5, <3>7, <1>2
        <3> QED BY <3>5, <3>6
    <2> QED BY <2>1, <2>2
<1>15. WordSpan(ws, e, i, j).type = e.type /\ WordSpan(ws, e, i, j).start = p[1] /\ WordSpan(ws, e, i, j).end = q[2]
    BY DEF WordSpan, p, q
<1>16. <<c1, c2>>[1] = c1 /\ <<c1, c2>>[2] = c2
    OBVIOUS
<1> QED BY <1>5, <1>11, <1>12, <1>13, <1>14, <1>15, <1>16 DEF SeenOf

LEMMA WholeIsRead ==
    ASSUME Passage, Entities, NEW c1 \in 0..PassageSize, NEW c2 \in 0..PassageSize,
           NEW ws, NEW ahead, Sighted(ws, c1, c2, ahead),
           NEW e \in entities, c1 <= First(e), Final(e) <= c2
    PROVE  /\ e.from - ahead \in 1..Len(ws) /\ e.to - ahead \in 1..Len(ws)
           /\ WordSpan(ws, e, e.from - ahead, e.to - ahead) = [type |-> e.type, start |-> First(e), end |-> Final(e)]
<1> DEFINE N == Len(ws)
           i == e.from - ahead
           j == e.to - ahead
<1>1. /\ ahead \in Nat /\ N \in Nat /\ PassageSize \in Nat
      /\ ws \in Seq((0..PassageSize) \X (0..PassageSize))
      /\ \A n \in 1..N : Clipped(ws[n], ahead + n, c1, c2)
      /\ \A n \in 1..Len(Words) : c1 <= Words[n][1] /\ Words[n][1] < c2 => n - ahead \in 1..N
    <2>1. PassageSize \in Nat
        BY PassageIs
    <2>2. ahead \in Nat /\ ws \in Seq((0..PassageSize) \X (0..PassageSize))
        BY DEF Sighted
    <2>3. \A n \in 1..N : Clipped(ws[n], ahead + n, c1, c2)
        BY DEF Sighted
    <2>4. \A n \in 1..Len(Words) : c1 <= Words[n][1] /\ Words[n][1] < c2 => n - ahead \in 1..N
        BY DEF Sighted
    <2>5. N \in Nat
        BY <2>2
    <2> HIDE DEF N
    <2> QED BY <2>1, <2>2, <2>3, <2>4, <2>5
<1>2. c1 \in Nat /\ c2 \in Nat
    BY <1>1
<1>3. /\ WordOrder /\ Len(Words) \in Nat
      /\ \A n \in 1..Len(Words) :
           Words[n][1] \in Nat /\ Words[n][2] \in Nat /\ Words[n][1] < Words[n][2]
    BY WordsInOrder
<1>4. /\ e.from \in 1..Len(Words) /\ e.to \in 1..Len(Words) /\ e.from <= e.to
      /\ First(e) = Words[e.from][1] /\ Final(e) = Words[e.to][2]
      /\ First(e) < Final(e)
    BY BoundsOf, LabelledEntityIs DEF First, Final
<1>5. Words[e.from][1] <= Words[e.to][1]
    <2>1. CASE e.from = e.to
        BY <2>1, <1>3, <1>4
    <2>2. CASE e.from # e.to
        <3>1. e.from < e.to
            BY <2>2, <1>3, <1>4
        <3>2. Words[e.from][2] < Words[e.to][1]
            BY <3>1, <1>3, <1>4 DEF WordOrder
        <3> DEFINE x == Words[e.from][1]
                   y == Words[e.from][2]
                   z == Words[e.to][1]
        <3>3. x \in Nat /\ y \in Nat /\ z \in Nat /\ x < y /\ y < z
            BY <3>2, <1>3, <1>4
        <3> HIDE DEF x, y, z
        <3>4. x <= z
            BY <3>3
        <3> QED BY <3>4 DEF x, z
    <2> QED BY <2>1, <2>2
<1>6. i \in 1..N /\ j \in 1..N
    <2>1. c1 <= Words[e.from][1] /\ Words[e.from][1] < c2
        BY <1>2, <1>3, <1>4
    <2>2. c1 <= Words[e.to][1] /\ Words[e.to][1] < c2
        BY <1>2, <1>3, <1>4, <1>5
    <2> QED BY <2>1, <2>2, <1>1, <1>4
<1>7. ahead + i = e.from /\ ahead + j = e.to
    BY <1>1, <1>3, <1>4
<1> HIDE DEF i, j
<1>8. Clipped(ws[i], e.from, c1, c2) /\ Clipped(ws[j], e.to, c1, c2)
    BY <1>1, <1>6, <1>7
<1>9. /\ ws[i][1] = Words[e.from][1] \/ (ws[i][1] = c1 /\ Words[e.from][1] < c1)
      /\ ws[j][2] = Words[e.to][2] \/ (ws[j][2] = c2 /\ c2 < Words[e.to][2])
    BY <1>8 DEF Clipped
<1>10. ~(Words[e.from][1] < c1) /\ ~(c2 < Words[e.to][2])
    BY <1>2, <1>3, <1>4
<1>11. ws[i][1] = First(e) /\ ws[j][2] = Final(e)
    BY <1>4, <1>9, <1>10
<1> QED BY <1>6, <1>11 DEF WordSpan, i, j

(* What the decoder reports of a chunk.                                    *)
LEMMA DecodedIs ==
    ASSUME Passage, Entities, NEW c \in (0..PassageSize) \X (0..PassageSize)
    PROVE  /\ Decode(WordsIn(c[1], c[2])) \in Seq(NerMarks)
           /\ \A m \in ToSet(Decode(WordsIn(c[1], c[2]))) : \E e \in entities : SeenOf(m, e, c)
           /\ \A e \in entities : Within(First(e), Final(e), c) =>
                [type |-> e.type, start |-> First(e), end |-> Final(e)]
                  \in ToSet(Decode(WordsIn(c[1], c[2])))
<1> DEFINE c1 == c[1]
           c2 == c[2]
           ws == WordsIn(c1, c2)
<1>1. c1 \in 0..PassageSize /\ c2 \in 0..PassageSize /\ c = <<c1, c2>>
    OBVIOUS
<1>2. PICK ahead : Sighted(ws, c1, c2, ahead)
    <2> HIDE DEF c1, c2
    <2> QED BY <1>1, SightedWords
<1> HIDE DEF ws, c1, c2
<1>3. /\ Decode(ws) \in Seq(NerMarks)
      /\ \A m \in ToSet(Decode(ws)) : \E e \in entities, i, j \in 1..Len(ws) :
           EntityRun(ws, ahead, e, i, j) /\ m = WordSpan(ws, e, i, j)
      /\ \A e \in entities :
           e.from - ahead \in 1..Len(ws) /\ e.to - ahead \in 1..Len(ws) =>
             WordSpan(ws, e, e.from - ahead, e.to - ahead) \in ToSet(Decode(ws))
    BY <1>2, DecodedRuns
<1>4. \A m \in ToSet(Decode(ws)) : \E e \in entities : SeenOf(m, e, c)
    BY <1>1, <1>2, <1>3, RunIsSeen
<1>5. ASSUME NEW e \in entities, Within(First(e), Final(e), c)
      PROVE  [type |-> e.type, start |-> First(e), end |-> Final(e)] \in ToSet(Decode(ws))
    <2>1. c1 <= First(e) /\ Final(e) <= c2
        BY <1>5 DEF Within, c1, c2
    <2> QED BY <2>1, <1>1, <1>2, <1>3, WholeIsRead
<1> QED BY <1>3, <1>4, <1>5 DEF ws, c1, c2

(* Marks in the order of their beginnings.                                 *)
FromTheFront(s) == \A i, j \in 1..Len(s) : i < j => s[i].start <= s[j].start
Sequenced == {s \in Seq(NerMarks) : FromTheFront(s)}

LEMMA MarkIs ==
    ASSUME NEW m \in NerMarks, PassageSize \in Nat
    PROVE  m.start \in Nat /\ m.end \in Nat /\ m.type \in EntityTypes
BY DEF NerMarks

(* A mark has a place among others.                                        *)
LEMMA PlaceOfIs ==
    ASSUME NEW m \in NerMarks, NEW s \in Seq(NerMarks)
    PROVE  /\ PlaceOf(m, s) \in 0..Len(s)
           /\ \A j \in 1..PlaceOf(m, s) : ~Before(m, s[j])
           /\ PlaceOf(m, s) < Len(s) => Before(m, s[PlaceOf(m, s) + 1])
<1> DEFINE N == Len(s)
           T == {k \in 0..N : \A j \in 1..k : ~Before(m, s[j])}
           g == Max(T)
           Right(k) == (\A j \in 1..k : ~Before(m, s[j])) /\ (k < N => Before(m, s[k + 1]))
<1>1. N \in Nat /\ T \in SUBSET (0..N) /\ 0 \in T
    OBVIOUS
<1>2. g \in T /\ \A x \in T : x <= g
    <2> HIDE DEF T, N
    <2> QED BY <1>1, OffsetBounds
<1> HIDE DEF g
<1>3. g \in 0..N /\ \A j \in 1..g : ~Before(m, s[j])
    BY <1>2
<1>4. ASSUME g < N, ~Before(m, s[g + 1]) PROVE FALSE
    <2>1. g + 1 \in 0..N /\ \A j \in 1..g + 1 : j \in 1..g \/ j = g + 1
        BY <1>1, <1>3, <1>4
    <2>2. g + 1 \in T
        BY <2>1, <1>3, <1>4
    <2>3. ~(g + 1 <= g)
        BY <1>3
    <2> QED BY <2>2, <2>3, <1>2
<1>5. \E k \in 0..N : Right(k)
    BY <1>3, <1>4
<1>6. PlaceOf(m, s) = CHOOSE k \in 0..N : Right(k)
    BY DEF PlaceOf
<1> HIDE DEF Right, N
<1>7. PlaceOf(m, s) \in 0..N /\ Right(PlaceOf(m, s))
    BY <1>5, <1>6
<1> QED BY <1>7 DEF Right, N

LEMMA InsertedInSequence ==
    ASSUME PassageSize \in Nat, NEW m \in NerMarks, NEW s \in Sequenced
    PROVE  /\ InsertAt(s, PlaceOf(m, s) + 1, m) \in Sequenced
           /\ ToSet(InsertAt(s, PlaceOf(m, s) + 1, m)) = ToSet(s) \cup {m}
<1> DEFINE k == PlaceOf(m, s)
           t == InsertAt(s, k + 1, m)
           N == Len(s)
<1>1. s \in Seq(NerMarks) /\ FromTheFront(s) /\ N \in Nat
    BY DEF Sequenced
<1>2. /\ k \in 0..N
      /\ \A j \in 1..k : ~Before(m, s[j])
      /\ k < N => Before(m, s[k + 1])
    BY <1>1, PlaceOfIs
<1> HIDE DEF k
<1>3. /\ t \in Seq(NerMarks) /\ Len(t) = N + 1
      /\ \A j \in 1..k : t[j] = s[j]
      /\ t[k + 1] = m
      /\ \A j \in k + 2..N + 1 : t[j] = s[j - 1]
      /\ ToSet(t) = ToSet(s) \cup {m}
    <2>1. t \in Seq(NerMarks) /\ PutBehind(t, s, m, k)
        BY <1>1, <1>2, InsertedElements
    <2> QED BY <2>1 DEF PutBehind
<1> HIDE DEF t
<1>4. m.start \in Nat /\ \A j \in 1..N : s[j].start \in Nat
    BY <1>1, MarkIs
<1>5. \A i, j \in 1..N : i < j => s[i].start <= s[j].start
    BY <1>1 DEF FromTheFront
<1> HIDE DEF N
<1>6. \A j \in 1..k : s[j].start <= m.start
    <2> SUFFICES ASSUME NEW j \in 1..k PROVE s[j].start <= m.start
        OBVIOUS
    <2>1. j \in 1..N /\ ~Before(m, s[j])
        BY <1>1, <1>2
    <2> QED BY <2>1, <1>4 DEF Before
<1>7. \A j \in k + 1..N : m.start <= s[j].start
    <2> SUFFICES ASSUME NEW j \in k + 1..N PROVE m.start <= s[j].start
        OBVIOUS
    <2>1. k < N /\ k + 1 \in 1..N /\ j \in 1..N /\ (k + 1 = j \/ k + 1 < j)
        BY <1>1, <1>2
    <2>2. Before(m, s[k + 1])
        BY <2>1, <1>2
    <2>3. k + 1 = j \/ s[k + 1].start <= s[j].start
        BY <2>1, <1>5
    <2>4. s[j].start \in Nat /\ s[k + 1].start \in Nat
        BY <2>1, <1>4
    <2>5. m.start <= s[k + 1].start
        BY <2>2, <2>4, <1>4 DEF Before
    <2> QED BY <2>5, <2>3, <2>4, <1>4
<1>8. ASSUME NEW i \in 1..N + 1, NEW j \in 1..N + 1, i < j PROVE t[i].start <= t[j].start
    <2>1. CASE j <= k
        <3>1. i \in 1..k /\ j \in 1..k /\ i \in 1..N /\ j \in 1..N
            BY <1>1, <1>2, <1>8, <2>1
        <3> QED BY <3>1, <1>3, <1>5, <1>8
    <2>2. CASE j = k + 1
        <3>1. i \in 1..k /\ i \in 1..N
            BY <1>1, <1>2, <1>8, <2>2
        <3>2. t[i] = s[i] /\ t[j] = m /\ s[i].start <= m.start
            BY <3>1, <2>2, <1>3, <1>6
        <3> QED BY <3>1, <3>2, <1>4
    <2>3. CASE j > k + 1 /\ i <= k
        <3>1. i \in 1..k /\ j \in k + 2..N + 1 /\ j - 1 \in 1..N /\ i \in 1..N /\ i < j - 1
            BY <1>1, <1>2, <1>8, <2>3
        <3> QED BY <3>1, <1>3, <1>5
    <2>4. CASE j > k + 1 /\ i = k + 1
        <3>1. j \in k + 2..N + 1 /\ j - 1 \in k + 1..N
            BY <1>1, <1>2, <1>8, <2>4
        <3> QED BY <3>1, <2>4, <1>3, <1>7
    <2>5. CASE j > k + 1 /\ i > k + 1
        <3>1. i \in k + 2..N + 1 /\ j \in k + 2..N + 1 /\ i - 1 \in 1..N /\ j - 1 \in 1..N /\ i - 1 < j - 1
            BY <1>1, <1>2, <1>8, <2>5
        <3> QED BY <3>1, <1>3, <1>5
    <2> QED BY <2>1, <2>2, <2>3, <2>4, <2>5, <1>1, <1>2
<1>9. t \in Sequenced
    BY <1>3, <1>8 DEF Sequenced, FromTheFront
<1> QED BY <1>3, <1>9 DEF t, k

(* f has, at each number, that many of the marks in order.                 *)
Sequences(f, s) ==
    /\ \A n \in 0..Len(s) : f[n] \in Sequenced
    /\ f[0] = <<>>
    /\ \A n \in 1..Len(s) : f[n] = InsertAt(f[n - 1], PlaceOf(s[n], f[n - 1]) + 1, s[n])
    /\ InOrder(s) = f[Len(s)]

LEMMA SequencesExist ==
    ASSUME PassageSize \in Nat, NEW s \in Seq(NerMarks)
    PROVE  \E f : Sequences(f, s)
<1> DEFINE N    == Len(s)
           base == <<>>
           Step(n, v) == InsertAt(v, PlaceOf(s[n], v) + 1, s[n])
           step == [p \in (0 + 1..N) \X Sequenced |-> Step(p[1], p[2])]
           F(f) == [n \in 0..N |-> IF n = 0 THEN base ELSE Step(n, f[n - 1])]
           f    == CHOOSE g : g = F(g)
<1>0. InOrder(s) = f[N]
    BY DEF InOrder
<1>1. N \in Nat /\ N \in Int /\ 0 \in Int /\ 0 <= N
    OBVIOUS
<1>2. base \in Sequenced
    BY DEF Sequenced, FromTheFront
<1>3. ASSUME NEW n \in 1..N, NEW v \in Sequenced PROVE Step(n, v) \in Sequenced
    <2>1. s[n] \in NerMarks
        BY <1>1
    <2> QED BY <2>1, InsertedInSequence
<1> HIDE DEF base, Step
<1>4. step \in [(0 + 1..N) \X Sequenced -> Sequenced]
    <2> HIDE DEF N
    <2>1. 0 + 1..N = 1..N
        BY <1>1
    <2> QED BY <2>1, <1>3
<1>5. PICK g \in [0..N -> Sequenced] : Recursion(g, 0, N, base, step)
    <2> HIDE DEF N, step, F, f
    <2> QED BY <1>1, <1>2, <1>4, RecursionExists
<1>6. g[0] = base
    BY <1>5 DEF Recursion
<1>7. ASSUME NEW n \in 1..N PROVE g[n] = Step(n, g[n - 1])
    <2>1. n \in 0 + 1..N /\ n - 1 \in 0..N
        BY <1>1
    <2>2. <<n, g[n - 1]>> \in (0 + 1..N) \X Sequenced /\ g[n] = step[<<n, g[n - 1]>>]
        <3> HIDE DEF step, N
        <3> QED BY <2>1, <1>5 DEF Recursion
    <2> HIDE DEF N
    <2>3. step[<<n, g[n - 1]>>] = Step(n, g[n - 1])
        BY <2>2
    <2> HIDE DEF step
    <2> QED BY <2>2, <2>3
<1>8. g = F(g)
    <2> HIDE DEF step, N
    <2>1. \A n \in 0..N : g[n] = F(g)[n]
        <3> SUFFICES ASSUME NEW n \in 0..N PROVE g[n] = F(g)[n]
            OBVIOUS
        <3>1. CASE n = 0
            BY <1>6, <3>1
        <3>2. CASE n # 0
            <4>1. n \in 1..N
                BY <1>1, <3>2
            <4> QED BY <1>7, <3>2, <4>1
        <3> HIDE DEF F
        <3> QED BY <3>1, <3>2
    <2> QED BY <1>5, <2>1
<1>9. f = F(f)
    <2> HIDE DEF F
    <2> QED BY <1>8
<1> HIDE DEF f
<1>10. f[0] = base
    <2> HIDE DEF N
    <2> QED BY <1>1, <1>9
<1>11. ASSUME NEW n \in 1..N PROVE f[n] = Step(n, f[n - 1])
    <2>1. n \in 0..N /\ n # 0
        BY <1>1
    <2> HIDE DEF N
    <2> QED BY <1>9, <2>1
<1>12. \A n \in 0..N : f[n] \in Sequenced
    <2> DEFINE T == {n \in 0..N : f[n] \in Sequenced}
    <2>1. 0 \in T
        <3> HIDE DEF N
        <3> QED BY <1>1, <1>2, <1>10
    <2>2. ASSUME NEW n \in 0..N - 1, n \in T PROVE n + 1 \in T
        <3>1. n + 1 \in 1..N /\ n + 1 \in 0..N /\ (n + 1) - 1 = n /\ f[n] \in Sequenced
            BY <2>2, <1>1
        <3> HIDE DEF N
        <3>2. f[n + 1] = Step(n + 1, f[n])
            BY <3>1, <1>11
        <3> QED BY <3>1, <3>2, <1>3
    <2>3. 0..N \subseteq T
        <3> HIDE DEF T, N
        <3> QED BY <1>1, <2>1, <2>2, IntervalInduction
    <2> QED BY <2>3
<1>13. Sequences(f, s)
    BY <1>0, <1>10, <1>11, <1>12 DEF Sequences, Step, base
<1> QED BY <1>13

(* The sort keeps the marks and puts them in order.                        *)
LEMMA InOrderIs ==
    ASSUME PassageSize \in Nat, NEW s \in Seq(NerMarks)
    PROVE  InOrder(s) \in Sequenced /\ ToSet(InOrder(s)) = ToSet(s)
<1> DEFINE N == Len(s)
<1>1. PICK f : Sequences(f, s)
    BY SequencesExist
<1>2. N \in Nat /\ N \in Int /\ 0 \in Int /\ \A n \in 1..N : s[n] \in NerMarks
    OBVIOUS
<1>3. /\ \A n \in 0..N : f[n] \in Sequenced
      /\ f[0] = <<>> /\ InOrder(s) = f[N]
      /\ \A n \in 1..N : f[n] = InsertAt(f[n - 1], PlaceOf(s[n], f[n - 1]) + 1, s[n])
    BY <1>1 DEF Sequences
<1> HIDE DEF N
<1> DEFINE T == {n \in 0..N : ToSet(f[n]) = {s[j] : j \in 1..n}}
<1>4. 0 \in T
    <2>1. ToSet(f[0]) = {}
        BY <1>3 DEF ToSet
    <2> QED BY <2>1, <1>2
<1>5. ASSUME NEW n \in 0..N - 1, n \in T PROVE n + 1 \in T
    <2>1. n + 1 \in 1..N /\ n + 1 \in 0..N /\ (n + 1) - 1 = n /\ n \in 0..N
        BY <1>2
    <2>2. f[n] \in Sequenced /\ s[n + 1] \in NerMarks
        BY <2>1, <1>2, <1>3
    <2>3. f[n + 1] = InsertAt(f[n], PlaceOf(s[n + 1], f[n]) + 1, s[n + 1])
        BY <2>1, <1>3
    <2>4. ToSet(f[n + 1]) = ToSet(f[n]) \cup {s[n + 1]}
        BY <2>2, <2>3, InsertedInSequence
    <2>5. {s[j] : j \in 1..n + 1} = {s[j] : j \in 1..n} \cup {s[n + 1]}
        <3>1. 1..n + 1 = (1..n) \cup {n + 1}
            BY <1>2
        <3> QED BY <3>1
    <2> QED BY <2>1, <2>4, <2>5, <1>5
<1>6. 0..N \subseteq T
    <2> HIDE DEF T
    <2> QED BY <1>2, <1>4, <1>5, IntervalInduction
<1>7. N \in 0..N /\ ToSet(s) = {s[j] : j \in 1..N}
    BY <1>2 DEF ToSet, N
<1> QED BY <1>3, <1>6, <1>7

-----------------------------------------------------------------------------
(* f has, at each number, what is kept of that many marks.                 *)
Thinning(f, s) ==
    /\ \A n \in 0..Len(s) : f[n] \in Seq(NerMarks)
    /\ f[0] = <<>>
    /\ \A n \in 1..Len(s) : f[n] = IF \E k \in ToSet(f[n - 1]) : Meets(k, s[n])
                                   THEN f[n - 1] ELSE Append(f[n - 1], s[n])
    /\ FirstsOf(s) = f[Len(s)]

LEMMA ThinningExists ==
    ASSUME NEW s \in Seq(NerMarks)
    PROVE  \E f : Thinning(f, s)
<1> DEFINE N    == Len(s)
           base == <<>>
           Step(n, v) == IF \E k \in ToSet(v) : Meets(k, s[n]) THEN v ELSE Append(v, s[n])
           step == [p \in (0 + 1..N) \X Seq(NerMarks) |-> Step(p[1], p[2])]
           F(f) == [n \in 0..N |-> IF n = 0 THEN base ELSE Step(n, f[n - 1])]
           f    == CHOOSE g : g = F(g)
<1>0. FirstsOf(s) = f[N]
    <2> DEFINE G(g) == [n \in 0..N |->
                         IF n = 0 THEN <<>>
                         ELSE IF \E k \in ToSet(g[n - 1]) : Meets(k, s[n]) THEN g[n - 1]
                         ELSE Append(g[n - 1], s[n])]
    <2>1. FirstsOf(s) = (CHOOSE g : g = G(g))[N]
        BY DEF FirstsOf
    <2>2. \A g : G(g) = F(g)
        OBVIOUS
    <2> HIDE DEF F, G
    <2> QED BY <2>1, <2>2
<1>1. N \in Nat /\ N \in Int /\ 0 \in Int /\ 0 <= N
    OBVIOUS
<1>2. base \in Seq(NerMarks)
    OBVIOUS
<1>3. ASSUME NEW n \in 1..N, NEW v \in Seq(NerMarks) PROVE Step(n, v) \in Seq(NerMarks)
    <2>1. s[n] \in NerMarks
        BY <1>1
    <2> QED BY <2>1
<1> HIDE DEF base, Step
<1>4. step \in [(0 + 1..N) \X Seq(NerMarks) -> Seq(NerMarks)]
    <2> HIDE DEF N
    <2>1. 0 + 1..N = 1..N
        BY <1>1
    <2> QED BY <2>1, <1>3
<1>5. PICK g \in [0..N -> Seq(NerMarks)] : Recursion(g, 0, N, base, step)
    <2> HIDE DEF N, step, F, f
    <2> QED BY <1>1, <1>2, <1>4, RecursionExists
<1>6. g[0] = base
    BY <1>5 DEF Recursion
<1>7. ASSUME NEW n \in 1..N PROVE g[n] = Step(n, g[n - 1])
    <2>1. n \in 0 + 1..N /\ n - 1 \in 0..N
        BY <1>1
    <2>2. <<n, g[n - 1]>> \in (0 + 1..N) \X Seq(NerMarks) /\ g[n] = step[<<n, g[n - 1]>>]
        <3> HIDE DEF step, N
        <3> QED BY <2>1, <1>5 DEF Recursion
    <2> HIDE DEF N
    <2>3. step[<<n, g[n - 1]>>] = Step(n, g[n - 1])
        BY <2>2
    <2> HIDE DEF step
    <2> QED BY <2>2, <2>3
<1>8. g = F(g)
    <2> HIDE DEF step, N
    <2>1. \A n \in 0..N : g[n] = F(g)[n]
        <3> SUFFICES ASSUME NEW n \in 0..N PROVE g[n] = F(g)[n]
            OBVIOUS
        <3>1. CASE n = 0
            BY <1>6, <3>1
        <3>2. CASE n # 0
            <4>1. n \in 1..N
                BY <1>1, <3>2
            <4> QED BY <1>7, <3>2, <4>1
        <3> HIDE DEF F
        <3> QED BY <3>1, <3>2
    <2> QED BY <1>5, <2>1
<1>9. f = F(f)
    <2> HIDE DEF F
    <2> QED BY <1>8
<1> HIDE DEF f
<1>10. f[0] = base
    <2> HIDE DEF N
    <2> QED BY <1>1, <1>9
<1>11. ASSUME NEW n \in 1..N PROVE f[n] = Step(n, f[n - 1])
    <2>1. n \in 0..N /\ n # 0
        BY <1>1
    <2> HIDE DEF N
    <2> QED BY <1>9, <2>1
<1>12. \A n \in 0..N : f[n] \in Seq(NerMarks)
    <2> DEFINE T == {n \in 0..N : f[n] \in Seq(NerMarks)}
    <2>1. 0 \in T
        <3> HIDE DEF N
        <3> QED BY <1>1, <1>2, <1>10
    <2>2. ASSUME NEW n \in 0..N - 1, n \in T PROVE n + 1 \in T
        <3>1. n + 1 \in 1..N /\ n + 1 \in 0..N /\ (n + 1) - 1 = n /\ f[n] \in Seq(NerMarks)
            BY <2>2, <1>1
        <3> HIDE DEF N
        <3>2. f[n + 1] = Step(n + 1, f[n])
            BY <3>1, <1>11
        <3> QED BY <3>1, <3>2, <1>3
    <2>3. 0..N \subseteq T
        <3> HIDE DEF T, N
        <3> QED BY <1>1, <2>1, <2>2, IntervalInduction
    <2> QED BY <2>3
<1>13. Thinning(f, s)
    BY <1>0, <1>10, <1>11, <1>12 DEF Thinning, Step, base
<1> QED BY <1>13

(* k stands for m: it is m, or m was dropped for it.                       *)
StandsForMark(k, m) == k.start <= m.start /\ (k = m \/ Meets(k, m))

LEMMA FirstsAre ==
    ASSUME PassageSize \in Nat, NEW s \in Sequenced
    PROVE  /\ FirstsOf(s) \in Seq(NerMarks)
           /\ ToSet(FirstsOf(s)) \subseteq ToSet(s)
           /\ \A m \in ToSet(s) : \E k \in ToSet(FirstsOf(s)) : StandsForMark(k, m)
<1> DEFINE N == Len(s)
<1>0. s \in Seq(NerMarks) /\ FromTheFront(s)
    BY DEF Sequenced
<1>1. PICK f : Thinning(f, s)
    BY <1>0, ThinningExists
<1>2. N \in Nat /\ N \in Int /\ 0 \in Int /\ \A n \in 1..N : s[n] \in NerMarks
    BY <1>0
<1>3. /\ \A n \in 0..N : f[n] \in Seq(NerMarks)
      /\ f[0] = <<>> /\ FirstsOf(s) = f[N]
      /\ \A n \in 1..N : f[n] = IF \E k \in ToSet(f[n - 1]) : Meets(k, s[n])
                                THEN f[n - 1] ELSE Append(f[n - 1], s[n])
    BY <1>1 DEF Thinning
<1>4. \A i, j \in 1..N : i < j => s[i].start <= s[j].start
    BY <1>0 DEF FromTheFront
<1>5. \A m \in ToSet(s) : \E n \in 1..N : m = s[n]
    BY <1>0, ToSetElements
<1>6. \A n \in 1..N : s[n] \in ToSet(s) /\ s[n].start \in Nat
    BY <1>0, <1>2, ToSetElements, MarkIs
<1> HIDE DEF N
<1> DEFINE Kept(n) == \A k \in ToSet(f[n]) : \E i \in 1..n : k = s[i]
           Stood(n) == \A i \in 1..n : \E k \in ToSet(f[n]) : StandsForMark(k, s[i])
           T == {n \in 0..N : Kept(n) /\ Stood(n)}
<1>7. 0 \in T
    <2>1. ToSet(f[0]) = {}
        BY <1>3 DEF ToSet
    <2> QED BY <2>1, <1>2
<1>8. ASSUME NEW n \in 0..N - 1, n \in T PROVE n + 1 \in T
    <2>1. n + 1 \in 1..N /\ n + 1 \in 0..N /\ (n + 1) - 1 = n /\ n \in 0..N
        BY <1>2
    <2>2. f[n] \in Seq(NerMarks) /\ s[n + 1] \in NerMarks /\ Kept(n) /\ Stood(n)
        BY <2>1, <1>2, <1>3, <1>8
    <2>3. f[n + 1] = IF \E k \in ToSet(f[n]) : Meets(k, s[n + 1]) THEN f[n] ELSE Append(f[n], s[n + 1])
        BY <2>1, <1>3
    <2>4. \A i \in 1..n + 1 : i \in 1..n \/ i = n + 1
        BY <2>1
    <2>5. \A i \in 1..n : i \in 1..n + 1 /\ i \in 1..N /\ i < n + 1
        BY <2>1, <1>2
    <2>6. n + 1 \in 1..n + 1
        BY <2>1
    <2>7. CASE \E k \in ToSet(f[n]) : Meets(k, s[n + 1])
        <3>1. f[n + 1] = f[n]
            BY <2>3, <2>7
        <3>2. PICK k \in ToSet(f[n]) : Meets(k, s[n + 1])
            BY <2>7
        <3>3. PICK i \in 1..n : k = s[i]
            BY <2>2
        <3>4. k.start <= s[n + 1].start
            BY <3>3, <2>1, <2>5, <1>4
        <3>5. StandsForMark(k, s[n + 1])
            BY <3>2, <3>4 DEF StandsForMark
        <3>6. Kept(n + 1)
            BY <3>1, <2>2, <2>5
        <3>7. Stood(n + 1)
            BY <3>1, <3>5, <2>2, <2>4
        <3> QED BY <3>6, <3>7, <2>1
    <2>8. CASE ~\E k \in ToSet(f[n]) : Meets(k, s[n + 1])
        <3>1. ToSet(f[n + 1]) = ToSet(f[n]) \cup {s[n + 1]}
            BY <2>2, <2>3, <2>8, ToSetAppend
        <3>2. StandsForMark(s[n + 1], s[n + 1])
            <4>1. s[n + 1].start \in Nat
                BY <2>1, <1>6
            <4> QED BY <4>1 DEF StandsForMark
        <3>3. Kept(n + 1)
            BY <3>1, <2>2, <2>5, <2>6
        <3>4. Stood(n + 1)
            BY <3>1, <3>2, <2>2, <2>4
        <3> QED BY <3>3, <3>4, <2>1
    <2> QED BY <2>7, <2>8
<1>9. 0..N \subseteq T
    <2> HIDE DEF T
    <2> QED BY <1>2, <1>7, <1>8, IntervalInduction
<1>10. N \in 0..N
    BY <1>2
<1>11. Kept(N) /\ Stood(N) /\ f[N] \in Seq(NerMarks)
    BY <1>3, <1>9, <1>10
<1> HIDE DEF T
<1>12. \A m \in ToSet(f[N]) : m \in ToSet(s)
    BY <1>6, <1>11
<1>13. \A m \in ToSet(s) : \E k \in ToSet(f[N]) : StandsForMark(k, m)
    BY <1>5, <1>11
<1> QED BY <1>3, <1>11, <1>12, <1>13

LEMMA DedupIs ==
    ASSUME PassageSize \in Nat, NEW s \in Seq(NerMarks)
    PROVE  /\ Dedup(s) \in Seq(NerMarks)
           /\ ToSet(Dedup(s)) \subseteq ToSet(s)
           /\ \A m \in ToSet(s) : \E k \in ToSet(Dedup(s)) : StandsForMark(k, m)
BY InOrderIs, FirstsAre DEF Dedup

LEMMA LimitIs ==
    ASSUME Passage, NEW b \in 0..PassageSize - 1
    PROVE  /\ Limit(b) \in b + 1..PassageSize /\ Limit(b) <= b + MaxChunk /\ Boundary(Limit(b))
           /\ \A p \in b..PassageSize : p <= b + MaxChunk /\ Boundary(p) => p <= Limit(b)
<1> DEFINE S == PassageSize
           m == Min({b + MaxChunk, S})
           T == {p \in b..m : Boundary(p)}
<1>1. S \in Nat /\ b \in Nat /\ b < S /\ MaxChunk \in Nat /\ MaxChunk >= 2
    BY PassageIs, ChunkAssumption
<1>2. m \in {b + MaxChunk, S} /\ m <= b + MaxChunk /\ m <= S
    <2> DEFINE N == b + MaxChunk + S
               U == {b + MaxChunk, S}
    <2>1. N \in Nat /\ U \in SUBSET (0..N) /\ U # {} /\ b + MaxChunk \in U /\ S \in U
        BY <1>1
    <2> HIDE DEF N, U
    <2>2. Min(U) \in U /\ \A x \in U : Min(U) <= x
        BY <2>1, OffsetBounds
    <2> QED BY <2>1, <2>2 DEF U
<1>3. Limit(b) = Max(T)
    BY DEF Limit, PassageSize
<1>4. /\ Boundary(S) /\ \A p \in 0..S - 1 : ~Boundary(p) => Boundary(p - 1)
    BY PassageIs
<1> HIDE DEF S, m
<1>5. m \in Nat /\ m <= S /\ m <= b + MaxChunk /\ (m = S \/ m = b + MaxChunk)
    BY <1>1, <1>2
<1>6. \E p \in T : p >= b + 1
    <2>1. CASE Boundary(b + 1)
        <3>1. b + 1 \in b..m
            BY <1>1, <1>5
        <3> QED BY <3>1, <2>1
    <2>2. CASE ~Boundary(b + 1)
        <3>1. b + 1 # S
            BY <2>2, <1>4
        <3>2. b + 2 <= S /\ b + 2 \in b..m /\ (b + 2) - 1 = b + 1
            BY <3>1, <1>1, <1>5
        <3>3. Boundary(b + 2)
            <4>1. CASE b + 2 = S
                BY <4>1, <1>4
            <4>2. CASE b + 2 # S
                <5>1. b + 2 \in 0..S - 1
                    BY <4>2, <3>2, <1>1
                <5> QED BY <5>1, <3>2, <2>2, <1>4
            <4> QED BY <4>1, <4>2
        <3>4. b + 2 \in T /\ b + 2 >= b + 1
            BY <3>2, <3>3, <1>1
        <3> QED BY <3>4
    <2> QED BY <2>1, <2>2
<1>7. T \in SUBSET (0..S) /\ T # {}
    BY <1>1, <1>5, <1>6
<1>8. Max(T) \in T /\ \A x \in T : x <= Max(T)
    <2> HIDE DEF T
    <2> QED BY <1>1, <1>7, OffsetBounds
<1> DEFINE l == Limit(b)
<1>9. l \in b..m /\ Boundary(l) /\ \A x \in T : x <= l
    BY <1>3, <1>8
<1> HIDE DEF l
<1>10. l \in b + 1..S /\ l <= b + MaxChunk
    <2>1. PICK p \in T : p >= b + 1
        BY <1>6
    <2>2. p <= l /\ p \in Nat
        BY <2>1, <1>9, <1>1
    <2> QED BY <2>1, <2>2, <1>9, <1>1, <1>5
<1>11. ASSUME NEW p \in b..S, p <= b + MaxChunk, Boundary(p) PROVE p <= l
    <2>1. p \in b..m
        BY <1>1, <1>5, <1>11
    <2> QED BY <2>1, <1>9, <1>11
<1> QED BY <1>9, <1>10, <1>11 DEF l, S

LEMMA SpacesBounds ==
    ASSUME Passage, NEW b \in Nat, NEW e \in 0..PassageSize, SpacesIn(b, e) # {}
    PROVE  /\ Min(SpacesIn(b, e)) \in b..e - 1 /\ Space(Min(SpacesIn(b, e)))
           /\ Max(SpacesIn(b, e)) \in b..e - 1 /\ Space(Max(SpacesIn(b, e)))
           /\ \A p \in SpacesIn(b, e) : p <= Max(SpacesIn(b, e))
<1> DEFINE T == SpacesIn(b, e)
<1>1. T \in SUBSET (0..PassageSize) /\ PassageSize \in Nat /\ \A p \in T : p \in b..e - 1 /\ Space(p)
    BY PassageIs DEF SpacesIn
<1> HIDE DEF T
<1>2. Min(T) \in T /\ Max(T) \in T /\ \A p \in T : p <= Max(T)
    BY <1>1, OffsetBounds DEF T
<1> QED BY <1>1, <1>2 DEF T

(* A chunk ends behind its beginning: between characters, before a space,  *)
(* or where no more fits.                                                  *)
LEMMA ChunkEndIs ==
    ASSUME Passage, NEW b \in 0..PassageSize - 1
    PROVE  /\ ChunkEnd(b) \in b + 1..PassageSize /\ Boundary(ChunkEnd(b))
           /\ \/ ChunkEnd(b) < PassageSize /\ Space(ChunkEnd(b))
              \/ /\ ChunkEnd(b) = Limit(b)
                 /\ ChunkEnd(b) < PassageSize => \A p \in b + 1..ChunkEnd(b) - 1 : ~Space(p)
<1> DEFINE l == Limit(b)
           s == SpacesIn(b, l)
           g == Max(s)
<1>1. l \in b + 1..PassageSize /\ Boundary(l) /\ PassageSize \in Nat /\ b \in Nat
    BY LimitIs, PassageIs
<1>2. s # {} => /\ g \in b..l - 1 /\ Space(g)
                /\ \A p \in s : p <= g
    BY <1>1, SpacesBounds
<1>3. ChunkEnd(b) = IF l < PassageSize /\ s # {} /\ g > b THEN g ELSE l
    BY DEF ChunkEnd, PassageSize
<1>4. \A p \in 0..PassageSize - 1 : Space(p) => Boundary(p)
    BY PassageIs
<1>5. \A p \in b..l - 1 : Space(p) => p \in s
    BY DEF SpacesIn
<1> HIDE DEF l, s, g
<1>6. CASE l < PassageSize /\ s # {} /\ g > b
    <2>1. ChunkEnd(b) = g /\ g \in b + 1..PassageSize /\ g < PassageSize /\ g \in 0..PassageSize - 1 /\ Space(g)
        BY <1>1, <1>2, <1>3, <1>6
    <2>2. Boundary(g)
        BY <2>1, <1>4
    <2> QED BY <2>1, <2>2
<1>7. CASE ~(l < PassageSize /\ s # {} /\ g > b)
    <2>1. ChunkEnd(b) = l
        BY <1>3, <1>7
    <2>2. ASSUME l < PassageSize, NEW p \in b + 1..l - 1, Space(p) PROVE FALSE
        <3>1. p \in b..l - 1 /\ p > b
            BY <1>1
        <3>2. p \in s
            BY <3>1, <2>2, <1>5
        <3>3. p <= g /\ g \in b..l - 1 /\ ~(g > b)
            BY <3>2, <2>2, <1>2, <1>7
        <3> QED BY <3>1, <3>3, <1>1
    <2> QED BY <2>1, <2>2, <1>1 DEF l
<1> QED BY <1>6, <1>7

LEMMA NextStartIs ==
    ASSUME Passage, NEW e \in 0..PassageSize, Boundary(e)
    PROVE  NextStart(e) \in 0..e
<1> DEFINE T == {p \in e - Overlap..e : Boundary(p)}
           from == IF e > Overlap THEN Min(T) ELSE e
           s == SpacesIn(from, e)
<1>1. e \in Nat /\ Overlap \in Nat /\ PassageSize \in Nat
    BY PassageIs, ChunkAssumption
<1>2. from \in 0..e
    <2>1. CASE e > Overlap
        <3>1. T \in SUBSET (0..e) /\ T # {}
            BY <1>1, <2>1
        <3>2. Min(T) \in T
            <4> HIDE DEF T
            <4> QED BY <3>1, <1>1, OffsetBounds
        <3> QED BY <3>1, <3>2, <2>1
    <2>2. CASE ~(e > Overlap)
        BY <2>2, <1>1
    <2> QED BY <2>1, <2>2
<1>3. NextStart(e) = IF s # {} THEN Min(s) + 1 ELSE e
    BY DEF NextStart
<1> HIDE DEF from
<1>4. from \in Nat
    BY <1>1, <1>2
<1>5. s # {} => Min(s) \in from..e - 1
    BY <1>4, SpacesBounds
<1> HIDE DEF s
<1>6. s # {} => Min(s) + 1 \in 0..e
    BY <1>1, <1>4, <1>5
<1> QED BY <1>1, <1>3, <1>6

-----------------------------------------------------------------------------
(* The words that fit a chunk: whole in one of cs, or from b on.           *)
Covered(ws, cs, b) ==
    \A k \in 1..Len(ws) : ws[k][2] - ws[k][1] < MaxChunk =>
      (\E c \in ToSet(cs) : Within(ws[k][1], ws[k][2], c)) \/ b <= ws[k][1]

(* No word that fits a chunk lies across its end.                          *)
LEMMA NotAcross ==
    ASSUME Passage, NEW b \in 0..PassageSize - 1, NEW w, IsWord(w), b <= w[1], w[2] - w[1] < MaxChunk
    PROVE  w[2] <= ChunkEnd(b) \/ ChunkEnd(b) <= w[1]
<1> DEFINE e == ChunkEnd(b)
           p == w[1]
           q == w[2]
           l == Limit(b)
<1>1. PassageSize \in Nat /\ b \in Nat /\ MaxChunk \in Nat
    BY PassageIs, ChunkAssumption
<1>2. /\ p \in 0..PassageSize - 1 /\ q \in p + 1..PassageSize
      /\ \A x \in p..q - 1 : ~Space(x)
      /\ p = 0 \/ Space(p - 1)
      /\ q = PassageSize \/ Space(q)
    BY DEF IsWord
<1>3. e \in b + 1..PassageSize
      /\ \/ e < PassageSize /\ Space(e)
         \/ /\ e = l
            /\ e < PassageSize => \A x \in b + 1..e - 1 : ~Space(x)
    BY ChunkEndIs
<1>4. \A x \in b..PassageSize : x <= b + MaxChunk /\ Boundary(x) => x <= l
    BY LimitIs
<1>5. Boundary(q)
    <2>1. Boundary(PassageSize) /\ \A x \in 0..PassageSize - 1 : Space(x) => Boundary(x)
        BY PassageIs
    <2>2. q = PassageSize \/ q \in 0..PassageSize - 1
        BY <1>1, <1>2
    <2> QED BY <2>1, <2>2, <1>2
<1>6. b <= p /\ q - p < MaxChunk
    OBVIOUS
<1> HIDE DEF e, p, q, l
<1>7. ASSUME p < e, e < q PROVE FALSE
    <2>1. e \in p..q - 1 /\ e < PassageSize
        BY <1>1, <1>2, <1>3, <1>7
    <2>2. ~Space(e)
        BY <2>1, <1>2
    <2>3. e = l /\ \A x \in b + 1..e - 1 : ~Space(x)
        BY <2>1, <2>2, <1>3
    <2>4. p <= b + 1
        <3> SUFFICES ASSUME ~(p <= b + 1) PROVE FALSE
            OBVIOUS
        <3>1. p - 1 \in b + 1..e - 1 /\ p # 0
            BY <1>1, <1>2, <1>3, <1>7
        <3> QED BY <3>1, <2>3, <1>2
    <2>5. q \in b..PassageSize /\ q <= b + MaxChunk
        BY <2>4, <1>1, <1>2, <1>6
    <2>6. q <= l
        BY <2>5, <1>4, <1>5
    <2> QED BY <2>3, <2>6, <1>1, <1>2, <1>3, <1>7
<1>8. e \in Int /\ p \in Int /\ q \in Int
    BY <1>1, <1>2, <1>3
<1>9. q <= e \/ e <= p
    BY <1>7, <1>8
<1> QED BY <1>9 DEF e, p, q

LEMMA ChunkCovers ==
    ASSUME Passage, NEW b \in 0..PassageSize - 1, NEW cs \in Seq((0..PassageSize) \X (0..PassageSize)), Covered(Words, cs, b)
    PROVE  /\ Append(cs, <<b, ChunkEnd(b)>>) \in Seq((0..PassageSize) \X (0..PassageSize))
           /\ Covered(Words, Append(cs, <<b, ChunkEnd(b)>>), ChunkEnd(b))
           /\ ChunkEnd(b) = PassageSize => \A n : Covered(Words, Append(cs, <<b, ChunkEnd(b)>>), n)
<1> DEFINE e == ChunkEnd(b)
           c == <<b, e>>
           P == (0..PassageSize) \X (0..PassageSize)
           ds == Append(cs, c)
<1>1. e \in b + 1..PassageSize /\ PassageSize \in Nat /\ b \in Nat
    BY ChunkEndIs, PassageIs
<1> HIDE DEF e
<1>2. c \in P /\ c[1] = b /\ c[2] = e
    BY <1>1
<1> HIDE DEF c
<1>3. ds \in Seq(P) /\ ToSet(ds) = ToSet(cs) \cup {c}
    <2>1. cs \in Seq(P)
        OBVIOUS
    <2> HIDE DEF P
    <2> QED BY <2>1, <1>2, ToSetAppend
<1> HIDE DEF ds
<1>4. ASSUME NEW k \in 1..Len(Words), Words[k][2] - Words[k][1] < MaxChunk
      PROVE  \/ \E d \in ToSet(ds) : Within(Words[k][1], Words[k][2], d)
             \/ e <= Words[k][1] /\ e # PassageSize
    <2> DEFINE w == Words[k]
    <2>1. IsWord(w)
        BY WordsAre
    <2>2. w[1] \in Nat /\ w[2] \in Nat /\ w[2] <= PassageSize /\ w[1] < PassageSize
        BY <2>1, <1>1 DEF IsWord
    <2>3. (\E d \in ToSet(cs) : Within(w[1], w[2], d)) \/ b <= w[1]
        BY <1>4 DEF Covered
    <2>4. w[2] - w[1] < MaxChunk
        BY <1>4
    <2> HIDE DEF w
    <2>5. CASE \E d \in ToSet(cs) : Within(w[1], w[2], d)
        BY <2>5, <1>3 DEF w
    <2>6. CASE b <= w[1]
        <3>1. w[2] <= e \/ e <= w[1]
            BY <2>1, <2>4, <2>6, NotAcross DEF e
        <3>2. CASE w[2] <= e
            <4>1. Within(w[1], w[2], c)
                BY <3>2, <2>6, <1>2 DEF Within
            <4> QED BY <4>1, <1>3 DEF w
        <3>3. CASE e <= w[1]
            <4>1. e # PassageSize
                BY <3>3, <2>2, <1>1
            <4> QED BY <4>1, <3>3 DEF w
        <3> QED BY <3>1, <3>2, <3>3
    <2> QED BY <2>3, <2>5, <2>6
<1>5. Covered(Words, ds, e)
    BY <1>4 DEF Covered
<1>6. e = PassageSize => \A n : Covered(Words, ds, n)
    BY <1>4 DEF Covered
<1> QED BY <1>3, <1>5, <1>6 DEF ds, c, e

LEMMA CoveredFrom ==
    ASSUME Passage, NEW cs, NEW b \in Nat, NEW n \in 0..b, Covered(Words, cs, b)
    PROVE  Covered(Words, cs, n)
<1> SUFFICES ASSUME NEW k \in 1..Len(Words), Words[k][2] - Words[k][1] < MaxChunk
             PROVE  (\E c \in ToSet(cs) : Within(Words[k][1], Words[k][2], c)) \/ n <= Words[k][1]
    BY DEF Covered
<1>1. (\E c \in ToSet(cs) : Within(Words[k][1], Words[k][2], c)) \/ b <= Words[k][1]
    BY DEF Covered
<1>2. Words[k][1] \in Nat
    BY WordsInOrder
<1> QED BY <1>1, <1>2

Exact(e) == [type |-> e.type, start |-> First(e), end |-> Final(e)]

(* What n chunks yield: marks of the entities they hold.                   *)
ReportedTo(ms, cs, n) ==
    /\ ms \in Seq(NerMarks)
    /\ \A m \in ToSet(ms) : \E e \in entities, c \in ToSet(cs) : SeenOf(m, e, c)
    /\ \A j \in 1..n, e \in entities : Within(First(e), Final(e), cs[j]) => Exact(e) \in ToSet(ms)

(* What an entity that is whole in a chunk is reported as.                 *)
ReportedWhole(ms, cs) ==
    \A e \in entities :
      (\E c \in ToSet(cs) : Within(First(e), Final(e), c)) =>
        \E m \in ToSet(ms) :
          /\ m.type = e.type
          /\ m.start = First(e)
          /\ m.end = Final(e) \/ \E c \in ToSet(cs) : Cuts(c, First(e), Final(e))

LEMMA ChunkReported ==
    ASSUME Passage, Entities, NEW cs \in Seq((0..PassageSize) \X (0..PassageSize)), NEW n \in Nat, n + 1 <= Len(cs),
           NEW ms, ReportedTo(ms, cs, n)
    PROVE  ReportedTo(ms \o Decode(WordsIn(cs[n + 1][1], cs[n + 1][2])), cs, n + 1)
<1> DEFINE c == cs[n + 1]
           d == Decode(WordsIn(c[1], c[2]))
           u == ms \o d
<1>1. n + 1 \in 1..Len(cs) /\ c \in (0..PassageSize) \X (0..PassageSize)
    BY PassageIs
<1>2. c \in ToSet(cs)
    BY <1>1, ToSetElements
<1> HIDE DEF c
<1>3. /\ d \in Seq(NerMarks)
      /\ \A m \in ToSet(d) : \E e \in entities : SeenOf(m, e, c)
      /\ \A e \in entities : Within(First(e), Final(e), c) => Exact(e) \in ToSet(d)
    BY <1>1, DecodedIs DEF Exact
<1> HIDE DEF d
<1>4. /\ ms \in Seq(NerMarks)
      /\ \A m \in ToSet(ms) : \E e \in entities, x \in ToSet(cs) : SeenOf(m, e, x)
      /\ \A j \in 1..n, e \in entities : Within(First(e), Final(e), cs[j]) => Exact(e) \in ToSet(ms)
    BY DEF ReportedTo
<1>5. ToSet(u) = ToSet(ms) \cup ToSet(d) /\ u \in Seq(NerMarks)
    BY <1>3, <1>4, ToSetConcat
<1> HIDE DEF u
<1>6. \A m \in ToSet(u) : \E e \in entities, x \in ToSet(cs) : SeenOf(m, e, x)
    BY <1>2, <1>3, <1>4, <1>5
<1>7. ASSUME NEW j \in 1..n + 1, NEW e \in entities, Within(First(e), Final(e), cs[j])
      PROVE  Exact(e) \in ToSet(u)
    <2>1. j \in 1..n \/ j = n + 1
        OBVIOUS
    <2>2. CASE j \in 1..n
        BY <2>2, <1>4, <1>5, <1>7
    <2>3. CASE j = n + 1
        <3>1. Within(First(e), Final(e), c)
            BY <2>3, <1>7 DEF c
        <3> QED BY <3>1, <1>3, <1>5
    <2> QED BY <2>1, <2>2, <2>3
<1> QED BY <1>5, <1>6, <1>7 DEF ReportedTo, u, d, c

(* Entities are apart: a mark of one never meets another.                  *)
LEMMA MarksApart ==
    ASSUME Passage, Entities, NEW e \in entities, NEW f \in entities, NEW c, NEW k \in NerMarks,
           SeenOf(k, f, c), Meets(k, Exact(e)), k.start <= First(e)
    PROVE  e = f
<1> SUFFICES ASSUME e # f PROVE FALSE
    OBVIOUS
<1>1. e.to < f.from \/ f.to < e.from
    BY DEF Entities
<1>2. /\ WordOrder
      /\ e.from \in 1..Len(Words) /\ e.to \in 1..Len(Words)
      /\ f.from \in 1..Len(Words) /\ f.to \in 1..Len(Words)
    BY WordsInOrder, BoundsOf
<1>3. Final(e) < First(f) \/ Final(f) < First(e)
    BY <1>1, <1>2 DEF WordOrder, First, Final
<1>4. /\ First(e) \in Nat /\ Final(e) \in Nat /\ First(e) < Final(e)
      /\ First(f) \in Nat /\ Final(f) \in Nat /\ First(f) < Final(f)
    BY BoundsOf
<1>5. k.start \in Nat /\ k.end \in Nat
    BY PassageIs, MarkIs
<1>6. First(f) <= k.start /\ k.end <= Final(f)
    BY DEF SeenOf
<1>7. First(e) <= k.end
    BY DEF Meets, Exact
<1>8. k.start <= First(e)
    OBVIOUS
<1> QED BY <1>3, <1>4, <1>5, <1>6, <1>7, <1>8

LEMMA MergedWhole ==
    ASSUME Passage, Entities, NEW cs \in Seq((0..PassageSize) \X (0..PassageSize)),
           NEW ms, ReportedTo(ms, cs, Len(cs))
    PROVE  ReportedWhole(ms, cs) /\ ReportedWhole(Dedup(ms), cs)
<1>1. /\ ms \in Seq(NerMarks)
      /\ \A m \in ToSet(ms) : \E e \in entities, c \in ToSet(cs) : SeenOf(m, e, c)
      /\ \A j \in 1..Len(cs), e \in entities :
           Within(First(e), Final(e), cs[j]) => Exact(e) \in ToSet(ms)
    BY DEF ReportedTo
<1>2. \A c \in ToSet(cs) : \E j \in 1..Len(cs) : c = cs[j]
    BY ToSetElements
<1>3. \A e \in entities :
        (\E c \in ToSet(cs) : Within(First(e), Final(e), c)) => Exact(e) \in ToSet(ms)
    BY <1>1, <1>2
<1>4. \A e : Exact(e).type = e.type /\ Exact(e).start = First(e) /\ Exact(e).end = Final(e)
    BY DEF Exact
<1>5. ReportedWhole(ms, cs)
    BY <1>3, <1>4 DEF ReportedWhole
<1>6. /\ Dedup(ms) \in Seq(NerMarks)
      /\ ToSet(Dedup(ms)) \subseteq ToSet(ms)
      /\ \A m \in ToSet(ms) : \E k \in ToSet(Dedup(ms)) : StandsForMark(k, m)
    BY <1>1, PassageIs, DedupIs
<1>7. ASSUME NEW e \in entities, NEW d \in ToSet(cs), Within(First(e), Final(e), d)
      PROVE  \E m \in ToSet(Dedup(ms)) :
               /\ m.type = e.type
               /\ m.start = First(e)
               /\ m.end = Final(e) \/ \E c \in ToSet(cs) : Cuts(c, First(e), Final(e))
    <2>1. PICK k \in ToSet(Dedup(ms)) : StandsForMark(k, Exact(e))
        BY <1>3, <1>6, <1>7
    <2>2. k.start <= First(e) /\ (k = Exact(e) \/ Meets(k, Exact(e)))
        BY <2>1, <1>4 DEF StandsForMark
    <2>3. CASE k = Exact(e)
        BY <2>3, <1>4
    <2>4. CASE Meets(k, Exact(e))
        <3>1. k \in ToSet(ms) /\ k \in NerMarks
            BY <1>1, <1>6, ToSetElements
        <3>2. PICK f \in entities, c \in ToSet(cs) : SeenOf(k, f, c)
            BY <3>1, <1>1
        <3>3. e = f
            BY <2>2, <2>4, <3>1, <3>2, MarksApart
        <3>4. /\ k.type = e.type /\ First(e) <= k.start /\ c[1] <= k.start /\ k.start < k.end
              /\ k.end <= Final(e) /\ k.end <= c[2] /\ (k.end = Final(e) \/ c[2] < Final(e))
            BY <3>2, <3>3 DEF SeenOf
        <3>5. k.start \in Nat /\ k.end \in Nat /\ First(e) \in Nat /\ Final(e) \in Nat
            BY <3>1, PassageIs, MarkIs, BoundsOf
        <3>6. c[1] \in Nat /\ c[2] \in Nat
            <4>1. c \in (0..PassageSize) \X (0..PassageSize) /\ PassageSize \in Nat
                BY PassageIs, ToSetElements
            <4> QED BY <4>1
        <3>7. k.start = First(e)
            BY <2>2, <3>4, <3>5
        <3> DEFINE x == k.start
                   y == k.end
                   z == Final(e)
                   p == c[1]
                   q == c[2]
        <3>8. /\ x \in Nat /\ y \in Nat /\ z \in Nat /\ p \in Nat /\ q \in Nat
              /\ p <= x /\ x < y /\ y <= z /\ y <= q /\ (y = z \/ q < z) /\ First(e) = x
            BY <3>4, <3>5, <3>6, <3>7
        <3> HIDE DEF x, y, z, p, q
        <3>9. y = z \/ (p < z /\ x < q /\ ~(z <= q))
            BY <3>8
        <3>10. y = z \/ Cuts(c, First(e), Final(e))
            BY <3>8, <3>9 DEF Cuts, Within, x, z, p, q
        <3> QED BY <3>4, <3>7, <3>10 DEF y, z
    <2> QED BY <2>2, <2>3, <2>4
<1>8. ReportedWhole(Dedup(ms), cs)
    BY <1>7 DEF ReportedWhole
<1> QED BY <1>5, <1>8

-----------------------------------------------------------------------------
NerInv ==
    /\ Passage /\ Entities
    /\ chunks \in Seq((0..PassageSize) \X (0..PassageSize))
    /\ nerStage = "cutting" =>
         /\ chunkStart \in 0..PassageSize - 1 /\ inferred = 0 /\ nerMatches = <<>>
         /\ Covered(Words, chunks, chunkStart)
    /\ nerStage = "scanning" =>
         /\ inferred \in Nat /\ inferred < Len(chunks)
         /\ Covered(Words, chunks, PassageSize)
         /\ ReportedTo(nerMatches, chunks, inferred)
    /\ nerStage = "done" => ReportedWhole(nerMatches, chunks)

LEMMA EntitiesOfInv == NerInv => EntitiesAreReported
<1> SUFFICES ASSUME NerInv PROVE EntitiesAreReported
    OBVIOUS
<1>1. Passage /\ Entities /\ chunks \in Seq((0..PassageSize) \X (0..PassageSize))
    BY DEF NerInv
<1>2. WordsStayWhole
    <2> SUFFICES ASSUME nerStage = "scanning", NEW k \in DOMAIN Words,
                        Words[k][2] - Words[k][1] < MaxChunk
                 PROVE  \E c \in ToSet(chunks) : Within(Words[k][1], Words[k][2], c)
        BY DEF WordsStayWhole
    <2>1. k \in 1..Len(Words)
        BY <1>1, WordsAre
    <2>2. (\E c \in ToSet(chunks) : Within(Words[k][1], Words[k][2], c)) \/ PassageSize <= Words[k][1]
        BY <2>1 DEF NerInv, Covered
    <2>3. Words[k][1] \in 0..PassageSize - 1 /\ PassageSize \in Nat
        BY <2>1, <1>1, WordsAre, PassageIs DEF IsWord
    <2> QED BY <2>2, <2>3
<1>3. DecodedAsLabelled
    <2> DEFINE c == chunks[inferred + 1]
               From(e) == Max({First(e), c[1]})
               Upto(e) == Min({Final(e), c[2]})
    <2> SUFFICES ASSUME nerStage = "scanning", NEW m \in ToSet(Decode(WordsIn(c[1], c[2])))
                 PROVE  \E e \in entities : m.type = e.type /\ From(e) <= m.start /\ m.end <= Upto(e)
        <3>1. \A e : /\ [type |-> e.type, start |-> From(e), end |-> Upto(e)].type = e.type
                     /\ [type |-> e.type, start |-> From(e), end |-> Upto(e)].start = From(e)
                     /\ [type |-> e.type, start |-> From(e), end |-> Upto(e)].end = Upto(e)
            OBVIOUS
        <3> HIDE DEF From, Upto
        <3>2. nerStage = "scanning" =>
                \A m \in ToSet(Decode(WordsIn(c[1], c[2]))) : \E e \in entities :
                  m.type = e.type /\ From(e) <= m.start /\ m.end <= Upto(e)
            OBVIOUS
        <3> QED BY <3>1, <3>2 DEF DecodedAsLabelled, From, Upto
    <2>1. inferred \in Nat /\ inferred < Len(chunks)
        BY DEF NerInv
    <2>2. c \in (0..PassageSize) \X (0..PassageSize) /\ PassageSize \in Nat
        BY <2>1, <1>1, PassageIs
    <2> HIDE DEF c
    <2>3. PICK e \in entities : SeenOf(m, e, c)
        BY <2>2, <1>1, DecodedIs
    <2>4. /\ m.type = e.type
          /\ First(e) <= m.start /\ c[1] <= m.start /\ m.end <= Final(e) /\ m.end <= c[2]
        BY <2>3 DEF SeenOf
    <2>5. First(e) \in 0..PassageSize /\ Final(e) \in 0..PassageSize /\ c[1] \in 0..PassageSize /\ c[2] \in 0..PassageSize
        BY <2>2, <1>1, BoundsOf
    <2>6. \A x, y \in 0..PassageSize : Max({x, y}) \in {x, y} /\ Min({x, y}) \in {x, y}
        <3> SUFFICES ASSUME NEW x \in 0..PassageSize, NEW y \in 0..PassageSize
                     PROVE  Max({x, y}) \in {x, y} /\ Min({x, y}) \in {x, y}
            OBVIOUS
        <3> DEFINE T == {x, y}
        <3>1. T \in SUBSET (0..PassageSize) /\ T # {}
            OBVIOUS
        <3> HIDE DEF T
        <3>2. Max(T) \in T /\ Min(T) \in T
            BY <3>1, <2>2, OffsetBounds
        <3> QED BY <3>2 DEF T
    <2>7. From(e) <= m.start /\ m.end <= Upto(e)
        <3>1. From(e) \in {First(e), c[1]} /\ Upto(e) \in {Final(e), c[2]}
            BY <2>5, <2>6
        <3> HIDE DEF From, Upto
        <3> QED BY <3>1, <2>4
    <2> QED BY <2>4, <2>7
<1>4. WholeIsReported
    BY DEF NerInv, WholeIsReported, ReportedWhole
<1> QED BY <1>2, <1>3, <1>4 DEF EntitiesAreReported

-----------------------------------------------------------------------------
(* The words of a text.                                                    *)
WordsOf(text) ==
    LET starts == Those([i \in DOMAIN text |-> i - 1],
                        {p \in 0..Len(text) - 1 :
                           ~(text[p + 1] = " ") /\ (p = 0 \/ text[(p - 1) + 1] = " ")})
    IN  [k \in DOMAIN starts |->
          <<starts[k], Min({q \in starts[k] + 1..Len(text) : q = Len(text) \/ text[q + 1] = " "})>>]

(* The text and its words stay.                                            *)
LEMMA PassageStays ==
    ASSUME passage' = passage, entities' = entities
    PROVE  /\ PassageSize' = PassageSize /\ Words' = Words
           /\ (Passage => Passage') /\ (Entities => Entities')
           /\ \A e : First(e)' = First(e) /\ Final(e)' = Final(e)
<1>1. Words = WordsOf(passage)
    BY DEF Words, WordsIn, StartsIn, EndIn, Space, WordsOf
<1>2. Words' = WordsOf(passage')
    BY DEF Words, WordsIn, StartsIn, EndIn, Space, WordsOf
<1>3. PassageSize' = PassageSize
    BY DEF PassageSize
<1>5. Words' = Words
    BY <1>1, <1>2
<1>6. Passage => Passage'
    BY DEF Passage, WellFormed
<1>7. Entities => Entities'
    BY <1>5 DEF Entities
<1>8. \A e : First(e)' = First(e) /\ Final(e)' = Final(e)
    BY <1>5 DEF First, Final
<1> QED BY <1>3, <1>5, <1>6, <1>7, <1>8

LEMMA NerInitInv == NerInit => NerInv
<1> SUFFICES ASSUME NerInit PROVE NerInv
    OBVIOUS
<1>1. Passage
    <2> DEFINE X == {" ", "x", "(", ")"}
    <2>1. passage \in BoundedSeq(X, MaxBytes) /\ passage # <<>> /\ WellFormed(passage)
        BY DEF NerInit
    <2> HIDE DEF X
    <2>2. passage \in Seq(X)
        BY <2>1, ChunkAssumption, BoundedSeqIs
    <2> QED BY <2>1, <2>2 DEF Passage, X
<1>2. Entities
    <2> DEFINE n == Len(Words)
               spans == {e \in [type : EntityTypes, from : 1..n, to : 1..n] : e.from <= e.to}
    <2>1. PICK e \in spans, f \in spans : (e = f \/ e.to < f.from) /\ entities = {e, f}
        BY DEF NerInit
    <2>2. n \in Nat
        BY <1>1, WordsAre
    <2> HIDE DEF n
    <2>3. \A g \in spans : g.type \in EntityTypes /\ g.from \in 1..n /\ g.to \in g.from..n
        BY <2>2
    <2> HIDE DEF spans
    <2>4. \A g, h \in entities : g = h \/ g.to < h.from \/ h.to < g.from
        BY <2>1
    <2>5. \A g \in entities : g \in spans
        BY <2>1
    <2> QED BY <2>3, <2>4, <2>5 DEF Entities, n
<1>3. chunkStart = 0 /\ chunks = <<>> /\ nerStage = "cutting" /\ inferred = 0 /\ nerMatches = <<>>
    BY DEF NerInit
<1>4. chunks \in Seq((0..PassageSize) \X (0..PassageSize))
    BY <1>3
<1>5. chunkStart \in 0..PassageSize - 1
    BY <1>1, <1>3, PassageIs
<1>6. Covered(Words, chunks, chunkStart)
    <2>1. \A k \in 1..Len(Words) : Words[k][1] \in Nat
        BY <1>1, WordsInOrder
    <2> QED BY <2>1, <1>3 DEF Covered
<1> QED BY <1>1, <1>2, <1>3, <1>4, <1>5, <1>6 DEF NerInv

LEMMA CutInv == NerInv /\ CutChunk => NerInv'
<1> SUFFICES ASSUME NerInv, CutChunk PROVE NerInv'
    OBVIOUS
<1> DEFINE b == chunkStart
           e == ChunkEnd(b)
           ds == Append(chunks, <<b, e>>)
           P == (0..PassageSize) \X (0..PassageSize)
<1>1. /\ nerStage = "cutting"
      /\ chunks' = ds
      /\ passage' = passage /\ entities' = entities /\ inferred' = inferred /\ nerMatches' = nerMatches
      /\ IF e = Len(passage)
         THEN nerStage' = "scanning" /\ chunkStart' = chunkStart
         ELSE chunkStart' = NextStart(e) /\ nerStage' = nerStage
    BY DEF CutChunk
<1>2. /\ Passage /\ Entities /\ chunks \in Seq(P)
      /\ b \in 0..PassageSize - 1 /\ inferred = 0 /\ nerMatches = <<>>
      /\ Covered(Words, chunks, b)
    BY <1>1 DEF NerInv
<1>3. PassageSize' = PassageSize /\ Words' = Words /\ Passage' /\ Entities'
    BY <1>1, <1>2, PassageStays
<1>4. e \in b + 1..PassageSize /\ Boundary(e) /\ PassageSize \in Nat
    <2> HIDE DEF b
    <2> QED BY <1>2, ChunkEndIs, PassageIs
<1>5. ds \in Seq(P) /\ Covered(Words, ds, e) /\ (e = PassageSize => \A n : Covered(Words, ds, n))
    <2> HIDE DEF b
    <2> QED BY <1>2, ChunkCovers
<1> HIDE DEF ds, e, b, P
<1>6. chunks' \in Seq((0..PassageSize') \X (0..PassageSize'))
    BY <1>1, <1>3, <1>5 DEF P
<1>7. CASE e = PassageSize
    <2>1. nerStage' = "scanning"
        BY <1>1, <1>7 DEF PassageSize
    <2>2. Covered(Words', chunks', PassageSize')
        BY <1>1, <1>3, <1>5, <1>7
    <2>3. Len(chunks') > 0
        <3>1. ds = Append(chunks, <<b, e>>)
            BY DEF ds, b, e
        <3> QED BY <3>1, <1>1, <1>2
    <2>4. inferred' = 0 /\ nerMatches' = <<>>
        BY <1>1, <1>2
    <2>5. ReportedTo(nerMatches, chunks, inferred)'
        <3>1. nerMatches' \in Seq(NerMarks')
            BY <2>4
        <3>2. ToSet(nerMatches') = {}
            BY <2>4 DEF ToSet
        <3>3. 1..inferred' = {}
            BY <2>4
        <3> QED BY <3>1, <3>2, <3>3 DEF ReportedTo
    <2>6. inferred' \in Nat /\ inferred' < Len(chunks')
        BY <2>3, <2>4
    <2> QED BY <1>3, <1>6, <2>1, <2>2, <2>5, <2>6 DEF NerInv, Covered
<1>8. CASE e # PassageSize
    <2>1. chunkStart' = NextStart(e) /\ nerStage' = "cutting"
        BY <1>1, <1>8 DEF PassageSize
    <2>2. b \in Nat /\ e \in 0..PassageSize /\ e \in Nat /\ e < PassageSize
        BY <1>2, <1>4, <1>8
    <2>3. NextStart(e) \in 0..e
        BY <1>2, <1>4, <2>2, NextStartIs
    <2>4. Covered(Words, ds, NextStart(e))
        BY <1>2, <1>5, <2>2, <2>3, CoveredFrom
    <2>5. chunkStart' \in 0..PassageSize' - 1
        BY <2>1, <2>2, <2>3, <1>3, <1>4
    <2>6. Covered(Words', chunks', chunkStart')
        BY <1>1, <1>3, <2>1, <2>4
    <2>7. inferred' = 0 /\ nerMatches' = <<>>
        BY <1>1, <1>2
    <2> QED BY <1>3, <1>6, <2>1, <2>5, <2>6, <2>7 DEF NerInv, Covered
<1> QED BY <1>7, <1>8

(* What was reported of the text stays true while the text does.           *)
LEMMA ReportsStay ==
    ASSUME passage' = passage, entities' = entities, NEW ms, NEW cs, NEW n
    PROVE  /\ ReportedTo(ms, cs, n) => ReportedTo(ms, cs, n)'
           /\ ReportedWhole(ms, cs) => ReportedWhole(ms, cs)'
<1>1. PassageSize' = PassageSize /\ \A e : First(e)' = First(e) /\ Final(e)' = Final(e)
    BY PassageStays
<1>2. NerMarks' = NerMarks
    BY <1>1 DEF NerMarks
<1>3. \A e : Exact(e)' = Exact(e)
    BY <1>1 DEF Exact
<1>4. \A m, e, c : SeenOf(m, e, c) => SeenOf(m, e, c)'
    BY <1>1 DEF SeenOf
<1>5. ReportedTo(ms, cs, n) => ReportedTo(ms, cs, n)'
    <2> SUFFICES ASSUME ReportedTo(ms, cs, n) PROVE ReportedTo(ms, cs, n)'
        OBVIOUS
    <2>1. ms \in Seq(NerMarks)'
        BY <1>2 DEF ReportedTo
    <2>2. \A m \in ToSet(ms) : \E e \in entities', c \in ToSet(cs) : SeenOf(m, e, c)'
        BY <1>4 DEF ReportedTo
    <2>3. \A j \in 1..n, e \in entities' : Within(First(e)', Final(e)', cs[j]) => Exact(e)' \in ToSet(ms)
        BY <1>1, <1>3 DEF ReportedTo
    <2> QED BY <2>1, <2>2, <2>3 DEF ReportedTo
<1>6. ReportedWhole(ms, cs) => ReportedWhole(ms, cs)'
    BY <1>1 DEF ReportedWhole
<1> QED BY <1>5, <1>6

LEMMA InferInv == NerInv /\ Infer => NerInv'
<1> SUFFICES ASSUME NerInv, Infer PROVE NerInv'
    OBVIOUS
<1> DEFINE n == inferred
           c == chunks[n + 1]
           found == nerMatches \o Decode(WordsIn(c[1], c[2]))
           P == (0..PassageSize) \X (0..PassageSize)
<1>1. /\ nerStage = "scanning"
      /\ inferred' = n + 1
      /\ passage' = passage /\ entities' = entities /\ chunkStart' = chunkStart /\ chunks' = chunks
      /\ IF n + 1 < Len(chunks)
         THEN nerMatches' = found /\ nerStage' = nerStage
         ELSE /\ nerMatches' = IF Len(passage) > MaxChunk THEN Dedup(found) ELSE found
              /\ nerStage' = "done"
    BY DEF Infer
<1>2. /\ Passage /\ Entities /\ chunks \in Seq(P)
      /\ n \in Nat /\ n < Len(chunks)
      /\ Covered(Words, chunks, PassageSize)
      /\ ReportedTo(nerMatches, chunks, n)
    BY <1>1 DEF NerInv
<1>3. PassageSize' = PassageSize /\ Words' = Words /\ Passage' /\ Entities'
    BY <1>1, <1>2, PassageStays
<1>4. ReportedTo(found, chunks, n + 1)
    <2>1. n + 1 <= Len(chunks)
        BY <1>2
    <2> HIDE DEF n
    <2> QED BY <2>1, <1>2, ChunkReported
<1> HIDE DEF n, found, P
<1>5. chunks' \in Seq((0..PassageSize') \X (0..PassageSize'))
    BY <1>1, <1>2, <1>3 DEF P
<1>6. CASE n + 1 < Len(chunks)
    <2>1. nerMatches' = found /\ nerStage' = "scanning"
        BY <1>1, <1>6
    <2>2. \A ms, cs, k : ReportedTo(ms, cs, k) => ReportedTo(ms, cs, k)'
        BY <1>1, ReportsStay
    <2>3. ReportedTo(nerMatches, chunks, inferred)'
        BY <2>1, <2>2, <1>1, <1>4
    <2>4. inferred' \in Nat /\ inferred' < Len(chunks')
        BY <1>1, <1>2, <1>6
    <2>5. Covered(Words, chunks, PassageSize)'
        BY <1>1, <1>2, <1>3 DEF Covered
    <2> QED BY <1>3, <1>5, <2>1, <2>3, <2>4, <2>5 DEF NerInv
<1>7. CASE ~(n + 1 < Len(chunks))
    <2>1. /\ nerMatches' = IF Len(passage) > MaxChunk THEN Dedup(found) ELSE found
          /\ nerStage' = "done"
        BY <1>1, <1>7
    <2>2. n + 1 = Len(chunks)
        <3>1. Len(chunks) \in Nat
            BY <1>2
        <3> QED BY <3>1, <1>2, <1>7
    <2>3. ReportedWhole(found, chunks) /\ ReportedWhole(Dedup(found), chunks)
        BY <1>2, <1>4, <2>2, MergedWhole DEF P
    <2>4. \A ms, cs : ReportedWhole(ms, cs) => ReportedWhole(ms, cs)'
        BY <1>1, ReportsStay
    <2>5. ReportedWhole(nerMatches, chunks)'
        BY <2>1, <2>3, <2>4, <1>1
    <2> QED BY <1>3, <1>5, <2>1, <2>5 DEF NerInv
<1> QED BY <1>6, <1>7

LEMMA NerStepInv == NerInv /\ [NerNext]_nerVars => NerInv'
<1> SUFFICES ASSUME NerInv, [NerNext]_nerVars PROVE NerInv'
    OBVIOUS
<1>1. CASE CutChunk
    BY <1>1, CutInv
<1>2. CASE Infer
    BY <1>2, InferInv
<1>3. CASE InferFails
    <2>1. /\ nerStage' = "failed"
          /\ passage' = passage /\ entities' = entities /\ chunks' = chunks
        BY <1>3 DEF InferFails
    <2>2. Passage /\ Entities /\ chunks \in Seq((0..PassageSize) \X (0..PassageSize))
        BY DEF NerInv
    <2>3. PassageSize' = PassageSize /\ Passage' /\ Entities'
        BY <2>1, <2>2, PassageStays
    <2> QED BY <2>1, <2>2, <2>3 DEF NerInv
<1>4. CASE UNCHANGED nerVars
    <2>1. /\ passage' = passage /\ entities' = entities /\ chunkStart' = chunkStart
          /\ chunks' = chunks /\ nerStage' = nerStage /\ inferred' = inferred /\ nerMatches' = nerMatches
        BY <1>4 DEF nerVars
    <2>2. Passage /\ Entities /\ chunks \in Seq((0..PassageSize) \X (0..PassageSize))
        BY DEF NerInv
    <2>3. PassageSize' = PassageSize /\ Words' = Words /\ Passage' /\ Entities'
        BY <2>1, <2>2, PassageStays
    <2>4. chunks' \in Seq((0..PassageSize') \X (0..PassageSize'))
        BY <2>1, <2>2, <2>3
    <2>5. ASSUME nerStage' = "cutting"
          PROVE  /\ chunkStart' \in 0..PassageSize' - 1 /\ inferred' = 0 /\ nerMatches' = <<>>
                 /\ Covered(Words, chunks, chunkStart)'
        <3>1. /\ chunkStart \in 0..PassageSize - 1 /\ inferred = 0 /\ nerMatches = <<>>
              /\ Covered(Words, chunks, chunkStart)
            BY <2>1, <2>5 DEF NerInv
        <3> QED BY <3>1, <2>1, <2>3 DEF Covered
    <2>6. ASSUME nerStage' = "scanning"
          PROVE  /\ inferred' \in Nat /\ inferred' < Len(chunks')
                 /\ Covered(Words, chunks, PassageSize)'
                 /\ ReportedTo(nerMatches, chunks, inferred)'
        <3>1. /\ inferred \in Nat /\ inferred < Len(chunks)
              /\ Covered(Words, chunks, PassageSize)
              /\ ReportedTo(nerMatches, chunks, inferred)
            BY <2>1, <2>6 DEF NerInv
        <3>2. \A ms, cs, k : ReportedTo(ms, cs, k) => ReportedTo(ms, cs, k)'
            BY <2>1, ReportsStay
        <3>3. ReportedTo(nerMatches, chunks, inferred)'
            BY <3>1, <3>2, <2>1
        <3>4. Covered(Words, chunks, PassageSize)'
            BY <3>1, <2>1, <2>3 DEF Covered
        <3> QED BY <3>1, <3>3, <3>4, <2>1
    <2>7. ASSUME nerStage' = "done" PROVE ReportedWhole(nerMatches, chunks)'
        <3>1. ReportedWhole(nerMatches, chunks)
            BY <2>1, <2>7 DEF NerInv
        <3>2. \A ms, cs : ReportedWhole(ms, cs) => ReportedWhole(ms, cs)'
            BY <2>1, ReportsStay
        <3> QED BY <3>1, <3>2, <2>1
    <2> QED BY <2>3, <2>4, <2>5, <2>6, <2>7 DEF NerInv
<1> QED BY <1>1, <1>2, <1>3, <1>4 DEF NerNext

(* NerScanner::scan_text keeps every word that fits a chunk whole, reports *)
(* of a chunk only what the model labelled there, and reports an entity    *)
(* that some chunk holds, once the chunks are merged.                      *)
THEOREM EntitiesHold == NerSpec => []EntitiesAreReported
<1>1. NerInit => NerInv
    BY NerInitInv
<1>2. NerInv /\ [NerNext]_nerVars => NerInv'
    BY NerStepInv
<1>3. NerInv => EntitiesAreReported
    BY EntitiesOfInv
<1> QED BY <1>1, <1>2, <1>3, PTL DEF NerSpec
-----------------------------------------------------------------------------
(* Types of the chunks, the tokens and the offsets.                        *)

(* A selection is no longer than what it selects from.                     *)
LEMMA ThoseShort ==
    ASSUME NEW X, NEW s \in Seq(X), NEW S
    PROVE  Len(Those(s, S)) <= Len(s)
<1> DEFINE T == {r \in Seq(X) : Len(Those(r, S)) <= Len(r)}
<1>1. <<>> \in T
    BY ThoseOfNone
<1>2. ASSUME NEW r \in Seq(X), r \in T, NEW x \in X PROVE Append(r, x) \in T
    <2> DEFINE t == Those(r, S)
               q == Those(Append(r, x), S)
    <2>1. q = IF x \in S THEN Append(t, x) ELSE t
        BY ThoseOfAppend
    <2>2. t \in Seq(X \cap S) /\ Len(t) <= Len(r)
        BY <1>2, ThoseElements
    <2>3. Append(r, x) \in Seq(X) /\ Len(Append(r, x)) = Len(r) + 1 /\ Len(r) \in Nat
        OBVIOUS
    <2> HIDE DEF t, q
    <2>4. Len(q) <= Len(t) + 1 /\ Len(t) \in Nat /\ Len(q) \in Nat
        BY <2>1, <2>2
    <2>5. Len(q) <= Len(Append(r, x))
        BY <2>2, <2>3, <2>4
    <2> QED BY <2>3, <2>5 DEF q
<1>3. Seq(X) \subseteq T
    <2> HIDE DEF T
    <2> QED BY <1>1, <1>2, SeqInduction
<1> QED BY <1>3

(* A text has no more words than bytes.                                    *)
LEMMA WordsFew ==
    ASSUME Passage
    PROVE  Len(Words) \in Nat /\ Len(Words) <= PassageSize
<1> DEFINE ids == [i \in DOMAIN passage |-> i - 1]
           S == StartsIn(0, Len(passage))
           starts == Those(ids, S)
<1>1. PassageSize \in Nat /\ DOMAIN passage = 1..PassageSize
    BY PassageIs
<1>2. ids \in Seq(Int) /\ Len(ids) = PassageSize
    BY <1>1
<1>3. Words = [k \in DOMAIN starts |-> <<starts[k], EndIn(starts[k], Len(passage))>>]
    BY DEF Words, WordsIn
<1> HIDE DEF ids, S
<1>4. starts \in Seq(Int \cap S) /\ Len(starts) <= PassageSize
    BY <1>2, ThoseElements, ThoseShort
<1> HIDE DEF starts
<1>5. Len(starts) \in Nat /\ DOMAIN starts = 1..Len(starts)
    BY <1>4
<1>6. Len(Words) = Len(starts)
    BY <1>3, <1>5
<1> QED BY <1>4, <1>5, <1>6

(* The types of the passage rest on what the chunks are cut from.          *)
NerStepTypes == NerInv /\ NerTypeOK

LEMMA NerTypesInit == NerInit => NerStepTypes
<1> SUFFICES ASSUME NerInit PROVE NerTypeOK
    BY NerInitInv DEF NerStepTypes
<1>1. Passage /\ Entities
    BY NerInitInv DEF NerInv
<1>2. /\ passage \in BoundedSeq({" ", "x", "(", ")"}, MaxBytes) /\ passage # <<>>
      /\ chunkStart = 0 /\ chunks = <<>> /\ nerStage = "cutting" /\ inferred = 0 /\ nerMatches = <<>>
    BY DEF NerInit
<1>3. passage \in Seq({" ", "x", "(", ")"}) /\ Len(passage) \in 1..MaxBytes
    <2> DEFINE X == {" ", "x", "(", ")"}
    <2> HIDE DEF X
    <2>1. passage \in Seq(X) /\ Len(passage) <= MaxBytes
        BY <1>2, ChunkAssumption, BoundedSeqIs DEF X
    <2>2. PassageSize \in Nat /\ PassageSize > 0
        BY <1>1, PassageIs
    <2>3. Len(passage) \in 1..MaxBytes
        BY <2>1, <2>2, ChunkAssumption DEF PassageSize
    <2> QED BY <2>1, <2>3 DEF X
<1>4. \A e \in entities : e \in [type : EntityTypes, from : 1..MaxBytes, to : 1..MaxBytes]
    <2> DEFINE n == Len(Words)
               R == [type : EntityTypes, from : 1..n, to : 1..n]
               spans == {e \in R : e.from <= e.to}
    <2>1. PICK e \in spans, f \in spans : (e = f \/ e.to < f.from) /\ entities = {e, f}
        BY DEF NerInit
    <2>2. n \in Nat /\ n <= MaxBytes
        <3>1. n \in Nat /\ n <= Len(passage)
            BY <1>1, WordsFew DEF PassageSize
        <3> HIDE DEF n
        <3>2. Len(passage) \in 1..MaxBytes /\ MaxBytes \in Nat
            BY <1>3, ChunkAssumption
        <3> DEFINE z == Len(passage)
        <3> HIDE DEF z
        <3>3. n \in Nat /\ n <= z /\ z \in 1..MaxBytes /\ MaxBytes \in Nat
            BY <3>1, <3>2 DEF z
        <3> QED BY <3>3
    <2> HIDE DEF n
    <2>3. \A k \in 1..n : k \in 1..MaxBytes
        BY <2>2, ChunkAssumption
    <2>4. \A g \in R : g \in [type : EntityTypes, from : 1..MaxBytes, to : 1..MaxBytes]
        BY <2>3
    <2> HIDE DEF R
    <2> QED BY <2>1, <2>4
<1> DEFINE P == (0..Len(passage)) \X (0..Len(passage))
           M == [type : EntityTypes, start : Nat, end : Nat]
<1> HIDE DEF P, M
<1>5. chunks = <<>> /\ nerMatches = <<>> /\ chunkStart = 0 /\ inferred = 0 /\ nerStage = "cutting"
    BY <1>2
<1>6. chunks \in Seq(P) /\ nerMatches \in Seq(M) /\ Len(chunks) = 0
    BY <1>5
<1>7. 0 \in 0..Len(passage) /\ 0 <= MaxChunks /\ 0 \in 0..0
    <2>1. Len(passage) \in 1..MaxBytes
        BY <1>3
    <2> DEFINE z == Len(passage)
    <2>2. z \in 1..MaxBytes
        BY <2>1
    <2> HIDE DEF z
    <2>3. MaxBytes \in Nat /\ MaxChunks \in Nat
        BY ChunkAssumption
    <2>4. 0 \in 0..z /\ 0 <= MaxChunks /\ 0 \in 0..0
        BY <2>2, <2>3
    <2> QED BY <2>4 DEF z
<1> QED BY <1>3, <1>4, <1>5, <1>6, <1>7 DEF NerTypeOK, P, M

(* What the scan reports, of the passage as it stays.                      *)
LEMMA MarksTyped ==
    ASSUME PassageSize \in Nat, NEW ms \in Seq(NerMarks)
    PROVE  ms \in Seq([type : EntityTypes, start : Nat, end : Nat])
<1>1. \A m \in NerMarks : m \in [type : EntityTypes, start : Nat, end : Nat]
    BY DEF NerMarks
<1>2. \A i \in 1..Len(ms) : ms[i] \in [type : EntityTypes, start : Nat, end : Nat]
    BY <1>1, ElementsOf
<1> DEFINE M == [type : EntityTypes, start : Nat, end : Nat]
<1> HIDE DEF M
<1>3. ms \in Seq(M)
    BY <1>2, ElementsOf DEF M
<1> QED BY <1>3 DEF M

LEMMA NerTypesStep == NerStepTypes /\ [NerNext]_nerVars => NerStepTypes'
<1> SUFFICES ASSUME NerInv, NerTypeOK, [NerNext]_nerVars PROVE NerTypeOK'
    BY NerStepInv DEF NerStepTypes
<1> DEFINE S == PassageSize
           P == (0..Len(passage)) \X (0..Len(passage))
<1>0. Passage /\ Entities /\ S \in Nat /\ Len(passage) = S /\ chunks \in Seq(P) /\ Len(chunks) \in Nat
    BY PassageIs DEF NerInv, PassageSize
<1> HIDE DEF S
<1>1. CASE CutChunk
    <2> DEFINE b == chunkStart
               e == ChunkEnd(b)
    <2>1. /\ nerStage = "cutting" /\ Len(chunks) < MaxChunks
          /\ chunks' = Append(chunks, <<b, e>>)
          /\ UNCHANGED <<passage, entities, inferred, nerMatches>>
          /\ IF e = Len(passage)
             THEN nerStage' = "scanning" /\ chunkStart' = chunkStart
             ELSE chunkStart' = NextStart(e) /\ nerStage' = nerStage
        BY <1>1 DEF CutChunk
    <2>2. b \in 0..S - 1
        BY <2>1 DEF NerInv, S
    <2>3. e \in b + 1..S /\ Boundary(e)
        <3> HIDE DEF b
        <3> QED BY <1>0, <2>2, ChunkEndIs DEF S
    <2>4. e \in 0..S /\ b \in 0..S
        BY <1>0, <2>2, <2>3
    <2>5. NextStart(e) \in 0..e
        <3> HIDE DEF e, b
        <3> QED BY <1>0, <2>3, <2>4, NextStartIs DEF S
    <2> HIDE DEF e, b
    <2>6. chunkStart' \in 0..S
        <3>1. NextStart(e) \in 0..S
            BY <1>0, <2>4, <2>5
        <3> QED BY <1>0, <2>1, <2>4, <3>1 DEF b
    <2>7. <<b, e>> \in P
        BY <1>0, <2>4
    <2>8. chunks' \in Seq(P) /\ Len(chunks') = Len(chunks) + 1
        <3> HIDE DEF P
        <3> QED BY <1>0, <2>1, <2>7
    <2>9. Len(chunks') <= MaxChunks /\ inferred \in 0..Len(chunks')
        <3>1. inferred \in 0..Len(chunks) /\ MaxChunks \in Nat
            BY ChunkAssumption DEF NerTypeOK
        <3> HIDE DEF P
        <3> QED BY <1>0, <2>1, <2>8, <3>1
    <2> QED BY <1>0, <2>1, <2>6, <2>8, <2>9 DEF NerTypeOK
<1>2. CASE Infer
    <2> DEFINE n == inferred
               c == chunks[n + 1]
               found == nerMatches \o Decode(WordsIn(c[1], c[2]))
    <2>1. /\ nerStage = "scanning" /\ inferred' = n + 1
          /\ UNCHANGED <<passage, entities, chunkStart, chunks>>
          /\ IF n + 1 < Len(chunks)
             THEN nerMatches' = found /\ nerStage' = nerStage
             ELSE /\ nerMatches' = IF Len(passage) > MaxChunk THEN Dedup(found) ELSE found
                  /\ nerStage' = "done"
        BY <1>2 DEF Infer
    <2>2. n \in Nat /\ n < Len(chunks) /\ ReportedTo(nerMatches, chunks, n)
        BY <2>1 DEF NerInv
    <2>3. ReportedTo(found, chunks, n + 1)
        <3>1. n + 1 <= Len(chunks)
            BY <1>0, <2>2
        <3>2. chunks \in Seq((0..PassageSize) \X (0..PassageSize))
            BY DEF NerInv
        <3> HIDE DEF n
        <3> QED BY <1>0, <2>2, <3>1, <3>2, ChunkReported
    <2>4. found \in Seq(NerMarks)
        <3> HIDE DEF found
        <3> QED BY <2>3 DEF ReportedTo
    <2> HIDE DEF found
    <2>5. nerMatches' \in Seq(NerMarks)
        BY <1>0, <2>1, <2>4, DedupIs DEF S
    <2>6. nerMatches' \in Seq([type : EntityTypes, start : Nat, end : Nat])
        BY <1>0, <2>5, MarksTyped DEF S
    <2>7. inferred' \in 0..Len(chunks')
        BY <1>0, <2>1, <2>2
    <2> QED BY <2>1, <2>6, <2>7 DEF NerTypeOK
<1>3. CASE InferFails
    <2>1. /\ nerStage' = "failed" /\ nerMatches' = <<>>
          /\ UNCHANGED <<passage, entities, chunkStart, chunks, inferred>>
        BY <1>3 DEF InferFails
    <2>2. nerMatches' \in Seq([type : EntityTypes, start : Nat, end : Nat])
        BY <2>1
    <2> QED BY <2>1, <2>2 DEF NerTypeOK
<1>4. CASE UNCHANGED nerVars
    BY <1>4 DEF nerVars, NerTypeOK
<1> QED BY <1>1, <1>2, <1>3, <1>4 DEF NerNext

(* Between the steps of a pass: what PassInv says, and besides that the    *)
(* pieces fit the window whatever stopped the pass, and there are no       *)
(* entities before they are decoded.                                       *)
TokenTypes ==
    /\ PassInv
    /\ Len(pieces) <= MaxLength - 2
    /\ \A i \in DOMAIN pieces : pieces[i].word \in DOMAIN wordsRead
    /\ passStep # "done" => persons = {}

(* With it the pass over the pieces has its types.                         *)
LEMMA TokenTypesMean == TokenTypes => TokenTypeOK
<1> SUFFICES ASSUME TokenTypes PROVE TokenTypeOK
    OBVIOUS
<1>1. /\ modelDir \in ModelDirs /\ Labelled
      /\ passStep \in {"load", "tokenize", "infer", "decode", "done", "refused"}
      /\ judged \in Seq(LabelIds \X Sureness) /\ LabelledWordsAreReported
    BY DEF TokenTypes, PassInv
<1>2. labelMap \in Seq([tag : PieceTags, type : NerTypes \cup {"none"}])
    <2> DEFINE R == [tag : PieceTags, type : NerTypes \cup {"none"}]
    <2>1. \A x \in LabelRecs : x \in R
        BY DEF LabelRecs
    <2> HIDE DEF R
    <2>2. labelMap \in Seq(R)
        BY <1>1, <2>1, ElementsOf DEF Labelled
    <2> QED BY <2>2 DEF R
<1>3. \A e \in persons : e.from <= e.to /\ e.type \in NerTypes
    <2>1. CASE passStep # "done"
        BY <2>1 DEF TokenTypes
    <2>2. CASE passStep = "done"
        <3> SUFFICES ASSUME NEW e \in persons PROVE e.from <= e.to /\ e.type \in NerTypes
            OBVIOUS
        <3>1. PICK s \in Stretches : e = [type |-> TypeOf(s[1]), from |-> s[1], to |-> s[2]]
            BY <2>2, <1>1 DEF LabelledWordsAreReported
        <3>2. s[1] <= s[2] /\ TypeOf(s[1]) # "none"
            BY DEF Stretches
        <3>3. TypeOf(s[1]) \in NerTypes
            BY <1>1, <3>2, InfoIs DEF TypeOf, LabelRecs
        <3> QED BY <3>1, <3>2, <3>3
    <2> QED BY <2>1, <2>2
<1> QED BY <1>1, <1>2, <1>3 DEF TokenTypes, TokenTypeOK

LEMMA TokenTypesInit == TokenInit => TokenTypes
<1> SUFFICES ASSUME TokenInit PROVE TokenTypes
    OBVIOUS
<1>1. PassInv
    BY PassStarts
<1>2. pieces = <<>> /\ persons = {}
    BY DEF TokenInit
<1>3. Len(pieces) <= MaxLength - 2
    BY <1>2, DirAssumption
<1> QED BY <1>1, <1>2, <1>3 DEF TokenTypes

LEMMA TokenTypesStep == TokenTypes /\ [TokenNext]_tokenVars => TokenTypes'
<1> SUFFICES ASSUME TokenTypes, [TokenNext]_tokenVars PROVE TokenTypes'
    OBVIOUS
<1>1. PassInv /\ PassInv'
    BY PassGoesOn DEF TokenTypes
<1>2. CASE TokenizePassage
    <2>1. passStep' = "infer" /\ persons' = persons /\ passStep = "tokenize" /\ wordsRead' = wordsRead
        BY <1>2 DEF TokenizePassage
    <2>2. HasWords /\ pieces' = PieceWindow
        BY <1>1, <1>2 DEF PassInv, TokenizePassage, PieceWindow
    <2>3. /\ SteadyPieces(pieces') /\ Len(pieces') <= MaxLength - 2
          /\ \A i \in 1..Len(pieces') : pieces'[i].word \in 1..Len(wordsRead)
        BY <2>2, WindowedIs
    <2>4. DOMAIN pieces' = 1..Len(pieces') /\ DOMAIN wordsRead = 1..Len(wordsRead)
        BY <2>2, <2>3 DEF SteadyPieces, HasWords
    <2> QED BY <1>1, <2>1, <2>3, <2>4 DEF TokenTypes
<1>3. CASE DecodeTags
    <2>1. passStep' = "done" /\ pieces' = pieces /\ wordsRead' = wordsRead
        BY <1>3 DEF DecodeTags
    <2> QED BY <1>1, <2>1 DEF TokenTypes
<1>4. CASE LoadModelDir \/ JudgePiece \/ SinglePassFails \/ UNCHANGED tokenVars
    <2>1. /\ persons' = persons /\ pieces' = pieces /\ wordsRead' = wordsRead
          /\ passStep = "done" => passStep' = "done"
          /\ passStep # "done" => persons = {}
        BY <1>4 DEF LoadModelDir, JudgePiece, SinglePassFails, tokenVars, TokenTypes
    <2>2. Len(pieces') <= MaxLength - 2 /\ \A i \in DOMAIN pieces' : pieces'[i].word \in DOMAIN wordsRead'
        BY <2>1 DEF TokenTypes
    <2> QED BY <1>1, <2>1, <2>2 DEF TokenTypes
<1> QED BY <1>2, <1>3, <1>4 DEF TokenNext

(* A token has a letter, and so an end behind its beginning.               *)
LEMMA TokensHaveLetters ==
    ASSUME NEW s \in Seq(WordCharacters), NEW chars
    PROVE  /\ \A t \in ToSet(InBytes(s, TokensOf(s, chars))) : t.from < t.to /\ t.word # <<>>
           /\ \A t \in ToSet(InUtf16(TokensOf(s, chars))) : t.from < t.to /\ t.word # <<>>
<1>1. ASSUME NEW a \in 1..Len(s), NEW b \in 1..Len(s), a <= b
      PROVE  SubSeq(s, a, b) # <<>> /\ Behind(s, a - 1) < Behind(s, b) /\ a - 1 < b
    <2>1. a \in Nat /\ b \in Nat /\ 1 <= a /\ a <= b + 1 /\ b <= Len(s)
        BY <1>1
    <2>2. Len(SubSeq(s, a, b)) = b + 1 - a
        BY <2>1, PartElements
    <2>3. b + 1 - a # 0 /\ a - 1 \in 0..Len(s) /\ b \in 0..Len(s) /\ a - 1 < b
        BY <2>1, <1>1
    <2> DEFINE p == SubSeq(s, a, b)
    <2>4. Len(p) # 0
        BY <2>2, <2>3
    <2> HIDE DEF p
    <2>5. p # <<>>
        BY <2>4
    <2>6. Behind(s, a - 1) < Behind(s, b)
        BY <2>3, OffsetsRise
    <2> QED BY <2>3, <2>5, <2>6 DEF p
<1>2. ASSUME NEW t \in ToSet(InBytes(s, TokensOf(s, chars))) PROVE t.from < t.to /\ t.word # <<>>
    <2>1. PICK a \in 1..Len(s), b \in 1..Len(s) : a <= b /\ t = BytesAt(s, a, b)
        BY OffsetsAre
    <2> QED BY <2>1, <1>1 DEF BytesAt
<1>3. ASSUME NEW t \in ToSet(InUtf16(TokensOf(s, chars))) PROVE t.from < t.to /\ t.word # <<>>
    <2>1. PICK a \in 1..Len(s), b \in 1..Len(s) : a <= b /\ t = UnitsAt(s, a, b)
        BY OffsetsAre
    <2> QED BY <2>1, <1>1 DEF UnitsAt
<1> QED BY <1>2, <1>3

(* The types of the readers rest on what they report being words of the    *)
(* text.                                                                   *)
WordTypes == WordInv /\ WordTypeOK

LEMMA WordTypesInit == WordInit => WordTypes
<1> SUFFICES ASSUME WordInit PROVE WordTypes
    OBVIOUS
<1>1. WordInv
    BY WordInitInv
<1>2. written \in Seq(TextChars) /\ Len(written) <= MaxLetters
    BY BoundedSeqIs, WordAssumption DEF WordInit
<1>3. reader \in Readers /\ by = "none" /\ reported = {} /\ features = <<>>
    BY DEF WordInit
<1> QED BY <1>1, <1>2, <1>3 DEF WordTypes, WordTypeOK

(* What is cut out of a text is known by its token.                        *)
LEMMA CutKeepsTypes ==
    ASSUME WordTypeOK, NEW who \in Readers, Unread(who), NEW found, Cut(found),
           \A t \in found : t.from < t.to /\ t.word # <<>>
    PROVE  WordTypeOK'
<1>1. reader' \in {"read", "aborted"} /\ by' \in Readers /\ written' = written /\ features' = features
    BY DEF Cut, Unread
<1>2. reported' = {Report(t, Slice(t)) : t \in found} \/ reported' = reported
    BY DEF Cut
<1>3. ASSUME NEW r \in reported' PROVE r.from < r.to /\ r.word # <<>>
    <2>1. CASE r \in reported
        BY <2>1 DEF WordTypeOK
    <2>2. CASE \E t \in found : r = Report(t, Slice(t))
        <3>1. PICK t \in found : r = Report(t, Slice(t))
            BY <2>2
        <3>2. r.from = t.from /\ r.to = t.to /\ r.word = t.word
            BY <3>1 DEF Report
        <3> QED BY <3>2
    <2> QED BY <2>1, <2>2, <1>2
<1> QED BY <1>1, <1>3 DEF WordTypeOK

LEMMA WordTypesStep == WordTypes /\ [WordNext]_wordVars => WordTypes'
<1> SUFFICES ASSUME WordInv, WordTypeOK, [WordNext]_wordVars PROVE WordTypeOK'
    BY WordStepInv DEF WordTypes
<1>1. written \in Seq(WordCharacters) /\ ToLower(written) \in Seq(WordCharacters)
    <2>1. TextChars \subseteq WordCharacters /\ Lowered \subseteq WordCharacters
        BY DEF WordCharacters
    <2>2. written \in Seq(TextChars) /\ ToLower(written) \in Seq(Lowered)
        BY LoweredText DEF WordTypeOK
    <2> DEFINE l == ToLower(written)
    <2> HIDE DEF l
    <2>3. l \in Seq(Lowered)
        BY <2>2 DEF l
    <2>4. l \in Seq(WordCharacters) /\ written \in Seq(WordCharacters)
        BY <2>1, <2>2, <2>3
    <2> QED BY <2>4 DEF l
<1>2. \A ts, words : Known(ts, words) \subseteq ToSet(ts)
    BY DEF Known
<1>3. /\ "keyword" \in Readers /\ "persuasion" \in Readers /\ "gazetteer" \in Readers
      /\ "tagger" \in Readers /\ "plugin" \in Readers
    BY DEF Readers
<1>4. CASE ScanKeywordText
    <2> DEFINE found == Known(Tokenize(ToLower(written)), KnownWords)
    <2>1. \A t \in found : t.from < t.to /\ t.word # <<>>
        BY <1>1, <1>2, TokensHaveLetters DEF Tokenize
    <2>2. Unread("keyword") /\ Cut(found)
        BY <1>4 DEF ScanKeywordText
    <2> HIDE DEF found
    <2> QED BY <2>1, <2>2, <1>3, CutKeepsTypes
<1>5. CASE ScanPersuasionText
    <2> DEFINE found == Known(TokenizePhrases(ToLower(written)), KnownWords)
    <2>1. \A t \in found : t.from < t.to /\ t.word # <<>>
        BY <1>1, <1>2, TokensHaveLetters DEF TokenizePhrases
    <2>2. Unread("persuasion") /\ Cut(found)
        BY <1>5 DEF ScanPersuasionText
    <2> HIDE DEF found
    <2> QED BY <2>1, <2>2, <1>3, CutKeepsTypes
<1>6. CASE ScanNameText
    <2> DEFINE found == Known(TokenizeCaseSensitive(written), KnownNames)
    <2>1. \A t \in found : t.from < t.to /\ t.word # <<>>
        BY <1>1, <1>2, TokensHaveLetters DEF TokenizeCaseSensitive
    <2>2. Unread("gazetteer") /\ Cut(found)
        BY <1>6 DEF ScanNameText
    <2> HIDE DEF found
    <2> QED BY <2>1, <2>2, <1>3, CutKeepsTypes
<1>7. CASE ScanDictionaryJs
    <2> DEFINE found == Known(TokenizeJs(ToLower(written)), KnownWords)
               Cut2(t) == SubSeq(written, t.from + 1, Min({t.to, Len(written)}))
    <2>1. \A t \in found : t.from < t.to /\ t.word # <<>>
        BY <1>1, <1>2, TokensHaveLetters DEF TokenizeJs
    <2>2. /\ by' = "plugin" /\ reader' = "read" /\ written' = written /\ features' = features
          /\ reported' = {Report(t, Cut2(t)) : t \in found}
        BY <1>7 DEF ScanDictionaryJs, Unread
    <2> HIDE DEF found, Cut2
    <2>3. \A r \in reported' : r.from < r.to /\ r.word # <<>>
        <3> SUFFICES ASSUME NEW t \in found
                     PROVE  Report(t, Cut2(t)).from < Report(t, Cut2(t)).to /\ Report(t, Cut2(t)).word # <<>>
            BY <2>2
        <3> QED BY <2>1 DEF Report
    <2> QED BY <2>2, <2>3, <1>3 DEF WordTypeOK
<1>8. CASE ExtractFeatures
    <2>1. /\ by' = "tagger" /\ reader' \in {"read", "aborted"} /\ written' = written /\ reported' = reported
          /\ \/ features' = features
             \/ features' = [i \in DOMAIN TokenizeForCrf(written) |-> FeaturesOf(TokenizeForCrf(written), i)]
        BY <1>8 DEF ExtractFeatures, Unread
    <2>2. \A ts, i : <<"word", ts[i].lower>> \in FeaturesOf(ts, i)
        BY DEF FeaturesOf
    <2>3. \A i \in DOMAIN features' : features'[i] # {}
        <3>1. CASE features' = features
            BY <3>1 DEF WordTypeOK
        <3>2. CASE features' = [i \in DOMAIN TokenizeForCrf(written) |-> FeaturesOf(TokenizeForCrf(written), i)]
            BY <3>2, <2>2
        <3> QED BY <2>1, <3>1, <3>2
    <2> QED BY <2>1, <2>3, <1>3 DEF WordTypeOK
<1>9. CASE UNCHANGED wordVars
    BY <1>9 DEF wordVars, WordTypeOK
<1> QED BY <1>4, <1>5, <1>6, <1>7, <1>8, <1>9 DEF WordNext
=============================================================================
