---------------------------- MODULE ImageProofs ----------------------------
(***************************************************************************)
(* Proofs about the images of a request and its media blocks, in sections  *)
(* that share no variable: each stands alone.                              *)
(***************************************************************************)
EXTENDS FaceBoxes, MediaIntake, TextRegions, FiniteSetTheorems, DataLemmas

-----------------------------------------------------------------------------
(***************************************************************************)
(* Faces, for any images, any boxes a model may see and any threshold: the *)
(* boxes in the order of confidence, what suppression keeps of them, the   *)
(* arithmetic of an ellipse in an expanded box, and the invariant.         *)
(***************************************************************************)

(* The most confident boxes come first.                                    *)
ByScore(s) == \A i, j \in 1..Len(s) : i < j => s[j].score <= s[i].score
Ranked == {s \in Seq(SeenBoxes) : ByScore(s)}

LEMMA ScoreIs == \A b \in SeenBoxes : b.score \in Nat /\ b.score <= 100
BY DEF SeenBoxes

(* A box has a place among ranked ones.                                    *)
LEMMA RankIs ==
    ASSUME NEW m \in SeenBoxes, NEW s \in Seq(SeenBoxes)
    PROVE  RankOf(m, s) \in 0..Len(s) /\ BehindSurer(RankOf(m, s), m, s)
<1> DEFINE B == {j \in 1..Len(s) : s[j].score < m.score}
<1>1. Len(s) \in Nat /\ \A j \in 1..Len(s) : s[j].score \in Nat
    BY ScoreIs
<1>2. m.score \in Nat
    BY ScoreIs
<1>3. \E k \in 0..Len(s) : BehindSurer(k, m, s)
    <2>1. CASE B = {}
        <3>1. \A j \in 1..Len(s) : s[j].score >= m.score
            BY <2>1, <1>1, <1>2
        <3>2. BehindSurer(Len(s), m, s)
            BY <3>1, <1>1 DEF BehindSurer
        <3> QED BY <3>2, <1>1
    <2>2. CASE B # {}
        <3>1. PICK b \in B : \A x \in B : b <= x
            <4>1. B \in SUBSET (1..Len(s))
                OBVIOUS
            <4> HIDE DEF B
            <4> QED BY <4>1, <1>1, <2>2, LeastExists
        <3>2. b \in 1..Len(s) /\ b - 1 \in 0..Len(s) /\ (b - 1) + 1 = b /\ s[b].score < m.score
            BY <3>1, <1>1
        <3>3. ASSUME NEW j \in 1..b - 1 PROVE s[j].score >= m.score
            <4>1. j \in 1..Len(s) /\ ~(b <= j)
                BY <3>2, <1>1
            <4>2. j \notin B
                BY <4>1, <3>1
            <4> QED BY <4>1, <4>2, <1>1, <1>2
        <3> QED BY <3>2, <3>3 DEF BehindSurer
    <2> QED BY <2>1, <2>2
<1> QED BY <1>3 DEF RankOf

(* An insertion at its place keeps the ranking.                            *)
LEMMA InsertedInRank ==
    ASSUME NEW m \in SeenBoxes, NEW s \in Ranked
    PROVE  /\ InsertAt(s, RankOf(m, s) + 1, m) \in Ranked
           /\ ToSet(InsertAt(s, RankOf(m, s) + 1, m)) = ToSet(s) \cup {m}
<1> DEFINE k == RankOf(m, s)
           t == InsertAt(s, k + 1, m)
           N == Len(s)
<1>1. s \in Seq(SeenBoxes) /\ ByScore(s) /\ N \in Nat
    BY DEF Ranked
<1>2. /\ k \in 0..N
      /\ \A j \in 1..k : s[j].score >= m.score
      /\ k < N => s[k + 1].score < m.score
    BY <1>1, RankIs DEF BehindSurer
<1> HIDE DEF k
<1>3. /\ t \in Seq(SeenBoxes) /\ Len(t) = N + 1
      /\ \A j \in 1..k : t[j] = s[j]
      /\ t[k + 1] = m
      /\ \A j \in k + 2..N + 1 : t[j] = s[j - 1]
      /\ ToSet(t) = ToSet(s) \cup {m}
    <2>1. t \in Seq(SeenBoxes) /\ PutBehind(t, s, m, k)
        BY <1>1, <1>2, InsertedElements
    <2> QED BY <2>1 DEF PutBehind
<1> HIDE DEF t
<1>4. m.score \in Nat /\ \A j \in 1..N : s[j].score \in Nat
    BY <1>1, ScoreIs
<1>5. \A i, j \in 1..N : i < j => s[j].score <= s[i].score
    BY <1>1 DEF ByScore
<1> HIDE DEF N
<1>7. \A j \in k + 1..N : s[j].score <= m.score
    <2> SUFFICES ASSUME NEW j \in k + 1..N PROVE s[j].score <= m.score
        OBVIOUS
    <2>1. k < N /\ k + 1 \in 1..N /\ j \in 1..N /\ (k + 1 = j \/ k + 1 < j)
        BY <1>1, <1>2
    <2>2. s[k + 1].score < m.score
        BY <2>1, <1>2
    <2>3. k + 1 = j \/ s[j].score <= s[k + 1].score
        BY <2>1, <1>5
    <2>4. s[j].score \in Nat /\ s[k + 1].score \in Nat
        BY <2>1, <1>4
    <2> QED BY <2>2, <2>3, <2>4, <1>4
<1>8. ASSUME NEW i \in 1..N + 1, NEW j \in 1..N + 1, i < j PROVE t[j].score <= t[i].score
    <2>1. CASE j <= k
        <3>1. i \in 1..k /\ j \in 1..k /\ i \in 1..N /\ j \in 1..N
            BY <1>1, <1>2, <1>8, <2>1
        <3> QED BY <3>1, <1>3, <1>5, <1>8
    <2>2. CASE j = k + 1
        <3>1. i \in 1..k /\ i \in 1..N
            BY <1>1, <1>2, <1>8, <2>2
        <3>2. t[i] = s[i] /\ t[j] = m /\ s[i].score >= m.score
            BY <3>1, <2>2, <1>2, <1>3
        <3> QED BY <3>1, <3>2, <1>4
    <2>3. CASE j > k + 1 /\ i <= k
        <3>1. i \in 1..k /\ j \in k + 2..N + 1 /\ j - 1 \in 1..N /\ i \in 1..N /\ i < j - 1
            BY <1>1, <1>2, <1>8, <2>3
        <3> QED BY <3>1, <1>3, <1>5
    <2>4. CASE j > k + 1 /\ i = k + 1
        <3>1. j \in k + 2..N + 1 /\ j - 1 \in k + 1..N
            BY <1>1, <1>2, <1>8, <2>4
        <3> QED BY <3>1, <2>4, <1>3, <1>7
    <2>5. CASE j > k + 1 /\ i > k + 1
        <3>1. i \in k + 2..N + 1 /\ j \in k + 2..N + 1 /\ i - 1 \in 1..N /\ j - 1 \in 1..N /\ i - 1 < j - 1
            BY <1>1, <1>2, <1>8, <2>5
        <3> QED BY <3>1, <1>3, <1>5
    <2> QED BY <2>1, <2>2, <2>3, <2>4, <2>5, <1>1, <1>2
<1>9. t \in Ranked
    BY <1>3, <1>8 DEF Ranked, ByScore
<1> QED BY <1>3, <1>9 DEF t, k

(* f has, at each number, that many of the boxes in order.                 *)
Ranks(f, boxes) ==
    /\ \A n \in 0..Len(boxes) : f[n] \in Ranked
    /\ f[0] = <<>>
    /\ \A n \in 1..Len(boxes) : f[n] = InsertAt(f[n - 1], RankOf(boxes[n], f[n - 1]) + 1, boxes[n])
    /\ ByConfidence(boxes) = f[Len(boxes)]

LEMMA RanksExist ==
    ASSUME NEW boxes \in Seq(SeenBoxes)
    PROVE  \E f : Ranks(f, boxes)
<1> DEFINE N    == Len(boxes)
           base == <<>>
           Step(n, v) == InsertAt(v, RankOf(boxes[n], v) + 1, boxes[n])
           step == [p \in (0 + 1..N) \X Ranked |-> Step(p[1], p[2])]
           F(f) == [n \in 0..N |-> IF n = 0 THEN base ELSE Step(n, f[n - 1])]
           f    == CHOOSE g : g = F(g)
<1>0. ByConfidence(boxes) = f[N]
    BY DEF ByConfidence
<1>1. N \in Nat /\ N \in Int /\ 0 \in Int /\ 0 <= N
    OBVIOUS
<1>2. base \in Ranked
    BY DEF Ranked, ByScore
<1>3. ASSUME NEW n \in 1..N, NEW v \in Ranked PROVE Step(n, v) \in Ranked
    <2>1. boxes[n] \in SeenBoxes
        BY <1>1
    <2> QED BY <2>1, InsertedInRank
<1> HIDE DEF base, Step
<1>4. step \in [(0 + 1..N) \X Ranked -> Ranked]
    <2> HIDE DEF N
    <2>1. 0 + 1..N = 1..N
        BY <1>1
    <2> QED BY <2>1, <1>3
<1>5. PICK g \in [0..N -> Ranked] : Recursion(g, 0, N, base, step)
    <2> HIDE DEF N, step, F, f
    <2> QED BY <1>1, <1>2, <1>4, RecursionExists
<1>6. g[0] = base
    BY <1>5 DEF Recursion
<1>7. ASSUME NEW n \in 1..N PROVE g[n] = Step(n, g[n - 1])
    <2>1. n \in 0 + 1..N /\ n - 1 \in 0..N
        BY <1>1
    <2>2. <<n, g[n - 1]>> \in (0 + 1..N) \X Ranked /\ g[n] = step[<<n, g[n - 1]>>]
        <3> HIDE DEF step, N
        <3> QED BY <2>1, <1>5 DEF Recursion
    <2> HIDE DEF N
    <2>3. step[<<n, g[n - 1]>>] = Step(n, g[n - 1])
        BY <2>2
    <2> HIDE DEF step
    <2> QED BY <2>2, <2>3
<1>8. g = F(g)
    <2> HIDE DEF step, N
    <2>1. \A n \in 0..N : g[n] = F(g)[n]
        <3> SUFFICES ASSUME NEW n \in 0..N PROVE g[n] = F(g)[n]
            OBVIOUS
        <3>1. CASE n = 0
            BY <1>6, <3>1
        <3>2. CASE n # 0
            <4>1. n \in 1..N
                BY <1>1, <3>2
            <4> QED BY <1>7, <3>2, <4>1
        <3> HIDE DEF F
        <3> QED BY <3>1, <3>2
    <2> QED BY <1>5, <2>1
<1>9. f = F(f)
    <2> HIDE DEF F
    <2> QED BY <1>8
<1> HIDE DEF f
<1>10. f[0] = base
    <2> HIDE DEF N
    <2> QED BY <1>1, <1>9
<1>11. ASSUME NEW n \in 1..N PROVE f[n] = Step(n, f[n - 1])
    <2>1. n \in 0..N /\ n # 0
        BY <1>1
    <2> HIDE DEF N
    <2> QED BY <1>9, <2>1
<1>12. \A n \in 0..N : f[n] \in Ranked
    <2> DEFINE T == {n \in 0..N : f[n] \in Ranked}
    <2>1. 0 \in T
        <3> HIDE DEF N
        <3> QED BY <1>1, <1>2, <1>10
    <2>2. ASSUME NEW n \in 0..N - 1, n \in T PROVE n + 1 \in T
        <3>1. n + 1 \in 1..N /\ n + 1 \in 0..N /\ (n + 1) - 1 = n /\ f[n] \in Ranked
            BY <2>2, <1>1
        <3> HIDE DEF N
        <3>2. f[n + 1] = Step(n + 1, f[n])
            BY <3>1, <1>11
        <3> QED BY <3>1, <3>2, <1>3
    <2>3. 0..N \subseteq T
        <3> HIDE DEF T, N
        <3> QED BY <1>1, <2>1, <2>2, IntervalInduction
    <2> QED BY <2>3
<1>13. Ranks(f, boxes)
    BY <1>0, <1>10, <1>11, <1>12 DEF Ranks, Step, base
<1> QED BY <1>13

(* Ranking keeps the boxes.                                                *)
LEMMA RankedIs ==
    ASSUME NEW boxes \in Seq(SeenBoxes)
    PROVE  ByConfidence(boxes) \in Ranked /\ ToSet(ByConfidence(boxes)) = ToSet(boxes)
<1> DEFINE N == Len(boxes)
<1>1. PICK f : Ranks(f, boxes)
    BY RanksExist
<1>2. N \in Nat /\ N \in Int /\ 0 \in Int /\ \A n \in 1..N : boxes[n] \in SeenBoxes
    OBVIOUS
<1>3. /\ \A n \in 0..N : f[n] \in Ranked
      /\ f[0] = <<>> /\ ByConfidence(boxes) = f[N]
      /\ \A n \in 1..N : f[n] = InsertAt(f[n - 1], RankOf(boxes[n], f[n - 1]) + 1, boxes[n])
    BY <1>1 DEF Ranks
<1> HIDE DEF N
<1> DEFINE T == {n \in 0..N : ToSet(f[n]) = {boxes[j] : j \in 1..n}}
<1>4. 0 \in T
    <2>1. ToSet(f[0]) = {}
        BY <1>3 DEF ToSet
    <2> QED BY <2>1, <1>2
<1>5. ASSUME NEW n \in 0..N - 1, n \in T PROVE n + 1 \in T
    <2>1. n + 1 \in 1..N /\ n + 1 \in 0..N /\ (n + 1) - 1 = n /\ n \in 0..N
        BY <1>2
    <2>2. f[n] \in Ranked /\ boxes[n + 1] \in SeenBoxes
        BY <2>1, <1>2, <1>3
    <2>3. f[n + 1] = InsertAt(f[n], RankOf(boxes[n + 1], f[n]) + 1, boxes[n + 1])
        BY <2>1, <1>3
    <2>4. ToSet(f[n + 1]) = ToSet(f[n]) \cup {boxes[n + 1]}
        BY <2>2, <2>3, InsertedInRank
    <2>5. {boxes[j] : j \in 1..n + 1} = {boxes[j] : j \in 1..n} \cup {boxes[n + 1]}
        <3>1. 1..n + 1 = (1..n) \cup {n + 1}
            BY <1>2
        <3> QED BY <3>1
    <2> QED BY <2>1, <2>4, <2>5, <1>5
<1>6. 0..N \subseteq T
    <2> HIDE DEF T
    <2> QED BY <1>2, <1>4, <1>5, IntervalInduction
<1>7. N \in 0..N /\ ToSet(boxes) = {boxes[j] : j \in 1..N}
    BY <1>2 DEF ToSet, N
<1> QED BY <1>3, <1>6, <1>7

-----------------------------------------------------------------------------
(* Suppression, and what is kept after some of the boxes.                  *)
Suppress(v, b, percent) ==
    IF \E k \in Range(v) : IouOver(k, b, percent) THEN v ELSE Append(v, b)
Suppresses(f, order, percent) ==
    /\ \A n \in 0..Len(order) : f[n] \in Seq(SeenBoxes)
    /\ f[0] = <<>>
    /\ \A n \in 1..Len(order) : f[n] = Suppress(f[n - 1], order[n], percent)

LEMMA SuppressesExist ==
    ASSUME NEW boxes \in Seq(SeenBoxes), NEW percent
    PROVE  \E f : /\ Suppresses(f, ByConfidence(boxes), percent)
                  /\ Nms(boxes, percent) = f[Len(ByConfidence(boxes))]
<1> DEFINE order == ByConfidence(boxes)
           N    == Len(order)
           base == <<>>
           Step(n, v) == IF \E k \in Range(v) : IouOver(k, order[n], percent) THEN v
                         ELSE Append(v, order[n])
           step == [p \in (0 + 1..N) \X Seq(SeenBoxes) |-> Step(p[1], p[2])]
           F(f) == [n \in 0..N |-> IF n = 0 THEN base
                                   ELSE IF \E k \in Range(f[n - 1]) : IouOver(k, order[n], percent)
                                   THEN f[n - 1] ELSE Append(f[n - 1], order[n])]
           f    == CHOOSE g : g = F(g)
<1>0. Nms(boxes, percent) = f[N]
    BY DEF Nms
<1>0a. order \in Seq(SeenBoxes)
    BY RankedIs DEF Ranked
<1> HIDE DEF order
<1>1. N \in Nat /\ N \in Int /\ 0 \in Int /\ 0 <= N
    BY <1>0a
<1>2. base \in Seq(SeenBoxes)
    OBVIOUS
<1>3. ASSUME NEW n \in 1..N, NEW v \in Seq(SeenBoxes) PROVE Step(n, v) \in Seq(SeenBoxes)
    <2>1. order[n] \in SeenBoxes
        BY <1>0a, <1>1
    <2> QED BY <2>1
<1>3a. \A h, n : F(h)[n] = F(h)[n]
    OBVIOUS
<1> HIDE DEF base
<1>4. step \in [(0 + 1..N) \X Seq(SeenBoxes) -> Seq(SeenBoxes)]
    <2> HIDE DEF N
    <2>1. 0 + 1..N = 1..N
        BY <1>1
    <2> QED BY <2>1, <1>3
<1>5. PICK g \in [0..N -> Seq(SeenBoxes)] : Recursion(g, 0, N, base, step)
    <2> HIDE DEF N, step, F, f
    <2> QED BY <1>1, <1>2, <1>4, RecursionExists
<1>6. g[0] = base
    BY <1>5 DEF Recursion
<1>7. ASSUME NEW n \in 1..N PROVE g[n] = Step(n, g[n - 1])
    <2>1. n \in 0 + 1..N /\ n - 1 \in 0..N
        BY <1>1
    <2>2. <<n, g[n - 1]>> \in (0 + 1..N) \X Seq(SeenBoxes) /\ g[n] = step[<<n, g[n - 1]>>]
        <3> HIDE DEF step, N
        <3> QED BY <2>1, <1>5 DEF Recursion
    <2> HIDE DEF N
    <2>3. step[<<n, g[n - 1]>>] = Step(n, g[n - 1])
        BY <2>2
    <2> HIDE DEF step
    <2> QED BY <2>2, <2>3
<1>8. g = F(g)
    <2> HIDE DEF step, N
    <2>1. \A n \in 0..N : g[n] = F(g)[n]
        <3> SUFFICES ASSUME NEW n \in 0..N PROVE g[n] = F(g)[n]
            OBVIOUS
        <3>1. CASE n = 0
            BY <1>6, <3>1
        <3>2. CASE n # 0
            <4>1. n \in 1..N
                BY <1>1, <3>2
            <4> QED BY <1>7, <3>2, <4>1
        <3> HIDE DEF F
        <3> QED BY <3>1, <3>2
    <2> QED BY <1>5, <2>1
<1>9. f = F(f)
    <2> HIDE DEF F
    <2> QED BY <1>8
<1> HIDE DEF f
<1>10. f[0] = base
    <2> HIDE DEF N
    <2> QED BY <1>1, <1>9
<1>11. ASSUME NEW n \in 1..N PROVE f[n] = Step(n, f[n - 1])
    <2>1. n \in 0..N /\ n # 0
        BY <1>1
    <2> HIDE DEF N
    <2> QED BY <1>9, <2>1
<1>12. \A n \in 0..N : f[n] \in Seq(SeenBoxes)
    <2> DEFINE T == {n \in 0..N : f[n] \in Seq(SeenBoxes)}
    <2>1. 0 \in T
        <3> HIDE DEF N
        <3> QED BY <1>1, <1>2, <1>10
    <2>2. ASSUME NEW n \in 0..N - 1, n \in T PROVE n + 1 \in T
        <3>1. n + 1 \in 1..N /\ n + 1 \in 0..N /\ (n + 1) - 1 = n /\ f[n] \in Seq(SeenBoxes)
            BY <2>2, <1>1
        <3> HIDE DEF N
        <3>2. f[n + 1] = Step(n + 1, f[n])
            BY <3>1, <1>11
        <3> QED BY <3>1, <3>2, <1>3
    <2>3. 0..N \subseteq T
        <3> HIDE DEF T, N
        <3> QED BY <1>1, <2>1, <2>2, IntervalInduction
    <2> QED BY <2>3
<1>13. Suppresses(f, order, percent)
    BY <1>10, <1>11, <1>12 DEF Suppresses, Suppress, base
<1> QED BY <1>13, <1>0 DEF order

(* Every box gives way to one that is kept and surer, or is kept itself;   *)
(* and of two that are kept the later does not overlap the earlier.        *)
GivesWay(b, v, percent) ==
    \E k \in ToSet(v) : k.score >= b.score /\ (k = b \/ IouOver(k, b, percent))
BoxesApart(v, percent) == \A i, j \in 1..Len(v) : i < j => ~IouOver(v[i], v[j], percent)

LEMMA NmsIs ==
    ASSUME NEW boxes \in Seq(SeenBoxes), NEW percent
    PROVE  /\ Nms(boxes, percent) \in Seq(SeenBoxes)
           /\ ToSet(Nms(boxes, percent)) \subseteq ToSet(boxes)
           /\ \A b \in ToSet(boxes) : GivesWay(b, Nms(boxes, percent), percent)
           /\ BoxesApart(Nms(boxes, percent), percent)
<1> DEFINE order == ByConfidence(boxes)
           N == Len(order)
<1>1. PICK f : Suppresses(f, order, percent) /\ Nms(boxes, percent) = f[N]
    BY SuppressesExist
<1>2. order \in Ranked /\ ToSet(order) = ToSet(boxes)
    BY RankedIs
<1> HIDE DEF order
<1>3. order \in Seq(SeenBoxes) /\ \A i, j \in 1..N : i < j => order[j].score <= order[i].score
    BY <1>2 DEF Ranked, ByScore
<1>4. /\ N \in Nat /\ N \in Int /\ 0 \in Int
      /\ \A n \in 1..N : order[n] \in SeenBoxes /\ order[n].score \in Nat
    BY <1>3, ScoreIs
<1>5. /\ \A n \in 0..N : f[n] \in Seq(SeenBoxes)
      /\ f[0] = <<>>
      /\ \A n \in 1..N : f[n] = Suppress(f[n - 1], order[n], percent)
    BY <1>1 DEF Suppresses
<1>6. ToSet(order) = {order[j] : j \in 1..N}
    BY <1>3 DEF ToSet
<1> HIDE DEF N
<1> DEFINE T == {n \in 0..N : /\ \A k \in ToSet(f[n]) : \E j \in 1..n : k = order[j]
                              /\ \A j \in 1..n : GivesWay(order[j], f[n], percent)
                              /\ BoxesApart(f[n], percent)}
<1>7. 0 \in T
    <2>1. ToSet(f[0]) = {} /\ BoxesApart(f[0], percent)
        BY <1>5 DEF ToSet, BoxesApart
    <2> QED BY <2>1, <1>4
<1>8. ASSUME NEW n \in 0..N - 1, n \in T PROVE n + 1 \in T
    <2> DEFINE b == order[n + 1]
               v == f[n]
               w == f[n + 1]
    <2>1. n + 1 \in 1..N /\ n + 1 \in 0..N /\ (n + 1) - 1 = n /\ n \in 0..N /\ n \in Nat
        BY <1>4
    <2>2. v \in Seq(SeenBoxes) /\ b \in SeenBoxes /\ w = Suppress(v, b, percent)
        BY <2>1, <1>4, <1>5
    <2>3. /\ \A k \in ToSet(v) : \E j \in 1..n : k = order[j]
          /\ \A j \in 1..n : GivesWay(order[j], v, percent)
          /\ BoxesApart(v, percent)
        BY <1>8
    <2>4. \A j \in 1..n : j \in 1..N /\ j < n + 1 /\ j \in 1..n + 1
        BY <2>1, <1>4
    <2>5. \A k \in ToSet(v) : b.score <= k.score
        BY <2>1, <2>3, <2>4, <1>3
    <2>5a. \A j \in 1..n + 1 : j \in 1..n \/ j = n + 1
        BY <2>1
    <2>5b. \A k \in ToSet(v) : k.score \in Nat
        BY <2>3, <2>4, <1>4
    <2>5c. b.score \in Nat
        BY <2>1, <1>4
    <2>6. ToSet(v) = Range(v)
        BY DEF ToSet, Range
    <2> HIDE DEF b, v, w
    <2>7. CASE \E k \in Range(v) : IouOver(k, b, percent)
        <3>1. w = v
            BY <2>2, <2>7 DEF Suppress
        <3>2. GivesWay(b, v, percent)
            BY <2>5, <2>5b, <2>5c, <2>6, <2>7 DEF GivesWay
        <3>3. \A j \in 1..n + 1 : GivesWay(order[j], v, percent)
            BY <3>2, <2>3, <2>5a DEF b
        <3>4. \A k \in ToSet(v) : \E j \in 1..n + 1 : k = order[j]
            BY <2>3, <2>4
        <3> QED BY <3>1, <3>3, <3>4, <2>1, <2>3 DEF v, w
    <2>8. CASE ~\E k \in Range(v) : IouOver(k, b, percent)
        <3>1. w = Append(v, b)
            BY <2>2, <2>8 DEF Suppress
        <3>2. ToSet(w) = ToSet(v) \cup {b}
            BY <2>2, <3>1, ToSetAppend
        <3>3. \A k \in ToSet(w) : \E j \in 1..n + 1 : k = order[j]
            BY <3>2, <2>1, <2>3, <2>4 DEF b
        <3>4. GivesWay(b, w, percent)
            BY <3>2, <2>5c DEF GivesWay
        <3>5. \A j \in 1..n : GivesWay(order[j], w, percent)
            BY <3>2, <2>3 DEF GivesWay
        <3>6. \A j \in 1..n + 1 : GivesWay(order[j], w, percent)
            BY <3>4, <3>5, <2>5a DEF b
        <3>7. BoxesApart(w, percent)
            <4>1. /\ Len(v) \in Nat /\ Len(w) = Len(v) + 1 /\ w[Len(v) + 1] = b
                  /\ \A i \in 1..Len(v) : w[i] = v[i] /\ v[i] \in ToSet(v)
                BY <2>2, <3>1, ToSetElements
            <4> SUFFICES ASSUME NEW i \in 1..Len(w), NEW j \in 1..Len(w), i < j
                         PROVE  ~IouOver(w[i], w[j], percent)
                BY DEF BoxesApart
            <4>2. i \in 1..Len(v) /\ (j \in 1..Len(v) \/ j = Len(v) + 1)
                BY <4>1
            <4>3. CASE j \in 1..Len(v)
                BY <4>1, <4>2, <4>3, <2>3 DEF BoxesApart
            <4>4. CASE j = Len(v) + 1
                BY <4>1, <4>2, <4>4, <2>6, <2>8
            <4> QED BY <4>2, <4>3, <4>4
        <3> QED BY <3>3, <3>6, <3>7, <2>1 DEF v, w
    <2> QED BY <2>7, <2>8
<1>9. 0..N \subseteq T
    <2> HIDE DEF T
    <2> QED BY <1>4, <1>7, <1>8, IntervalInduction
<1>10. N \in T /\ N \in 0..N
    <2>1. N \in 0..N
        BY <1>4
    <2> HIDE DEF T
    <2> QED BY <2>1, <1>9
<1>11. Nms(boxes, percent) = f[N] /\ f[N] \in Seq(SeenBoxes)
    BY <1>1, <1>5, <1>10
<1>12. ToSet(f[N]) \subseteq ToSet(order)
    BY <1>6, <1>10
<1>13. \A b \in ToSet(order) : GivesWay(b, f[N], percent)
    BY <1>6, <1>10
<1> QED BY <1>2, <1>10, <1>11, <1>12, <1>13

(* A product grows with each factor.                                       *)
LEMMA TimesGrows == \A a, b, c \in Nat : a <= b => a * c <= b * c
<1> SUFFICES ASSUME NEW a \in Nat, NEW b \in Nat, NEW c \in Nat, a <= b
             PROVE  a * c <= b * c
    OBVIOUS
<1>1. b - a \in Nat
    OBVIOUS
<1>2. (b - a) * c \in Nat
    BY <1>1
<1>3. b * c = a * c + (b - a) * c
    OBVIOUS
<1>4. a * c \in Nat /\ b * c \in Nat
    OBVIOUS
<1> QED BY <1>2, <1>3, <1>4

(* A square is no less than another of a number no further from 0.         *)
LEMMA SquareGrows ==
    \A u, v \in Int : -v <= u /\ u <= v => u * u <= v * v /\ u * u \in Nat /\ v * v \in Nat
<1> SUFFICES ASSUME NEW u \in Int, NEW v \in Int, -v <= u, u <= v
             PROVE  u * u <= v * v /\ u * u \in Nat /\ v * v \in Nat
    OBVIOUS
<1>1. v - u \in Nat /\ v + u \in Nat
    OBVIOUS
<1>2. (v - u) * (v + u) \in Nat
    BY <1>1
<1>3. v * v = u * u + (v - u) * (v + u)
    OBVIOUS
<1>4. u * u \in Nat /\ v * v \in Nat
    OBVIOUS
<1> QED BY <1>2, <1>3, <1>4

(* The ellipse of a larger box around the same point holds the smaller's:  *)
(* A and B are the squares of the distances, P and Q those of the height   *)
(* and the width, R and S those of the larger box.                         *)
LEMMA LargerEllipse ==
    ASSUME NEW A \in Nat, NEW B \in Nat, NEW P \in Nat, NEW Q \in Nat, NEW R \in Nat, NEW S \in Nat,
           P > 0, Q > 0, P <= R, Q <= S, A * P + B * Q <= Q * P
    PROVE  A * R + B * S <= S * R
<1> DEFINE a == A * P
           b == B * Q
           c == S * R
           d == A * R + B * S
           e == Q * P
<1>1. a \in Nat /\ b \in Nat /\ c \in Nat /\ d \in Nat /\ e \in Nat
    OBVIOUS
<1>2. e > 0
    <2>1. P - 1 \in Nat /\ Q - 1 \in Nat
        OBVIOUS
    <2>2. Q * P = (Q - 1) * (P - 1) + (Q - 1) + (P - 1) + 1
        OBVIOUS
    <2>3. (Q - 1) * (P - 1) \in Nat
        BY <2>1
    <2> QED BY <2>1, <2>2, <2>3
<1>3. Q * R <= S * R /\ P * S <= R * S /\ R * S = S * R
    BY TimesGrows
<1>4. (A * P) * (Q * R) = (Q * P) * (A * R)
    OBVIOUS
<1>5. (B * Q) * (P * S) = (Q * P) * (B * S)
    OBVIOUS
<1>6. (Q * P) * (A * R) + (Q * P) * (B * S) = (Q * P) * (A * R + B * S)
    OBVIOUS
<1>7. Q * R \in Nat /\ P * S \in Nat
    OBVIOUS
<1>8. (Q * R) * a <= c * a /\ (P * S) * b <= c * b
    <2>1. Q * R <= c /\ P * S <= c
        BY <1>3
    <2> HIDE DEF a, b, c
    <2> QED BY <2>1, <1>1, <1>7, TimesGrows
<1>9. (Q * R) * a = a * (Q * R) /\ (P * S) * b = b * (P * S)
    OBVIOUS
<1>10. e * d = (Q * R) * a + (P * S) * b
    BY <1>4, <1>5, <1>6, <1>9
<1>11. c * a + c * b = c * (a + b)
    OBVIOUS
<1>12. a + b <= e /\ a + b \in Nat
    OBVIOUS
<1> HIDE DEF a, b, c, d, e
<1>13. (a + b) * c <= e * c /\ (a + b) * c = c * (a + b)
    BY <1>1, <1>12, TimesGrows
<1>14. e * d <= e * c
    <2> DEFINE x == (Q * R) * a
               y == (P * S) * b
               z == c * a
               t == c * b
    <2>1. x \in Nat /\ y \in Nat /\ z \in Nat /\ t \in Nat
        BY <1>1, <1>7
    <2>2. e * d \in Nat /\ e * c \in Nat /\ c * (a + b) \in Nat
        BY <1>1, <1>12
    <2>3. x <= z /\ y <= t /\ e * d = x + y /\ z + t = c * (a + b) /\ c * (a + b) <= e * c
        BY <1>8, <1>10, <1>11, <1>13
    <2> HIDE DEF x, y, z, t
    <2> QED BY <2>1, <2>2, <2>3
<1>15. d <= c
    <2> SUFFICES ASSUME d > c PROVE FALSE
        BY <1>1
    <2>1. d - c - 1 \in Nat /\ e - 1 \in Nat
        BY <1>1, <1>2
    <2>2. e * d = e * c + (e - 1) * (d - c - 1) + (e - 1) + (d - c - 1) + 1
        BY <1>1
    <2>3. (e - 1) * (d - c - 1) \in Nat /\ e * c \in Nat /\ e * d \in Nat
        BY <1>1, <2>1
    <2> QED BY <2>1, <2>2, <2>3, <1>14
<1> QED BY <1>15 DEF c, d

(* The same in the terms of the boxes: a point no further from the middle  *)
(* than one in the ellipse of w and h is in that of W and H.               *)
LEMMA EllipseGrows ==
    ASSUME NEW u \in Int, NEW v \in Int, NEW U \in Nat, NEW V \in Nat,
           NEW w \in Nat, NEW h \in Nat, NEW W \in Nat, NEW H \in Nat,
           w > 0, h > 0, w <= W, h <= H, -U <= u, u <= U, -V <= v, v <= V,
           (U * h) * (U * h) + (V * w) * (V * w) <= (w * h) * (w * h)
    PROVE  (u * H) * (u * H) + (v * W) * (v * W) <= (W * H) * (W * H)
<1> DEFINE A == u * u
           B == v * v
           C == U * U
           D == V * V
           P == h * h
           Q == w * w
           R == H * H
           S == W * W
<1>1. A <= C /\ A \in Nat /\ C \in Nat
    BY SquareGrows
<1>2. B <= D /\ B \in Nat /\ D \in Nat
    BY SquareGrows
<1>3. P <= R /\ P \in Nat /\ R \in Nat
    BY SquareGrows
<1>4. Q <= S /\ Q \in Nat /\ S \in Nat
    BY SquareGrows
<1>5. P > 0 /\ Q > 0
    <2>1. h * h = (h - 1) * (h - 1) + 2 * (h - 1) + 1 /\ w * w = (w - 1) * (w - 1) + 2 * (w - 1) + 1
        OBVIOUS
    <2>2. h - 1 \in Nat /\ w - 1 \in Nat
        OBVIOUS
    <2>3. (h - 1) * (h - 1) \in Nat /\ (w - 1) * (w - 1) \in Nat
        BY <2>2
    <2> QED BY <2>1, <2>2, <2>3
<1>6. (U * h) * (U * h) = C * P /\ (V * w) * (V * w) = D * Q /\ (w * h) * (w * h) = Q * P
    OBVIOUS
<1>7. (u * H) * (u * H) = A * R /\ (v * W) * (v * W) = B * S /\ (W * H) * (W * H) = S * R
    OBVIOUS
<1> HIDE DEF A, B, C, D, P, Q, R, S
<1>8. A * P <= C * P /\ B * Q <= D * Q
    BY <1>1, <1>2, <1>3, <1>4, TimesGrows
<1>9. A * P \in Nat /\ C * P \in Nat /\ B * Q \in Nat /\ D * Q \in Nat /\ Q * P \in Nat
    BY <1>1, <1>2, <1>3, <1>4
<1>10. C * P + D * Q <= Q * P
    BY <1>6
<1>11. A * P + B * Q <= Q * P
    BY <1>8, <1>9, <1>10
<1>12. A * R + B * S <= S * R
    BY <1>1, <1>2, <1>3, <1>4, <1>5, <1>11, LargerEllipse
<1> QED BY <1>7, <1>12

(* A point in the ellipse of a box lies in the box.                        *)
LEMMA EllipseInside ==
    ASSUME NEW U \in Int, NEW V \in Int, NEW w \in Nat, NEW h \in Nat, w > 0, h > 0,
           (U * h) * (U * h) + (V * w) * (V * w) <= (w * h) * (w * h)
    PROVE  -w <= U /\ U <= w /\ -h <= V /\ V <= h
<1> DEFINE a == U * h
           b == V * w
           c == w * h
<1>1. a \in Int /\ b \in Int /\ c \in Nat
    OBVIOUS
<1>2. a * a \in Nat /\ b * b \in Nat /\ a * a + b * b <= c * c
    OBVIOUS
<1>3. ASSUME NEW n \in Int, n * n <= c * c PROVE -c <= n /\ n <= c
    <2> HIDE DEF c
    <2>1. CASE n > c
        <3>1. n * n = c * c + (n - c - 1) * (n + c) + (n + c)
            BY <1>1
        <3>2. (n - c - 1) * (n + c) \in Nat /\ n + c > 0 /\ c * c \in Nat
            <4>1. n - c - 1 \in Nat /\ n + c \in Nat /\ n + c > 0
                BY <1>1, <2>1
            <4>2. (n - c - 1) * (n + c) \in Nat
                BY <4>1
            <4> QED BY <4>1, <4>2, <1>1
        <3> QED BY <3>1, <3>2, <1>1, <1>3
    <2>2. CASE n < -c
        <3>1. n * n = c * c + (-n - c - 1) * (c - n) + (c - n)
            BY <1>1
        <3>2. (-n - c - 1) * (c - n) \in Nat /\ c - n > 0 /\ c * c \in Nat
            <4>1. -n - c - 1 \in Nat /\ c - n \in Nat /\ c - n > 0
                BY <1>1, <2>2
            <4>2. (-n - c - 1) * (c - n) \in Nat
                BY <4>1
            <4> QED BY <4>1, <4>2, <1>1
        <3> QED BY <3>1, <3>2, <1>1, <1>3
    <2> QED BY <2>1, <2>2, <1>1
<1>4. -c <= a /\ a <= c /\ -c <= b /\ b <= c
    <2>1. a * a <= c * c /\ b * b <= c * c
        <3>1. c * c \in Nat
            BY <1>1
        <3> HIDE DEF a, b, c
        <3> QED BY <3>1, <1>2
    <2> HIDE DEF a, b, c
    <2> QED BY <2>1, <1>1, <1>3
<1>5. ASSUME NEW n \in Int, NEW m \in Nat, NEW k \in Nat, k > 0, -(m * k) <= n * k, n * k <= m * k
      PROVE  -m <= n /\ n <= m
    <2>1. CASE n > m
        <3>1. n * k = m * k + (n - m - 1) * (k - 1) + (n - m - 1) + k
            OBVIOUS
        <3>2. n - m - 1 \in Nat /\ k - 1 \in Nat
            BY <2>1, <1>5
        <3>3. (n - m - 1) * (k - 1) \in Nat /\ m * k \in Nat
            BY <3>2
        <3> QED BY <3>1, <3>2, <3>3, <1>5
    <2>2. CASE n < -m
        <3>1. n * k = -(m * k) - (-n - m - 1) * (k - 1) - (-n - m - 1) - k
            OBVIOUS
        <3>2. -n - m - 1 \in Nat /\ k - 1 \in Nat
            BY <2>2, <1>5
        <3>3. (-n - m - 1) * (k - 1) \in Nat /\ m * k \in Nat
            BY <3>2
        <3> QED BY <3>1, <3>2, <3>3, <1>5
    <2> QED BY <2>1, <2>2
<1>6. -w <= U /\ U <= w
    BY <1>4, <1>5
<1>7. w * h = h * w
    OBVIOUS
<1>8. -h <= V /\ V <= h
    <2>1. -(h * w) <= V * w /\ V * w <= h * w
        BY <1>4, <1>7
    <2> QED BY <2>1, <1>5
<1> QED BY <1>6, <1>8

LEMMA BoxIs ==
    \A b \in SeenBoxes : /\ b.left \in Int /\ b.top \in Int /\ b.right \in Int /\ b.bottom \in Int
                         /\ b.score \in 0..100
BY DEF SeenBoxes

(* One side of an expanded box: where it begins, and its length, within n. *)
SideAt(lo, hi)    == AtLeast(100 * lo - Percent15(hi - lo), 0) \div 100
SideTo(lo, hi, n) == AtMost(AtLeast(100 * hi + Percent15(hi - lo), 0) \div 100, n)
BeginsAt(lo, hi, n) == AtMost(SideAt(lo, hi), n - 1)
Extends(lo, hi, n) ==
    AtMost(AtLeast(SideTo(lo, hi, n) - SideAt(lo, hi), 0), n - AtMost(SideAt(lo, hi), n - 1))

LEMMA ExpandedIs ==
    \A b : /\ Expanded(b).x = BeginsAt(b.left, b.right, frame[1])
           /\ Expanded(b).y = BeginsAt(b.top, b.bottom, frame[2])
           /\ Expanded(b).w = Extends(b.left, b.right, frame[1])
           /\ Expanded(b).h = Extends(b.top, b.bottom, frame[2])
BY DEF Expanded, SideAt, SideTo, BeginsAt, Extends

(* A side with its margins in the image is no shorter, and its middle is   *)
(* moved by half a pixel at the most.                                      *)
Grows(X, E, lo, hi, n) ==
    /\ X \in Nat /\ E \in Nat /\ E >= hi - lo /\ X <= lo /\ hi <= X + E /\ X + E <= n
    /\ (lo + hi) - 2 * X - E \in {0, 1}

LEMMA GrowsBy ==
    ASSUME NEW X, NEW E, NEW lo, NEW hi, NEW n, Grows(X, E, lo, hi, n)
    PROVE  /\ X \in Nat /\ E \in Nat /\ X <= lo /\ hi <= X + E
           /\ (lo + hi) - 2 * X - E \in {0, 1}
BY DEF Grows

LEMMA SideGrows ==
    ASSUME NEW lo \in Int, NEW hi \in Int, NEW n \in Nat, n > 0, lo < hi,
           100 * lo >= Percent15(hi - lo), 100 * (n - hi) >= Percent15(hi - lo)
    PROVE  Grows(BeginsAt(lo, hi, n), Extends(lo, hi, n), lo, hi, n)
<1> DEFINE w == hi - lo
           p == 100 * lo - 15 * w
           q == 100 * hi + 15 * w
           x == p \div 100
           y == q \div 100
<1>1. w \in Nat /\ w > 0 /\ p \in Nat /\ q \in Nat /\ q <= 100 * n
    BY DEF Percent15
<1>2. x \in Nat /\ 100 * x <= p /\ p < 100 * x + 100
    <2> HIDE DEF p
    <2> QED BY <1>1
<1>3. y \in Nat /\ 100 * y <= q /\ q < 100 * y + 100
    <2> HIDE DEF q
    <2> QED BY <1>1
<1>4. SideAt(lo, hi) = x
    BY <1>1 DEF SideAt, AtLeast, Percent15
<1>5. AtLeast(100 * hi + Percent15(hi - lo), 0) \div 100 = y
    BY <1>1 DEF AtLeast, Percent15
<1> HIDE DEF x, y
<1>6. x <= lo /\ hi <= y /\ y <= n
    BY <1>1, <1>2, <1>3
<1>6a. x <= n - 1 /\ y >= x /\ y - x <= n - x
    BY <1>2, <1>3, <1>6
<1> HIDE DEF p, q, w
<1>7. SideTo(lo, hi, n) = y
    BY <1>5, <1>6, <1>3 DEF SideTo, AtMost
<1>8. BeginsAt(lo, hi, n) = x
    BY <1>4, <1>6a, <1>2 DEF BeginsAt, AtMost
<1>9. Extends(lo, hi, n) = y - x
    <2>1. AtMost(x, n - 1) = x
        BY <1>6a, <1>2 DEF AtMost
    <2>2. AtLeast(y - x, 0) = y - x
        BY <1>6a, <1>2, <1>3 DEF AtLeast
    <2>3. AtMost(y - x, n - x) = y - x
        BY <1>6a, <1>2, <1>3 DEF AtMost
    <2> QED BY <2>1, <2>2, <2>3, <1>4, <1>7 DEF Extends
<1>10. lo + hi - x - y \in {0, 1}
    BY <1>1, <1>2, <1>3 DEF p, q, w
<1>11. x + (y - x) = y /\ lo + hi - 2 * x - (y - x) = lo + hi - x - y /\ y - x \in Nat /\ y - x >= hi - lo
    BY <1>2, <1>3, <1>6, <1>6a
<1> QED BY <1>2, <1>6, <1>8, <1>9, <1>10, <1>11 DEF Grows

(* A pixel on a side of an expanded box is within the margins.             *)
Stays(x, lo, hi, n) ==
    /\ x \in 0..n - 1
    /\ 100 * (x + 1) > 100 * lo - Percent15(hi - lo)
    /\ 100 * x < 100 * hi + Percent15(hi - lo)

LEMMA SideStays ==
    ASSUME NEW lo \in Int, NEW hi \in Int, NEW n \in Nat, n > 0,
           NEW k \in 0..Extends(lo, hi, n) - 1
    PROVE  Stays(BeginsAt(lo, hi, n) + k, lo, hi, n)
<1> DEFINE p == AtLeast(100 * lo - Percent15(hi - lo), 0)
           q == AtLeast(100 * hi + Percent15(hi - lo), 0)
           x == p \div 100
           y == q \div 100
           X == BeginsAt(lo, hi, n)
           E == Extends(lo, hi, n)
<1>1. /\ p \in Nat /\ p >= 100 * lo - Percent15(hi - lo)
      /\ q \in Nat /\ (q = 0 \/ q = 100 * hi + Percent15(hi - lo))
    BY DEF AtLeast, Percent15
<1>1a. Percent15(hi - lo) \in Int
    BY DEF Percent15
<1> HIDE DEF p, q
<1>2. x \in Nat /\ p < 100 * x + 100
    BY <1>1
<1>3. y \in Nat /\ 100 * y <= q
    BY <1>1
<1>4. SideAt(lo, hi) = x /\ SideTo(lo, hi, n) = AtMost(y, n)
    BY DEF SideAt, SideTo, p, q
<1> HIDE DEF x, y
<1>5. X = AtMost(x, n - 1) /\ E = AtMost(AtLeast(AtMost(y, n) - x, 0), n - AtMost(x, n - 1))
    BY <1>4 DEF BeginsAt, Extends
<1> HIDE DEF X, E
<1>6. E > 0 /\ k \in Nat /\ k < E
    <2>1. E \in Int
        BY <1>5, <1>2, <1>3 DEF AtMost, AtLeast
    <2> QED BY <2>1 DEF E
<1>7. x <= n - 1 /\ X = x /\ E <= y - x /\ E <= n - x /\ E \in Nat
    BY <1>2, <1>3, <1>5, <1>6 DEF AtMost, AtLeast
<1>8. X + k \in 0..n - 1
    BY <1>2, <1>6, <1>7
<1>9. 100 * (X + k + 1) > 100 * lo - Percent15(hi - lo)
    BY <1>1, <1>1a, <1>2, <1>6, <1>7
<1>10. 100 * (X + k) < 100 * hi + Percent15(hi - lo)
    <2>1. X + k <= y - 1
        BY <1>2, <1>3, <1>6, <1>7
    <2>2. q # 0
        BY <1>2, <1>3, <1>6, <1>7
    <2> QED BY <2>1, <2>2, <1>1, <1>1a, <1>2, <1>3, <1>6, <1>7
<1> QED BY <1>8, <1>9, <1>10 DEF X, Stays

(* All that is filled is in the image.                                     *)
LEMMA EllipseWithin ==
    ASSUME NEW b \in SeenBoxes, frame[1] \in Nat, frame[1] > 0, frame[2] \in Nat, frame[2] > 0,
           NEW p \in Ellipse(Expanded(b))
    PROVE  /\ p \in Pixels(frame)
           /\ 100 * (p[1] + 1) > 100 * b.left - Percent15(b.right - b.left)
           /\ 100 * p[1] < 100 * b.right + Percent15(b.right - b.left)
           /\ 100 * (p[2] + 1) > 100 * b.top - Percent15(b.bottom - b.top)
           /\ 100 * p[2] < 100 * b.bottom + Percent15(b.bottom - b.top)
<1> DEFINE e == Expanded(b)
<1>1. PICK q \in (0..e.w - 1) \X (0..e.h - 1) : p = <<e.x + q[1], e.y + q[2]>>
    BY DEF Ellipse
<1>2. /\ b.left \in Int /\ b.top \in Int /\ b.right \in Int /\ b.bottom \in Int
    BY BoxIs
<1>3. /\ e.x = BeginsAt(b.left, b.right, frame[1]) /\ e.w = Extends(b.left, b.right, frame[1])
      /\ e.y = BeginsAt(b.top, b.bottom, frame[2]) /\ e.h = Extends(b.top, b.bottom, frame[2])
    BY ExpandedIs
<1>4. p[1] = e.x + q[1] /\ p[2] = e.y + q[2] /\ q[1] \in 0..e.w - 1 /\ q[2] \in 0..e.h - 1
    BY <1>1
<1> HIDE DEF e
<1>5. Stays(p[1], b.left, b.right, frame[1])
    <2>1. q[1] \in 0..Extends(b.left, b.right, frame[1]) - 1
        BY <1>3, <1>4
    <2>2. Stays(BeginsAt(b.left, b.right, frame[1]) + q[1], b.left, b.right, frame[1])
        BY <2>1, <1>2, SideStays
    <2> QED BY <2>2, <1>3, <1>4
<1>6. Stays(p[2], b.top, b.bottom, frame[2])
    <2>1. q[2] \in 0..Extends(b.top, b.bottom, frame[2]) - 1
        BY <1>3, <1>4
    <2>2. Stays(BeginsAt(b.top, b.bottom, frame[2]) + q[2], b.top, b.bottom, frame[2])
        BY <2>1, <1>2, SideStays
    <2> QED BY <2>2, <1>3, <1>4
<1>7. p \in Pixels(frame)
    BY <1>1, <1>4, <1>5, <1>6 DEF Pixels, Stays
<1> QED BY <1>5, <1>6, <1>7 DEF Stays

(* Where a pixel is tested lies between two of its corners; m is what the  *)
(* corners add up to, s the sum of the side's ends.                        *)
LEMMA BetweenCorners ==
    ASSUME NEW p \in Int, NEW s \in Int, NEW d \in {0, 1}
    PROVE  \E x \in {p, p + 1} : \E U \in Nat :
              /\ U = 2 * x - s \/ U = -(2 * x - s)
              /\ -U <= 2 * p - s + d /\ 2 * p - s + d <= U
<1>1. CASE 2 * p - s >= 0
    <2>1. 2 * (p + 1) - s \in Nat /\ p + 1 \in {p, p + 1}
        BY <1>1
    <2> QED BY <2>1, <1>1
<1>2. CASE 2 * p - s < 0
    <2>1. -(2 * p - s) \in Nat /\ p \in {p, p + 1}
        BY <1>2
    <2>2. -(-(2 * p - s)) <= 2 * p - s + d /\ 2 * p - s + d <= -(2 * p - s)
        BY <1>2
    <2> QED BY <2>1, <2>2
<1> QED BY <1>1, <1>2

(* The pixels of a face with its margins in the image are filled.          *)
LEMMA FaceIsFilled ==
    ASSUME NEW b \in SeenBoxes, frame[1] \in Nat, frame[1] > 0, frame[2] \in Nat, frame[2] > 0,
           Proper(b), WithMargin(b), NEW p \in PixelsOfFace(b)
    PROVE  p \in Ellipse(Expanded(b))
<1> DEFINE e == Expanded(b)
           w == b.right - b.left
           h == b.bottom - b.top
           s == b.left + b.right
           t == b.top + b.bottom
<1>1. b.left \in Int /\ b.top \in Int /\ b.right \in Int /\ b.bottom \in Int
    BY BoxIs
<1>2. /\ e.x = BeginsAt(b.left, b.right, frame[1]) /\ e.w = Extends(b.left, b.right, frame[1])
      /\ e.y = BeginsAt(b.top, b.bottom, frame[2]) /\ e.h = Extends(b.top, b.bottom, frame[2])
    BY ExpandedIs
<1>3. w \in Nat /\ h \in Nat /\ w > 0 /\ h > 0 /\ s \in Int /\ t \in Int
    BY <1>1 DEF Proper
<1> HIDE DEF e
<1>4. /\ e.x \in Nat /\ e.w \in Nat /\ e.w >= w /\ e.x <= b.left /\ b.right <= e.x + e.w
      /\ s - 2 * e.x - e.w \in {0, 1}
    <2>1. 100 * b.left >= Percent15(b.right - b.left) /\ 100 * (frame[1] - b.right) >= Percent15(b.right - b.left)
        BY DEF WithMargin
    <2>2. b.left < b.right
        BY DEF Proper
    <2>3. Grows(BeginsAt(b.left, b.right, frame[1]), Extends(b.left, b.right, frame[1]), b.left, b.right, frame[1])
        BY <2>1, <2>2, <1>1, SideGrows
    <2>4. Grows(e.x, e.w, b.left, b.right, frame[1])
        BY <2>3, <1>2
    <2>5. /\ e.x \in Nat /\ e.w \in Nat /\ e.x <= b.left /\ b.right <= e.x + e.w
          /\ (b.left + b.right) - 2 * e.x - e.w \in {0, 1}
        BY <2>4, GrowsBy
    <2>6. e.w >= b.right - b.left
        BY <2>5, <1>1
    <2> QED BY <2>5, <2>6 DEF w, h, s, t
<1>5. /\ e.y \in Nat /\ e.h \in Nat /\ e.h >= h /\ e.y <= b.top /\ b.bottom <= e.y + e.h
      /\ t - 2 * e.y - e.h \in {0, 1}
    <2>1. 100 * b.top >= Percent15(b.bottom - b.top) /\ 100 * (frame[2] - b.bottom) >= Percent15(b.bottom - b.top)
        BY DEF WithMargin
    <2>2. b.top < b.bottom
        BY DEF Proper
    <2>3. Grows(BeginsAt(b.top, b.bottom, frame[2]), Extends(b.top, b.bottom, frame[2]), b.top, b.bottom, frame[2])
        BY <2>1, <2>2, <1>1, SideGrows
    <2>4. Grows(e.y, e.h, b.top, b.bottom, frame[2])
        BY <2>3, <1>2
    <2>5. /\ e.y \in Nat /\ e.h \in Nat /\ e.y <= b.top /\ b.bottom <= e.y + e.h
          /\ (b.top + b.bottom) - 2 * e.y - e.h \in {0, 1}
        BY <2>4, GrowsBy
    <2>6. e.h >= b.bottom - b.top
        BY <2>5, <1>1
    <2> QED BY <2>5, <2>6 DEF w, h, s, t
<1>6. p \in Pixels(frame) /\ \A x \in {p[1], p[1] + 1}, y \in {p[2], p[2] + 1} : InEllipse(x, y, b)
    BY DEF PixelsOfFace
<1>7. p[1] \in Int /\ p[2] \in Int /\ p = <<p[1], p[2]>>
    BY <1>6 DEF Pixels
<1> DEFINE i == p[1]
           j == p[2]
<1>8. \A x \in {i, i + 1}, y \in {j, j + 1} :
         /\ x \in Int /\ y \in Int
         /\ ((2 * x - s) * h) * ((2 * x - s) * h) + ((2 * y - t) * w) * ((2 * y - t) * w) <= (w * h) * (w * h)
    <2> SUFFICES ASSUME NEW x \in {i, i + 1}, NEW y \in {j, j + 1}
                 PROVE  /\ x \in Int /\ y \in Int
                        /\ ((2 * x - s) * h) * ((2 * x - s) * h) + ((2 * y - t) * w) * ((2 * y - t) * w)
                           <= (w * h) * (w * h)
        OBVIOUS
    <2>1. x \in Int /\ y \in Int
        BY <1>7
    <2>2. 2 * x - b.left - b.right = 2 * x - s /\ 2 * y - b.top - b.bottom = 2 * y - t
        BY <2>1, <1>1
    <2>3. InEllipse(x, y, b)
        BY <1>6
    <2> HIDE DEF s, t
    <2> QED BY <2>1, <2>2, <2>3 DEF InEllipse
<1> HIDE DEF w, h, s, t, i, j
<1>9. i \in Int /\ j \in Int
    BY <1>7 DEF i, j
<1>10. PICK x \in {i, i + 1} : \E U \in Nat :
              /\ U = 2 * x - s \/ U = -(2 * x - s)
              /\ -U <= 2 * i - s + (s - 2 * e.x - e.w) /\ 2 * i - s + (s - 2 * e.x - e.w) <= U
    <2> DEFINE d == s - 2 * e.x - e.w
    <2>1. d \in {0, 1}
        BY <1>4
    <2> HIDE DEF d
    <2>2. \E x \in {i, i + 1} : \E U \in Nat :
              /\ U = 2 * x - s \/ U = -(2 * x - s)
              /\ -U <= 2 * i - s + d /\ 2 * i - s + d <= U
        BY <2>1, <1>3, <1>9, BetweenCorners
    <2> QED BY <2>2 DEF d
<1>11. PICK y \in {j, j + 1} : \E V \in Nat :
              /\ V = 2 * y - t \/ V = -(2 * y - t)
              /\ -V <= 2 * j - t + (t - 2 * e.y - e.h) /\ 2 * j - t + (t - 2 * e.y - e.h) <= V
    <2> DEFINE d == t - 2 * e.y - e.h
    <2>1. d \in {0, 1}
        BY <1>5
    <2> HIDE DEF d
    <2>1a. t \in Int /\ j \in Int
        BY <1>3, <1>9
    <2>2. \E y \in {j, j + 1} : \E V \in Nat :
              /\ V = 2 * y - t \/ V = -(2 * y - t)
              /\ -V <= 2 * j - t + d /\ 2 * j - t + d <= V
        BY <2>1, <2>1a, BetweenCorners
    <2> QED BY <2>2 DEF d
<1>12. PICK U \in Nat :
              /\ U = 2 * x - s \/ U = -(2 * x - s)
              /\ -U <= 2 * (i - e.x) - e.w /\ 2 * (i - e.x) - e.w <= U
    <2>1. 2 * i - s + (s - 2 * e.x - e.w) = 2 * (i - e.x) - e.w
        BY <1>3, <1>4, <1>9
    <2> QED BY <2>1, <1>10
<1>13. PICK V \in Nat :
              /\ V = 2 * y - t \/ V = -(2 * y - t)
              /\ -V <= 2 * (j - e.y) - e.h /\ 2 * (j - e.y) - e.h <= V
    <2>1. 2 * j - t + (t - 2 * e.y - e.h) = 2 * (j - e.y) - e.h
        BY <1>3, <1>5, <1>9
    <2> QED BY <2>1, <1>11
<1>14. /\ ((2 * x - s) * h) * ((2 * x - s) * h) = (U * h) * (U * h)
       /\ ((2 * y - t) * w) * ((2 * y - t) * w) = (V * w) * (V * w)
    <2>1. x \in Int /\ y \in Int
        BY <1>8
    <2>2. \A m \in Int, k \in Int : ((-m) * k) * ((-m) * k) = (m * k) * (m * k)
        OBVIOUS
    <2>3. 2 * x - s \in Int /\ 2 * y - t \in Int /\ w \in Int /\ h \in Int
        BY <2>1, <1>3
    <2>4. ((-(2 * x - s)) * h) * ((-(2 * x - s)) * h) = ((2 * x - s) * h) * ((2 * x - s) * h)
        BY <2>2, <2>3
    <2>5. ((-(2 * y - t)) * w) * ((-(2 * y - t)) * w) = ((2 * y - t) * w) * ((2 * y - t) * w)
        BY <2>2, <2>3
    <2> QED BY <2>4, <2>5, <1>12, <1>13
<1>15. (U * h) * (U * h) + (V * w) * (V * w) <= (w * h) * (w * h)
    BY <1>8, <1>14
<1> DEFINE u == 2 * (i - e.x) - e.w
           v == 2 * (j - e.y) - e.h
<1>16. u \in Int /\ v \in Int
    BY <1>4, <1>5, <1>9
<1>17. (u * e.h) * (u * e.h) + (v * e.w) * (v * e.w) <= (e.w * e.h) * (e.w * e.h)
    <2>1. -U <= u /\ u <= U /\ -V <= v /\ v <= V
        BY <1>12, <1>13
    <2> HIDE DEF u, v
    <2>2. w <= e.w /\ h <= e.h /\ w > 0 /\ h > 0 /\ w \in Nat /\ h \in Nat
        BY <1>3, <1>4, <1>5
    <2> QED BY <2>1, <2>2, <1>4, <1>5, <1>15, <1>16, EllipseGrows
<1>18. i - e.x \in 0..e.w - 1 /\ j - e.y \in 0..e.h - 1
    <2>1. \A k \in {i, i + 1}, m \in {j, j + 1} :
             -w <= 2 * k - s /\ 2 * k - s <= w /\ -h <= 2 * m - t /\ 2 * m - t <= h
        <3> SUFFICES ASSUME NEW k \in {i, i + 1}, NEW m \in {j, j + 1}
                     PROVE  -w <= 2 * k - s /\ 2 * k - s <= w /\ -h <= 2 * m - t /\ 2 * m - t <= h
            OBVIOUS
        <3>1. 2 * k - s \in Int /\ 2 * m - t \in Int
            BY <1>3, <1>9
        <3>2. ((2 * k - s) * h) * ((2 * k - s) * h) + ((2 * m - t) * w) * ((2 * m - t) * w) <= (w * h) * (w * h)
            BY <1>8
        <3> QED BY <3>1, <3>2, <1>3, EllipseInside
    <2>2. -w <= 2 * i - s /\ 2 * (i + 1) - s <= w /\ -h <= 2 * j - t /\ 2 * (j + 1) - t <= h
        BY <2>1
    <2>3. w = b.right - b.left /\ h = b.bottom - b.top /\ s = b.left + b.right /\ t = b.top + b.bottom
        BY DEF w, h, s, t
    <2>4. b.left <= i /\ i + 1 <= b.right /\ b.top <= j /\ j + 1 <= b.bottom
        BY <2>2, <2>3, <1>1, <1>9
    <2> QED BY <2>4, <1>1, <1>4, <1>5, <1>9
<1>19. p = <<e.x + (i - e.x), e.y + (j - e.y)>>
    BY <1>4, <1>5, <1>7, <1>9 DEF i, j
<1>20. <<i - e.x, j - e.y>> \in {q \in (0..e.w - 1) \X (0..e.h - 1) :
           ((2 * q[1] - e.w) * e.h) * ((2 * q[1] - e.w) * e.h)
           + ((2 * q[2] - e.h) * e.w) * ((2 * q[2] - e.h) * e.w)
           <= (e.w * e.h) * (e.w * e.h)}
    BY <1>17, <1>18
<1>21. p \in Ellipse(e)
    <2> DEFINE qq == <<i - e.x, j - e.y>>
    <2>1. p = <<e.x + qq[1], e.y + qq[2]>>
        BY <1>19
    <2> HIDE DEF qq
    <2> QED BY <2>1, <1>20 DEF Ellipse, qq
<1> QED BY <1>21 DEF e

(* What a detector leaves of a box is a box; Ultra-Light and SCRFD only    *)
(* leave boxes within the image.                                           *)
Fits(b, f) ==
    /\ b.left < b.right /\ b.top < b.bottom
    /\ b.left >= 0 /\ b.top >= 0 /\ b.right <= f[1] /\ b.bottom <= f[2]
    /\ b.score > 0 /\ b.score <= 100

LEMMA ClampIs ==
    ASSUME NEW b \in SeenBoxes, NEW f, f[1] \in Nat, f[2] \in Nat
    PROVE  /\ Clamp(b, f) = [left |-> AtLeast(b.left, 0), top |-> AtLeast(b.top, 0),
                             right |-> AtMost(b.right, f[1]), bottom |-> AtMost(b.bottom, f[2]),
                             score |-> b.score]
           /\ Clamp(b, f) \in SeenBoxes
<1>1. /\ b.left \in Int /\ b.top \in Int /\ b.right \in Int /\ b.bottom \in Int /\ b.score \in 0..100
      /\ b = [left |-> b.left, top |-> b.top, right |-> b.right, bottom |-> b.bottom, score |-> b.score]
    BY DEF SeenBoxes
<1> DEFINE l == AtLeast(b.left, 0)
           t == AtLeast(b.top, 0)
           r == AtMost(b.right, f[1])
           u == AtMost(b.bottom, f[2])
<1>2. l \in Int /\ t \in Int /\ r \in Int /\ u \in Int
    BY <1>1 DEF AtLeast, AtMost
<1>3. Clamp(b, f) = [left |-> l, top |-> t, right |-> r, bottom |-> u, score |-> b.score]
    <2> HIDE DEF l, t, r, u
    <2>1. Clamp(b, f) = [b EXCEPT !.left = l, !.top = t, !.right = r, !.bottom = u]
        BY DEF Clamp, l, t, r, u, SeenBoxes
    <2> QED BY <1>1, <2>1
<1>4. [left |-> l, top |-> t, right |-> r, bottom |-> u, score |-> b.score] \in SeenBoxes
    <2> HIDE DEF l, t, r, u
    <2> QED BY <1>1, <1>2 DEF SeenBoxes
<1> QED BY <1>3, <1>4

(* A box that is clamped on both sides.                                    *)
InsideFrame(b, f) == [Clamp(b, f) EXCEPT !.left = AtMost(@, f[1]), !.top = AtMost(@, f[2]),
                                    !.right = AtLeast(@, 0), !.bottom = AtLeast(@, 0)]

LEMMA InsideIs ==
    ASSUME NEW b \in SeenBoxes, NEW f, f[1] \in Nat, f[2] \in Nat
    PROVE  /\ InsideFrame(b, f) \in SeenBoxes /\ InsideFrame(b, f).score = b.score
           /\ InsideFrame(b, f).left >= 0 /\ InsideFrame(b, f).top >= 0
           /\ InsideFrame(b, f).right <= f[1] /\ InsideFrame(b, f).bottom <= f[2]
<1> DEFINE c == Clamp(b, f)
<1>1. /\ c = [left |-> AtLeast(b.left, 0), top |-> AtLeast(b.top, 0),
              right |-> AtMost(b.right, f[1]), bottom |-> AtMost(b.bottom, f[2]), score |-> b.score]
      /\ c \in SeenBoxes
    BY ClampIs
<1>2. /\ c.left = AtLeast(b.left, 0) /\ c.top = AtLeast(b.top, 0) /\ c.right = AtMost(b.right, f[1])
      /\ c.bottom = AtMost(b.bottom, f[2]) /\ c.score = b.score
    BY <1>1
<1> HIDE DEF c
<1>3. /\ c.left \in Int /\ c.top \in Int /\ c.right \in Int /\ c.bottom \in Int /\ c.score \in 0..100
      /\ c = [left |-> c.left, top |-> c.top, right |-> c.right, bottom |-> c.bottom, score |-> c.score]
    BY <1>1 DEF SeenBoxes
<1> DEFINE l == AtMost(c.left, f[1])
           t == AtMost(c.top, f[2])
           r == AtLeast(c.right, 0)
           u == AtLeast(c.bottom, 0)
<1>4. b.left \in Int /\ b.top \in Int /\ b.right \in Int /\ b.bottom \in Int
    BY BoxIs
<1>5. /\ l \in Int /\ t \in Int /\ r \in Int /\ u \in Int
      /\ l >= 0 /\ t >= 0 /\ r <= f[1] /\ u <= f[2]
    BY <1>2, <1>3, <1>4 DEF AtLeast, AtMost
<1> HIDE DEF l, t, r, u
<1>6. InsideFrame(b, f) = [c EXCEPT !.left = l, !.top = t, !.right = r, !.bottom = u]
    BY <1>1 DEF InsideFrame, c, l, t, r, u, SeenBoxes
<1>7. InsideFrame(b, f) = [left |-> l, top |-> t, right |-> r, bottom |-> u, score |-> c.score]
    BY <1>3, <1>6
<1>8. [left |-> l, top |-> t, right |-> r, bottom |-> u, score |-> c.score] \in SeenBoxes
    BY <1>3, <1>5 DEF SeenBoxes
<1> DEFINE d == InsideFrame(b, f)
<1>9. d.left = l /\ d.top = t /\ d.right = r /\ d.bottom = u /\ d.score = c.score /\ d \in SeenBoxes
    BY <1>7, <1>8
<1> HIDE DEF d
<1>10. d \in SeenBoxes /\ d.score = b.score /\ d.left >= 0 /\ d.top >= 0 /\ d.right <= f[1] /\ d.bottom <= f[2]
    BY <1>2, <1>5, <1>9
<1> QED BY <1>10 DEF d

LEMMA SureIs ==
    ASSUME NEW look \in Seq(SeenBoxes), FaceThreshold \in 1..100
    PROVE  Sure(look) \in Seq({b \in SeenBoxes : b.score > 0})
<1> DEFINE S == {b \in Range(look) : b.score >= FaceThreshold}
<1>1. Sure(look) \in Seq(SeenBoxes \cap S)
    BY ThoseElements DEF Sure
<1>2. SeenBoxes \cap S \subseteq {b \in SeenBoxes : b.score > 0}
    <2> SUFFICES ASSUME NEW b \in SeenBoxes \cap S PROVE b.score > 0
        OBVIOUS
    <2> DEFINE c == b.score
    <2>1. c \in 0..100 /\ c >= FaceThreshold
        BY BoxIs
    <2> HIDE DEF c
    <2>2. c > 0
        BY <2>1
    <2> QED BY <2>2 DEF c
<1> HIDE DEF S
<1> QED BY <1>1, <1>2

LEMMA ProperOnes ==
    ASSUME NEW X, NEW s \in Seq(X), X \subseteq SeenBoxes
    PROVE  ProperBoxes(s) \in Seq({b \in X : b.left < b.right /\ b.top < b.bottom})
<1> DEFINE S == {b \in Range(s) : Proper(b)}
<1>1. ProperBoxes(s) \in Seq(X \cap S)
    BY ThoseElements DEF ProperBoxes
<1>2. X \cap S \subseteq {b \in X : b.left < b.right /\ b.top < b.bottom}
    <2> SUFFICES ASSUME NEW b \in X \cap S PROVE b.left < b.right /\ b.top < b.bottom
        OBVIOUS
    <2>1. b \in SeenBoxes /\ Proper(b)
        OBVIOUS
    <2> QED BY <2>1, BoxIs DEF Proper
<1> HIDE DEF S
<1> QED BY <1>1, <1>2

LEMMA SeqWithin == \A X, Y : X \subseteq Y => Seq(X) \subseteq Seq(Y)
<1> SUFFICES ASSUME NEW X, NEW Y, X \subseteq Y, NEW s \in Seq(X) PROVE s \in Seq(Y)
    OBVIOUS
<1> QED OBVIOUS

LEMMA BoxesDecodedIs ==
    ASSUME NEW look \in Seq(SeenBoxes), FaceThreshold \in 1..100, detector \in Detectors,
           NEW f, f[1] \in Nat, f[2] \in Nat
    PROVE  /\ DecodeBoxes(look, f) \in Seq(SeenBoxes)
           /\ detector # "blazeface" => \A b \in ToSet(DecodeBoxes(look, f)) : Fits(b, f)
<1> DEFINE X == {b \in SeenBoxes : b.score > 0}
           U == {b \in X : b.left >= 0 /\ b.top >= 0 /\ b.right <= f[1] /\ b.bottom <= f[2]}
           P == {b \in U : b.left < b.right /\ b.top < b.bottom}
           q == Sure(look)
<1>1. q \in Seq(X)
    BY SureIs
<1>2. \A b \in X : b \in SeenBoxes /\ b.score \in Nat /\ b.score > 0 /\ b.score <= 100
    <2> SUFFICES ASSUME NEW b \in X PROVE b.score \in Nat /\ b.score <= 100
        OBVIOUS
    <2> QED BY ScoreIs
<1>3. \A b \in X : InsideFrame(b, f) \in U
    BY InsideIs
<1>4. \A b \in X : Clamp(b, f) \in U
    <2> SUFFICES ASSUME NEW b \in X PROVE Clamp(b, f) \in U
        OBVIOUS
    <2> DEFINE c == Clamp(b, f)
    <2>1. b.left \in Int /\ b.top \in Int /\ b.right \in Int /\ b.bottom \in Int /\ b.score > 0
        BY BoxIs
    <2>2. /\ c.left = AtLeast(b.left, 0) /\ c.top = AtLeast(b.top, 0) /\ c.right = AtMost(b.right, f[1])
          /\ c.bottom = AtMost(b.bottom, f[2]) /\ c.score = b.score /\ c \in SeenBoxes
        BY ClampIs
    <2> HIDE DEF c
    <2>3. c.left >= 0 /\ c.top >= 0 /\ c.right <= f[1] /\ c.bottom <= f[2] /\ c.score > 0
        BY <2>1, <2>2 DEF AtLeast, AtMost
    <2>4. c \in U
        BY <2>2, <2>3
    <2> QED BY <2>4 DEF c
<1>5. U \subseteq SeenBoxes /\ P \subseteq SeenBoxes /\ \A b \in P : Fits(b, f)
    BY <1>2 DEF Fits
<1>6. ASSUME NEW d \in Seq(P) PROVE \A b \in ToSet(d) : Fits(b, f)
    <2> HIDE DEF P
    <2>1. ToSet(d) \subseteq P
        BY ToSetElements
    <2> QED BY <2>1, <1>5
<1> DEFINE cs == [i \in DOMAIN q |-> Clamp(q[i], f)]
           is == [i \in DOMAIN q |-> InsideFrame(q[i], f)]
<1> HIDE DEF q, X, U
<1>7. cs \in Seq(U)
    <2>1. DOMAIN q = 1..Len(q) /\ Len(q) \in Nat /\ \A i \in 1..Len(q) : q[i] \in X
        BY <1>1
    <2>2. \A i \in 1..Len(q) : Clamp(q[i], f) \in U
        BY <2>1, <1>4
    <2> QED BY <2>1, <2>2
<1>8. is \in Seq(U)
    <2>1. DOMAIN q = 1..Len(q) /\ Len(q) \in Nat /\ \A i \in 1..Len(q) : q[i] \in X
        BY <1>1
    <2>2. \A i \in 1..Len(q) : InsideFrame(q[i], f) \in U
        BY <2>1, <1>3
    <2> QED BY <2>1, <2>2
<1> HIDE DEF cs, is
<1>9. cs \in Seq(SeenBoxes)
    BY <1>5, <1>7, SeqWithin
<1>10. ProperBoxes(cs) \in Seq(P) /\ ProperBoxes(is) \in Seq(P)
    BY <1>5, <1>7, <1>8, ProperOnes
<1>11. \A d \in Seq(P) : d \in Seq(SeenBoxes) /\ \A b \in ToSet(d) : Fits(b, f)
    <2> TAKE d \in Seq(P)
    <2>1. d \in Seq(SeenBoxes)
        <3> HIDE DEF P
        <3> QED BY <1>5, SeqWithin
    <2> QED BY <2>1, <1>6
<1>12. CASE detector = "blazeface"
    <2>1. DecodeBoxes(look, f) = cs
        BY <1>12 DEF DecodeBoxes, BlazeFaceBoxes, cs, q
    <2> QED BY <2>1, <1>9, <1>12
<1>13. CASE detector = "ultralight"
    <2>1. DecodeBoxes(look, f) = ProperBoxes(is)
        BY <1>13 DEF DecodeBoxes, UltraLightBoxes, is, q, InsideFrame
    <2> HIDE DEF P
    <2> QED BY <2>1, <1>10, <1>11
<1>14. CASE detector = "scrfd"
    <2>1. DecodeBoxes(look, f) = ProperBoxes(cs)
        BY <1>14 DEF DecodeBoxes, ScrfdBoxes, cs, q
    <2> HIDE DEF P
    <2> QED BY <2>1, <1>10, <1>11
<1> QED BY <1>12, <1>13, <1>14 DEF Detectors

(* Boxes that overlap by more overlap by less.                             *)
LEMMA OverlapsLess ==
    ASSUME NEW a \in SeenBoxes, NEW b \in SeenBoxes, NEW p \in Nat, NEW q \in Nat, q <= p,
           IouOver(a, b, p)
    PROVE  IouOver(a, b, q)
<1> DEFINE S == Shared(a, b)
           U == Area(a) + Area(b) - S
<1>1. /\ a.left \in Int /\ a.top \in Int /\ a.right \in Int /\ a.bottom \in Int
      /\ b.left \in Int /\ b.top \in Int /\ b.right \in Int /\ b.bottom \in Int
    BY BoxIs
<1>2. Area(a) \in Int /\ Area(b) \in Int
    <2>1. \A n, m \in Int : n * m \in Int
        OBVIOUS
    <2>2. /\ a.right - a.left \in Int /\ a.bottom - a.top \in Int
          /\ b.right - b.left \in Int /\ b.bottom - b.top \in Int
        BY <1>1
    <2> QED BY <2>1, <2>2 DEF Area
<1>3. S \in Int
    <2> DEFINE x == AtMost(a.right, b.right) - AtLeast(a.left, b.left)
               y == AtMost(a.bottom, b.bottom) - AtLeast(a.top, b.top)
    <2>1. x \in Int /\ y \in Int
        BY <1>1 DEF AtLeast, AtMost
    <2>2. S = AtLeast(x, 0) * AtLeast(y, 0)
        BY DEF Shared
    <2> HIDE DEF x, y, S
    <2>3. AtLeast(x, 0) \in Int /\ AtLeast(y, 0) \in Int
        BY <2>1 DEF AtLeast
    <2>4. \A n, m \in Int : n * m \in Int
        OBVIOUS
    <2> QED BY <2>2, <2>3, <2>4
<1>4. U > 0 /\ 100 * S > p * U
    BY DEF IouOver
<1>5. U \in Int
    BY <1>2, <1>3
<1> HIDE DEF S, U
<1>6. q * U <= p * U /\ q * U \in Int /\ p * U \in Int
    <2>1. U \in Nat
        BY <1>4, <1>5
    <2>2. q * U <= p * U
        BY <2>1, TimesGrows
    <2> QED BY <2>1, <2>2
<1>7. U > 0 /\ 100 * S > q * U
    BY <1>3, <1>4, <1>6
<1> QED BY <1>7 DEF IouOver, S, U

LEMMA LessDisjoint ==
    ASSUME NEW v \in Seq(SeenBoxes), NEW p \in Nat, NEW q \in Nat, q <= p, BoxesApart(v, q)
    PROVE  BoxesApart(v, p)
<1>1. \A i \in 1..Len(v) : v[i] \in SeenBoxes
    OBVIOUS
<1>2. ASSUME NEW i \in 1..Len(v), NEW j \in 1..Len(v), i < j PROVE ~IouOver(v[i], v[j], p)
    <2>1. v[i] \in SeenBoxes /\ v[j] \in SeenBoxes /\ ~IouOver(v[i], v[j], q)
        BY <1>1, <1>2 DEF BoxesApart
    <2> QED BY <2>1, OverlapsLess
<1> QED BY <1>2 DEF BoxesApart

LEMMA LessGivesWay ==
    ASSUME NEW b \in SeenBoxes, NEW v \in Seq(SeenBoxes), NEW p \in Nat, NEW q \in Nat, q <= p,
           GivesWay(b, v, p)
    PROVE  GivesWay(b, v, q)
<1>1. PICK k \in ToSet(v) : k.score >= b.score /\ (k = b \/ IouOver(k, b, p))
    BY DEF GivesWay
<1>2. k \in SeenBoxes
    BY ToSetElements
<1>3. k = b \/ IouOver(k, b, q)
    BY <1>1, <1>2, OverlapsLess
<1> QED BY <1>1, <1>3 DEF GivesWay

(* What non-maximum suppression keeps, in the terms of FacesAreHidden.     *)
Suppressed(boxes, v) ==
    /\ v \in Seq(SeenBoxes) /\ ToSet(v) \subseteq ToSet(boxes)
    /\ \A b \in ToSet(boxes) : GivesWay(b, v, 30)
    /\ BoxesApart(v, 50)

LEMMA NmsSuppresses ==
    ASSUME NEW boxes \in Seq(SeenBoxes), NEW percent \in {30, 40}
    PROVE  Suppressed(boxes, Nms(boxes, percent))
<1> DEFINE v == Nms(boxes, percent)
<1>1. /\ v \in Seq(SeenBoxes) /\ ToSet(v) \subseteq ToSet(boxes)
      /\ \A b \in ToSet(boxes) : GivesWay(b, v, percent)
      /\ BoxesApart(v, percent)
    BY NmsIs
<1> HIDE DEF v
<1>2. percent \in Nat /\ 30 \in Nat /\ 50 \in Nat /\ 30 <= percent /\ percent <= 50
    OBVIOUS
<1>3. BoxesApart(v, 50)
    BY <1>1, <1>2, LessDisjoint
<1>4. ASSUME NEW b \in ToSet(boxes) PROVE GivesWay(b, v, 30)
    <2>1. b \in SeenBoxes
        BY ToSetElements
    <2> QED BY <2>1, <1>1, <1>2, LessGivesWay
<1> QED BY <1>1, <1>3, <1>4 DEF Suppressed, v

LEMMA RemapIs ==
    ASSUME NEW b \in SeenBoxes, NEW o, o[1] \in Int, o[2] \in Int
    PROVE  Remap(b, o) \in SeenBoxes
<1>1. /\ b.left \in Int /\ b.top \in Int /\ b.right \in Int /\ b.bottom \in Int /\ b.score \in 0..100
      /\ b = [left |-> b.left, top |-> b.top, right |-> b.right, bottom |-> b.bottom, score |-> b.score]
    BY DEF SeenBoxes
<1> DEFINE l == b.left + o[1]
           t == b.top + o[2]
           r == b.right + o[1]
           u == b.bottom + o[2]
<1>2. l \in Int /\ t \in Int /\ r \in Int /\ u \in Int
    BY <1>1
<1>3. Remap(b, o) = [b EXCEPT !.left = l, !.right = r, !.top = t, !.bottom = u]
    BY DEF Remap, SeenBoxes
<1> HIDE DEF l, t, r, u
<1>4. Remap(b, o) = [left |-> l, top |-> t, right |-> r, bottom |-> u, score |-> b.score]
    BY <1>1, <1>3
<1> QED BY <1>1, <1>2, <1>4 DEF SeenBoxes

-----------------------------------------------------------------------------
(* The inductive invariant: what was found is boxes, of the detectors that *)
(* clamp on both sides boxes in the image; what is kept was found, and once*)
(* it is filled stands for all that was.                                   *)
FaceInv ==
    /\ detector \in Detectors /\ frame \in Frames /\ tileAt \in 0..4
    /\ faceStage \in {"look", "tile", "merge", "fill", "done"}
    /\ found \in Seq(SeenBoxes) /\ faces \in Seq(SeenBoxes)
    /\ ToSet(faces) \subseteq ToSet(found)
    /\ faceStage \in {"tile", "merge"} => detector = "blazeface"
    /\ detector # "blazeface" => \A b \in ToSet(found) : Fits(b, frame)
    /\ faceStage \in {"fill", "done"} => Suppressed(found, faces)
    /\ blanked = IF faceStage = "done" THEN UNION {FillOf(b) : b \in Range(faces)} ELSE {}

LEMMA FrameIs ==
    ASSUME NEW f \in Frames
    PROVE  f[1] \in Nat /\ f[2] \in Nat /\ f[1] > 0 /\ f[2] > 0
<1>1. f[1] \in Nat \ {0} /\ f[2] \in Nat \ {0}
    BY FaceAssumption
<1> QED BY <1>1

LEMMA FaceInitInv == FaceInit => FaceInv
<1> SUFFICES ASSUME FaceInit PROVE FaceInv
    OBVIOUS
<1>1. <<>> \in Seq(SeenBoxes) /\ ToSet(<<>>) = {}
    BY DEF ToSet
<1>2. /\ detector \in Detectors /\ frame \in Frames /\ tileAt = 0 /\ found = <<>> /\ faces = <<>>
      /\ faceStage = "look" /\ blanked = {}
    BY DEF FaceInit
<1> QED BY <1>1, <1>2 DEF FaceInv

LEMMA LookAtImageInv == FaceInv /\ LookAtImage => FaceInv'
<1> SUFFICES ASSUME FaceInv, LookAtImage PROVE FaceInv'
    OBVIOUS
<1>1. /\ detector \in Detectors /\ frame \in Frames /\ tileAt \in 0..4 /\ blanked = {}
      /\ FaceThreshold \in 1..100
    BY FaceAssumption DEF FaceInv, LookAtImage
<1>2. PICK look \in Looks :
         /\ found' = DecodeBoxes(look, frame)
         /\ faces' = Nms(DecodeBoxes(look, frame), NmsThreshold)
         /\ IF detector = "blazeface" /\ DecodeBoxes(look, frame) = <<>> /\ Large
            THEN faceStage' = "tile" /\ tileAt' = 1
            ELSE faceStage' = "fill" /\ UNCHANGED tileAt
    BY DEF LookAtImage
<1>3. detector' = detector /\ frame' = frame /\ blanked' = {}
    BY <1>1 DEF LookAtImage
<1>4. look \in Seq(SeenBoxes) /\ frame[1] \in Nat /\ frame[2] \in Nat
    BY <1>1, FaceAssumption, FrameIs
<1> DEFINE d == DecodeBoxes(look, frame)
<1>5. d \in Seq(SeenBoxes) /\ (detector # "blazeface" => \A b \in ToSet(d) : Fits(b, frame))
    BY <1>1, <1>4, BoxesDecodedIs
<1>6. NmsThreshold \in {30, 40}
    BY DEF NmsThreshold
<1> HIDE DEF d
<1>7. Suppressed(d, Nms(d, NmsThreshold))
    BY <1>5, <1>6, NmsSuppresses
<1>8. found' = d /\ Suppressed(found', faces')
    BY <1>2, <1>7 DEF d
<1>9. faces' \in Seq(SeenBoxes) /\ ToSet(faces') \subseteq ToSet(found')
    BY <1>8 DEF Suppressed
<1>10. /\ faceStage' \in {"tile", "fill"} /\ tileAt' \in 0..4
       /\ faceStage' = "tile" => detector = "blazeface"
    BY <1>1, <1>2
<1>11. Suppressed(found, faces)'
    BY <1>8 DEF Suppressed, GivesWay, BoxesApart
<1>12. (detector # "blazeface" => \A b \in ToSet(found) : Fits(b, frame))'
    BY <1>3, <1>5, <1>8 DEF Fits
<1> QED BY <1>1, <1>3, <1>5, <1>8, <1>9, <1>10, <1>11, <1>12 DEF FaceInv

LEMMA LookAtTileInv == FaceInv /\ LookAtTile => FaceInv'
<1> SUFFICES ASSUME FaceInv, LookAtTile PROVE FaceInv'
    OBVIOUS
<1>1. /\ detector \in Detectors /\ frame \in Frames /\ tileAt \in 0..4 /\ blanked = {}
      /\ FaceThreshold \in 1..100 /\ detector = "blazeface"
      /\ found \in Seq(SeenBoxes) /\ faces \in Seq(SeenBoxes) /\ ToSet(faces) \subseteq ToSet(found)
    BY FaceAssumption DEF FaceInv, LookAtTile
<1> DEFINE near(look) == Nms(DecodeBoxes(look, TileSize), NmsThreshold)
<1>2. PICK look \in TileLooks :
         found' = found \o [i \in DOMAIN near(look) |-> Remap(near(look)[i], TileOrigin(tileAt))]
    BY DEF LookAtTile
<1>3. detector' = detector /\ frame' = frame /\ blanked' = {} /\ faces' = faces
    BY <1>1 DEF LookAtTile
<1>4. look \in Seq(SeenBoxes) /\ frame[1] \in Nat /\ frame[2] \in Nat
    BY <1>1, FaceAssumption, FrameIs
<1>5. faceStage' \in {"tile", "merge"} /\ tileAt' \in 0..4
    BY <1>1 DEF LookAtTile
<1> DEFINE f == TileSize
           o == TileOrigin(tileAt)
<1>6. f[1] \in Nat /\ f[2] \in Nat
    BY <1>4 DEF TileSize
<1>7. o[1] \in Int /\ o[2] \in Int
    BY <1>4, <1>6 DEF TileOrigin
<1> HIDE DEF f, o
<1>8. DecodeBoxes(look, f) \in Seq(SeenBoxes)
    BY <1>1, <1>4, <1>6, BoxesDecodedIs
<1> DEFINE q == near(look)
<1>9. q \in Seq(SeenBoxes)
    <2>1. NmsThreshold \in {30, 40}
        BY DEF NmsThreshold
    <2>2. Suppressed(DecodeBoxes(look, f), q)
        BY <2>1, <1>8, NmsSuppresses DEF f
    <2> HIDE DEF q
    <2> QED BY <2>2 DEF Suppressed
<1> DEFINE r == [i \in DOMAIN q |-> Remap(q[i], o)]
<1>10. found' = found \o r
    BY <1>2 DEF o
<1> HIDE DEF near, q
<1>11. r \in Seq(SeenBoxes)
    <2>1. DOMAIN q = 1..Len(q) /\ Len(q) \in Nat /\ \A i \in 1..Len(q) : q[i] \in SeenBoxes
        BY <1>9
    <2>2. \A i \in 1..Len(q) : Remap(q[i], o) \in SeenBoxes
        BY <2>1, <1>7, RemapIs
    <2> QED BY <2>1, <2>2
<1> HIDE DEF r
<1>12. found \o r \in Seq(SeenBoxes)
    BY <1>1, <1>11
<1>13. ToSet(found \o r) = ToSet(found) \cup ToSet(r)
    BY <1>1, <1>11, ToSetConcat
<1>14. ToSet(faces') \subseteq ToSet(found')
    BY <1>1, <1>3, <1>10, <1>13
<1> QED BY <1>1, <1>3, <1>5, <1>10, <1>12, <1>14 DEF FaceInv

LEMMA MergeTilesInv == FaceInv /\ MergeTiles => FaceInv'
<1> SUFFICES ASSUME FaceInv, MergeTiles PROVE FaceInv'
    OBVIOUS
<1>1. /\ detector \in Detectors /\ frame \in Frames /\ tileAt \in 0..4 /\ blanked = {}
      /\ detector = "blazeface" /\ found \in Seq(SeenBoxes)
    BY DEF FaceInv, MergeTiles
<1>2. /\ faces' = Nms(found, 30) /\ faceStage' = "fill" /\ detector' = detector /\ frame' = frame
      /\ tileAt' = tileAt /\ found' = found /\ blanked' = {}
    BY <1>1 DEF MergeTiles
<1>3. Suppressed(found, faces')
    BY <1>1, <1>2, NmsSuppresses
<1>4. Suppressed(found, faces)'
    BY <1>2, <1>3 DEF Suppressed, GivesWay, BoxesApart
<1>5. faces' \in Seq(SeenBoxes) /\ ToSet(faces') \subseteq ToSet(found')
    BY <1>2, <1>3 DEF Suppressed
<1> QED BY <1>1, <1>2, <1>4, <1>5 DEF FaceInv

LEMMA FillFacesInv == FaceInv /\ FillFaces => FaceInv'
<1> SUFFICES ASSUME FaceInv, FillFaces PROVE FaceInv'
    OBVIOUS
<1>1. /\ detector \in Detectors /\ frame \in Frames /\ tileAt \in 0..4
      /\ found \in Seq(SeenBoxes) /\ faces \in Seq(SeenBoxes) /\ ToSet(faces) \subseteq ToSet(found)
      /\ (detector # "blazeface" => \A b \in ToSet(found) : Fits(b, frame))
      /\ Suppressed(found, faces)
    BY DEF FaceInv, FillFaces
<1>2. /\ faceStage' = "done" /\ detector' = detector /\ frame' = frame
      /\ tileAt' = tileAt /\ found' = found /\ faces' = faces
      /\ blanked' = UNION {FillOf(b) : b \in Range(faces)}
    BY DEF FillFaces
<1>3. \A b : FillOf(b)' = FillOf(b)
    BY <1>2 DEF FillOf, Dominates, Pixels, Expanded
<1>4. (UNION {FillOf(b) : b \in Range(faces)})' = UNION {FillOf(b) : b \in Range(faces)}
    BY <1>2, <1>3
<1>5. Suppressed(found, faces)'
    BY <1>1, <1>2 DEF Suppressed, GivesWay, BoxesApart
<1>6. (detector # "blazeface" => \A b \in ToSet(found) : Fits(b, frame))'
    BY <1>1, <1>2 DEF Fits
<1> QED BY <1>1, <1>2, <1>4, <1>5, <1>6 DEF FaceInv

LEMMA FaceStepInv == FaceInv /\ [FaceNext]_faceVars => FaceInv'
<1> SUFFICES ASSUME FaceInv, [FaceNext]_faceVars PROVE FaceInv'
    OBVIOUS
<1>1. CASE LookAtImage
    BY <1>1, LookAtImageInv
<1>2. CASE LookAtTile
    BY <1>2, LookAtTileInv
<1>3. CASE MergeTiles
    BY <1>3, MergeTilesInv
<1>4. CASE FillFaces
    BY <1>4, FillFacesInv
<1>5. CASE UNCHANGED faceVars
    <2>1. /\ detector' = detector /\ frame' = frame /\ tileAt' = tileAt /\ found' = found
          /\ faces' = faces /\ faceStage' = faceStage /\ blanked' = blanked
        BY <1>5 DEF faceVars
    <2>2. FillOf(1)' = FillOf(1) /\ \A b : FillOf(b)' = FillOf(b)
        BY <2>1 DEF FillOf, Dominates, Pixels, Expanded
    <2>3. (UNION {FillOf(b) : b \in Range(faces)})' = UNION {FillOf(b) : b \in Range(faces)}
        BY <2>1, <2>2
    <2> QED BY <2>1, <2>3 DEF FaceInv, Suppressed, GivesWay, BoxesApart, Fits
<1> QED BY <1>1, <1>2, <1>3, <1>4, <1>5 DEF FaceNext

LEMMA FaceInvHides == FaceInv => FacesAreHidden
<1> SUFFICES ASSUME FaceInv, faceStage = "done" PROVE FacesAreHidden
    BY DEF FacesAreHidden
<1>1. /\ frame \in Frames /\ found \in Seq(SeenBoxes) /\ faces \in Seq(SeenBoxes)
      /\ ToSet(faces) \subseteq ToSet(found)
      /\ (detector # "blazeface" => \A b \in ToSet(found) : Fits(b, frame))
      /\ Suppressed(found, faces)
      /\ blanked = UNION {FillOf(b) : b \in Range(faces)}
    BY DEF FaceInv
<1>2. frame[1] \in Nat /\ frame[2] \in Nat /\ frame[1] > 0 /\ frame[2] > 0
    BY <1>1, FrameIs
<1>3. Range(faces) = ToSet(faces) /\ Range(found) = ToSet(found)
    BY DEF Range, ToSet
<1>4. \A b \in Range(faces) : b \in SeenBoxes
    BY <1>1, <1>3, ToSetElements
<1>5. \A b \in Range(found) : \E k \in Range(faces) :
         k.score >= b.score /\ (k = b \/ IouOver(k, b, 30))
    BY <1>1, <1>3 DEF Suppressed, GivesWay
<1>6. ASSUME NEW b \in Range(faces), (Proper(b) /\ WithMargin(b)) \/ Dominates(b), NEW p \in PixelsOfFace(b)
      PROVE  p \in blanked
    <2>1. b \in SeenBoxes
        BY <1>4
    <2>2. CASE Dominates(b)
        <3>1. p \in FillOf(b)
            BY <2>2 DEF FillOf, PixelsOfFace
        <3> QED BY <3>1, <1>1
    <2>3. CASE ~Dominates(b)
        <3>1. Proper(b) /\ WithMargin(b)
            BY <2>3, <1>6
        <3>2. p \in Ellipse(Expanded(b))
            BY <3>1, <2>1, <1>2, FaceIsFilled
        <3>3. p \in FillOf(b)
            BY <2>3, <3>2 DEF FillOf
        <3> QED BY <3>3, <1>1
    <2> QED BY <2>2, <2>3
<1>7. ASSUME NEW p \in blanked
      PROVE  \E b \in Range(faces) :
               \/ Dominates(b)
               \/ /\ 100 * (p[1] + 1) > 100 * b.left - Percent15(b.right - b.left)
                  /\ 100 * p[1] < 100 * b.right + Percent15(b.right - b.left)
                  /\ 100 * (p[2] + 1) > 100 * b.top - Percent15(b.bottom - b.top)
                  /\ 100 * p[2] < 100 * b.bottom + Percent15(b.bottom - b.top)
    <2>1. PICK b \in Range(faces) : p \in FillOf(b)
        BY <1>1
    <2>2. CASE Dominates(b)
        BY <2>2
    <2>3. CASE ~Dominates(b)
        <3>1. p \in Ellipse(Expanded(b)) /\ b \in SeenBoxes
            BY <2>1, <2>3, <1>4 DEF FillOf
        <3>2. /\ 100 * (p[1] + 1) > 100 * b.left - Percent15(b.right - b.left)
              /\ 100 * p[1] < 100 * b.right + Percent15(b.right - b.left)
              /\ 100 * (p[2] + 1) > 100 * b.top - Percent15(b.bottom - b.top)
              /\ 100 * p[2] < 100 * b.bottom + Percent15(b.bottom - b.top)
            BY <3>1, <1>2, EllipseWithin
        <3> QED BY <3>2
    <2> QED BY <2>2, <2>3
<1>8. \A b \in Range(faces) : detector = "blazeface" \/ ~Erroneous(b)
    <2> SUFFICES ASSUME NEW b \in Range(faces), detector # "blazeface" PROVE ~Erroneous(b)
        OBVIOUS
    <2>1. Fits(b, frame) /\ b \in SeenBoxes
        BY <1>1, <1>3, <1>4
    <2> DEFINE l == b.left
               t == b.top
               r == b.right
               u == b.bottom
               c == b.score
               m == frame[1]
               n == frame[2]
    <2>2. l \in Int /\ t \in Int /\ r \in Int /\ u \in Int /\ c \in 0..100 /\ m \in Nat /\ n \in Nat
        BY <2>1, <1>2, BoxIs
    <2>3. l < r /\ t < u /\ l >= 0 /\ t >= 0 /\ r <= m /\ u <= n /\ c > 0 /\ c <= 100
        BY <2>1 DEF Fits
    <2> HIDE DEF l, t, r, u, c, m, n
    <2>4. ~(l >= r \/ t >= u \/ l < 0 \/ t < 0 \/ r > m \/ u > n \/ c <= 0 \/ c > 100)
        BY <2>2, <2>3
    <2> QED BY <2>4 DEF Erroneous, l, t, r, u, c, m, n
<1>9. \A i, j \in DOMAIN faces : i < j => ~IouOver(faces[i], faces[j], 50)
    <2>1. DOMAIN faces = 1..Len(faces)
        BY <1>1
    <2> QED BY <2>1, <1>1 DEF Suppressed, BoxesApart
<1>10. \A b \in Range(faces) : (Proper(b) /\ WithMargin(b)) \/ Dominates(b) => PixelsOfFace(b) \subseteq blanked
    BY <1>6
<1> QED BY <1>5, <1>7, <1>8, <1>9, <1>10 DEF FacesAreHidden

(* Whatever the model sees, what it is sure of is kept or overlaps a surer *)
(* box that is; a face that is kept is filled, nothing outside its margins *)
(* is, and what is kept is free of errors, except as FacesAreHidden says.  *)
THEOREM EveryFaceIsHidden == FaceSpec => []FacesAreHidden
<1>1. FaceInit => FaceInv
    BY FaceInitInv
<1>2. FaceInv /\ [FaceNext]_faceVars => FaceInv'
    BY FaceStepInv
<1>3. FaceInv => FacesAreHidden
    BY FaceInvHides
<1> QED BY <1>1, <1>2, <1>3, PTL DEF FaceSpec

-----------------------------------------------------------------------------
(***************************************************************************)
(* Media blocks, for any bodies that are trees and whatever comes of their *)
(* blocks: the pointer and the written path of a plain path lead back to   *)
(* it, and the body is at every stage a picture of what was placed and     *)
(* scanned so far, however the fetches ended.                              *)
(***************************************************************************)

Entries == [path : Seq(STRING), node : MediaNodes]
Kind(p) == NodeAt(given, p).kind
Different == {x \in Seq(STRING) \X Seq(STRING) : x[1] # x[2]}

LEMMA ToSetFinite ==
    ASSUME NEW X, NEW s \in Seq(X)
    PROVE  IsFiniteSet(ToSet(s))
<1> DEFINE T == {r \in Seq(X) : IsFiniteSet(ToSet(r))}
<1>1. <<>> \in T
    <2>1. ToSet(<<>>) = {}
        BY DEF ToSet
    <2>2. IsFiniteSet({}) /\ <<>> \in Seq(X)
        BY FS_EmptySet
    <2> QED BY <2>1, <2>2
<1>2. ASSUME NEW r \in Seq(X), r \in T, NEW x \in X PROVE Append(r, x) \in T
    <2>1. ToSet(Append(r, x)) = ToSet(r) \cup {x}
        BY ToSetAppend
    <2>2. IsFiniteSet(ToSet(r) \cup {x})
        BY <1>2, FS_AddElement
    <2>3. Append(r, x) \in Seq(X)
        OBVIOUS
    <2> QED BY <2>1, <2>2, <2>3
<1>3. Seq(X) \subseteq T
    <2> HIDE DEF T
    <2> QED BY <1>1, <1>2, SeqInduction
<1> QED BY <1>3

(* What a body is.                                                         *)
LEMMA BodyIs ==
    ASSUME given \in MediaBodies
    PROVE  /\ given \in Seq(Entries) /\ Len(given) \in Nat /\ DOMAIN given = 1..Len(given)
           /\ \A i \in 1..Len(given) : given[i] \in Entries /\ NodeAt(given, given[i].path) = given[i].node
           /\ WalkOrder \in Seq(Seq(STRING)) /\ ToSet(WalkOrder) = Paths(given)
           /\ Ordered(WalkOrder, Different)
           /\ IsFiniteSet(Paths(given)) /\ Paths(given) \subseteq Seq(STRING)
           /\ \A p \in Paths(given) : NodeAt(given, p) \in MediaNodes
           /\ \A p \in Paths(given) : Range(p) \subseteq DOMAIN PointerParts \cap DOMAIN PathParts
           /\ \A p \in Paths(given) : Kind(p) \in ImageKinds => NodeAt(given, p).label \in Labels2
           /\ \A p \in Paths(given) : NodeAt(given, p).form # "url" => NodeAt(given, p).url = "none"
           /\ \A p \in Paths(given) : p # <<>> =>
                /\ Front(p) \in Paths(given)
                /\ Last(p) \in ArrayIndices => Kind(Front(p)) = "array"
                /\ Last(p) \notin ArrayIndices => Kind(Front(p)) \notin {"array", "scalar", "null"}
<1> DEFINE N == Len(given)
           ord == WalkOrder
<1>1. /\ given \in Seq(Entries)
      /\ \A i, j \in DOMAIN given : given[i].path = given[j].path => i = j
      /\ \A i \in DOMAIN given :
           /\ Range(given[i].path) \subseteq DOMAIN PointerParts \cap DOMAIN PathParts
           /\ given[i].node.kind \in ImageKinds => given[i].node.label \in Labels2
           /\ given[i].node.form # "url" => given[i].node.url = "none"
           /\ given[i].path # <<>> =>
                \E j \in DOMAIN given :
                  /\ given[j].path = Front(given[i].path)
                  /\ IF Last(given[i].path) \in ArrayIndices THEN given[j].node.kind = "array"
                     ELSE given[j].node.kind \notin {"array", "scalar", "null"}
    BY MediaAssumption DEF Entries
<1>2. N \in Nat /\ DOMAIN given = 1..N /\ \A i \in 1..N : given[i] \in Entries
    BY <1>1
<1>3. ASSUME NEW i \in 1..N PROVE NodeAt(given, given[i].path) = given[i].node
    <2>1. \A j \in DOMAIN given : given[j].path = given[i].path => j = i
        BY <1>1, <1>2
    <2>2. i \in DOMAIN given
        BY <1>2
    <2>3. (CHOOSE j \in DOMAIN given : given[j].path = given[i].path) = i
        BY <2>1, <2>2
    <2> QED BY <2>3 DEF NodeAt
<1>4. ord = [i \in 1..N |-> given[i].path] /\ Paths(given) = {given[i].path : i \in 1..N}
    BY <1>2 DEF WalkOrder, Paths
<1> HIDE DEF N, ord
<1>5. \A i \in 1..N : given[i].path \in Seq(STRING) /\ given[i].node \in MediaNodes
    BY <1>2 DEF Entries
<1>6. ord \in Seq(Seq(STRING)) /\ Len(ord) = N /\ \A i \in 1..N : ord[i] = given[i].path
    <2>1. [i \in 1..N |-> given[i].path] \in Seq(Seq(STRING))
        BY <1>2, <1>5
    <2> QED BY <2>1, <1>2, <1>4
<1>7. ToSet(ord) = Paths(given)
    <2>1. \A x \in ToSet(ord) : \E i \in 1..N : x = ord[i]
        BY <1>6, ToSetElements
    <2>2. \A i \in 1..N : ord[i] \in ToSet(ord)
        BY <1>6, ToSetElements
    <2> QED BY <2>1, <2>2, <1>4, <1>6
<1>8. Ordered(ord, Different)
    <2>1. ASSUME NEW i \in 1..N, NEW j \in 1..N, i < j PROVE <<ord[i], ord[j]>> \in Different
        <3>1. given[i].path # given[j].path
            BY <2>1, <1>1, <1>2
        <3> QED BY <3>1, <1>5, <1>6 DEF Different
    <2> QED BY <2>1, <1>6 DEF Ordered
<1>9. IsFiniteSet(Paths(given))
    BY <1>6, <1>7, ToSetFinite
<1>10. ASSUME NEW p \in Paths(given)
       PROVE  /\ p \in Seq(STRING) /\ NodeAt(given, p) \in MediaNodes
              /\ Range(p) \subseteq DOMAIN PointerParts \cap DOMAIN PathParts
              /\ Kind(p) \in ImageKinds => NodeAt(given, p).label \in Labels2
              /\ NodeAt(given, p).form # "url" => NodeAt(given, p).url = "none"
              /\ p # <<>> =>
                   /\ Front(p) \in Paths(given)
                   /\ Last(p) \in ArrayIndices => Kind(Front(p)) = "array"
                   /\ Last(p) \notin ArrayIndices => Kind(Front(p)) \notin {"array", "scalar", "null"}
    <2>1. PICK i \in 1..N : p = given[i].path
        BY <1>4
    <2>2. NodeAt(given, p) = given[i].node
        BY <2>1, <1>3
    <2>3. /\ Range(p) \subseteq DOMAIN PointerParts \cap DOMAIN PathParts
          /\ Kind(p) \in ImageKinds => NodeAt(given, p).label \in Labels2
          /\ NodeAt(given, p).form # "url" => NodeAt(given, p).url = "none"
        BY <2>1, <2>2, <1>1, <1>2 DEF Kind
    <2>4. ASSUME p # <<>>
          PROVE  /\ Front(p) \in Paths(given)
                 /\ Last(p) \in ArrayIndices => Kind(Front(p)) = "array"
                 /\ Last(p) \notin ArrayIndices => Kind(Front(p)) \notin {"array", "scalar", "null"}
        <3>1. PICK j \in 1..N :
                /\ given[j].path = Front(p)
                /\ IF Last(p) \in ArrayIndices THEN given[j].node.kind = "array"
                   ELSE given[j].node.kind \notin {"array", "scalar", "null"}
            BY <2>1, <2>4, <1>1, <1>2
        <3>2. NodeAt(given, Front(p)) = given[j].node /\ Front(p) \in Paths(given)
            BY <3>1, <1>3, <1>4
        <3> QED BY <3>1, <3>2 DEF Kind
    <2> QED BY <2>1, <2>2, <2>3, <2>4, <1>5
<1> QED BY <1>1, <1>2, <1>3, <1>6, <1>7, <1>8, <1>9, <1>10 DEF N, ord

(* A key that is not cut is where the pointer leads.                       *)
LEMMA PointedIs ==
    ASSUME NEW p \in Seq(STRING), Range(p) \subseteq DOMAIN PointerParts,
           \A i \in DOMAIN p : Len(PointerParts[p[i]]) = 1
    PROVE  Pointed(p) = p
<1> DEFINE One(r) == [i \in 1..Len(r) |-> <<r[i]>>]
<1>3. FlattenSeq(One(p)) = p
    BY FlattenOfSingles
<1>4. Pointed(p) = FlattenSeq(One(p))
    <2>1. DOMAIN p = 1..Len(p)
        OBVIOUS
    <2>2. ASSUME NEW i \in 1..Len(p) PROVE PointerParts[p[i]] = <<p[i]>>
        <3>1. p[i] \in Range(p) /\ i \in DOMAIN p
            BY <2>1 DEF Range
        <3>2. p[i] \in DOMAIN PointerParts /\ Len(PointerParts[p[i]]) = 1
            BY <3>1
        <3> QED BY <3>2, MediaAssumption
    <2>3. [i \in DOMAIN p |-> PointerParts[p[i]]] = One(p)
        BY <2>1, <2>2
    <2> HIDE DEF One
    <2> QED BY <2>3 DEF Pointed
<1> QED BY <1>3, <1>4

PathNames == STRING \cup {""}
PathRecs == [name : PathNames, indices : Seq(STRING)]

NamePart(s) == [name |-> s, indices |-> <<>>]

LEMMA NoNameIsOne == "" \in PathNames
BY DEF PathNames

LEMMA NamePartIs == \A s \in STRING : s \in PathNames /\ NamePart(s) \in PathRecs
<1> SUFFICES ASSUME NEW s \in STRING PROVE s \in PathNames /\ NamePart(s) \in PathRecs
    OBVIOUS
<1>1. s \in PathNames
    BY DEF PathNames
<1>2. NamePart(s) \in PathRecs
    <2>1. <<>> \in Seq(STRING)
        OBVIOUS
    <2> DEFINE none == <<>>
    <2>2. none \in Seq(STRING)
        BY <2>1
    <2> HIDE DEF none
    <2>3. [name |-> s, indices |-> none] \in [name : PathNames, indices : Seq(STRING)]
        BY <1>1, <2>2
    <2> QED BY <2>3 DEF none, NamePart, PathRecs
<1> QED BY <1>1, <1>2
WalkedTo(q) == [doc |-> doc, at |-> q, panicked |-> FALSE]

(* The parts ps lead to w.                                                 *)
LeadsBy(f, ps, w) ==
    /\ f = [n \in 0..Len(ps) |-> f[n]]
    /\ f[0] = WalkedTo(<<>>) /\ f[Len(ps)] = w
    /\ \A n \in 1..Len(ps) : f[n] = TakePart(f[n - 1], ps[n])
LeadTo(ps, w) == \E f : LeadsBy(f, ps, w)

LEMMA LeadOn ==
    ASSUME NEW ps \in Seq(PathRecs), NEW w, LeadTo(ps, w), NEW part \in PathRecs
    PROVE  LeadTo(Append(ps, part), TakePart(w, part))
<1> DEFINE N == Len(ps)
           q == Append(ps, part)
           v == TakePart(w, part)
<1>1. PICK f : LeadsBy(f, ps, w)
    BY DEF LeadTo
<1>2. /\ f[0] = WalkedTo(<<>>) /\ f[N] = w
      /\ \A n \in 1..N : f[n] = TakePart(f[n - 1], ps[n])
    BY <1>1 DEF LeadsBy
<1>3. N \in Nat /\ Len(q) = N + 1 /\ q[N + 1] = part /\ \A n \in 1..N : q[n] = ps[n]
    OBVIOUS
<1> HIDE DEF N, q, v
<1> DEFINE g == [n \in 0..N + 1 |-> IF n = N + 1 THEN v ELSE f[n]]
<1>4. g[0] = WalkedTo(<<>>) /\ g[N + 1] = v /\ \A n \in 0..N : g[n] = f[n]
    BY <1>2, <1>3
<1>5. ASSUME NEW n \in 1..N + 1 PROVE g[n] = TakePart(g[n - 1], q[n])
    <2>1. CASE n = N + 1
        <3>1. N \in 0..N /\ n - 1 = N
            BY <2>1, <1>3
        <3> QED BY <2>1, <3>1, <1>2, <1>3, <1>4 DEF v
    <2>2. CASE n # N + 1
        <3>1. n \in 1..N /\ n \in 0..N /\ n - 1 \in 0..N
            BY <2>2, <1>3
        <3> QED BY <3>1, <1>2, <1>3, <1>4
    <2> QED BY <2>1, <2>2
<1>6. g = [n \in 0..N + 1 |-> g[n]]
    OBVIOUS
<1> HIDE DEF g
<1>7. LeadsBy(g, q, v)
    BY <1>3, <1>4, <1>5, <1>6 DEF LeadsBy
<1>8. LeadTo(q, v)
    BY <1>7 DEF LeadTo
<1> QED BY <1>8 DEF q, v

LEMMA LeadFromRoot == LeadTo(<<>>, WalkedTo(<<>>))
<1> DEFINE f == [n \in 0..0 |-> WalkedTo(<<>>)]
<1>1. Len(<<>>) = 0 /\ 1..0 = {}
    OBVIOUS
<1>2. f = [n \in 0..0 |-> f[n]] /\ f[0] = WalkedTo(<<>>)
    OBVIOUS
<1> HIDE DEF f
<1>3. LeadsBy(f, <<>>, WalkedTo(<<>>))
    BY <1>1, <1>2 DEF LeadsBy
<1> QED BY <1>3 DEF LeadTo

LEMMA ReachedIs ==
    ASSUME NEW p, WrittenPath(p) \in Seq(PathRecs), NEW w, LeadTo(WrittenPath(p), w)
    PROVE  Reached(p) = w
<1> DEFINE ps == WrittenPath(p)
           N == Len(ps)
           F(h) == [n \in 0..N |-> IF n = 0 THEN WalkedTo(<<>>) ELSE TakePart(h[n - 1], ps[n])]
           c == CHOOSE h : h = F(h)
<1>1. Reached(p) = c[N]
    BY DEF Reached, WalkedTo
<1>2. PICK f : LeadsBy(f, ps, w)
    BY DEF LeadTo
<1>3. /\ f = [n \in 0..N |-> f[n]] /\ f[0] = WalkedTo(<<>>) /\ f[N] = w
      /\ \A n \in 1..N : f[n] = TakePart(f[n - 1], ps[n])
    BY <1>2 DEF LeadsBy
<1>4. N \in Nat /\ N \in Int /\ 0 \in Int
    OBVIOUS
<1> HIDE DEF ps, N
<1>5. f = F(f)
    <2>1. \A n \in 0..N : f[n] = IF n = 0 THEN WalkedTo(<<>>) ELSE TakePart(f[n - 1], ps[n])
        <3> SUFFICES ASSUME NEW n \in 0..N PROVE f[n] = IF n = 0 THEN WalkedTo(<<>>) ELSE TakePart(f[n - 1], ps[n])
            OBVIOUS
        <3>1. n = 0 \/ n \in 1..N
            BY <1>4
        <3>2. n \in 1..N => n # 0
            BY <1>4
        <3> QED BY <3>1, <3>2, <1>3
    <2>2. F(f) = [n \in 0..N |-> f[n]]
        BY <2>1
    <2> HIDE DEF F
    <2> QED BY <2>2, <1>3
<1>6. c = F(c)
    <2> HIDE DEF F
    <2> QED BY <1>5
<1> HIDE DEF c
<1> DEFINE T == {n \in 0..N : c[n] = f[n]}
<1>7. 0 \in T
    <2>1. 0 \in 0..N
        BY <1>4
    <2> QED BY <2>1, <1>3, <1>6
<1>8. ASSUME NEW n \in 0..N - 1, n \in T PROVE n + 1 \in T
    <2>1. n + 1 \in 1..N /\ n + 1 \in 0..N /\ n + 1 # 0 /\ (n + 1) - 1 = n
        BY <1>4
    <2>2. c[n + 1] = TakePart(c[n], ps[n + 1])
        BY <2>1, <1>6
    <2> QED BY <2>1, <2>2, <1>3, <1>8
<1>9. 0..N \subseteq T
    <2> HIDE DEF T
    <2> QED BY <1>4, <1>7, <1>8, IntervalInduction
<1>10. N \in 0..N
    BY <1>4
<1> QED BY <1>1, <1>3, <1>9, <1>10

LEMMA LastReplaced ==
    ASSUME NEW X, NEW s \in Seq(X), NEW x \in X, NEW y \in X
    PROVE  [Append(s, x) EXCEPT ![Len(s) + 1] = y] = Append(s, y)
<1> DEFINE N == Len(s) + 1
           a == [Append(s, x) EXCEPT ![N] = y]
           b == Append(s, y)
<1>1. /\ N \in Nat /\ a \in Seq(X) /\ Len(a) = N /\ a[N] = y
      /\ b \in Seq(X) /\ Len(b) = N /\ b[N] = y
      /\ \A i \in 1..N - 1 : a[i] = s[i] /\ b[i] = s[i]
    <2> DEFINE c == Append(s, x)
    <2>1. N \in Nat /\ c \in Seq(X) /\ Len(c) = N /\ N \in 1..N /\ \A i \in 1..N - 1 : c[i] = s[i] /\ i # N
        OBVIOUS
    <2>2. b \in Seq(X) /\ Len(b) = N /\ b[N] = y /\ \A i \in 1..N - 1 : b[i] = s[i]
        OBVIOUS
    <2> HIDE DEF c, b
    <2>3. [c EXCEPT ![N] = y] \in Seq(X) /\ Len([c EXCEPT ![N] = y]) = N
        <3> HIDE DEF N
        <3> QED BY <2>1
    <2>4. [c EXCEPT ![N] = y][N] = y
        <3> HIDE DEF N
        <3> QED BY <2>1
    <2>5. \A i \in 1..N - 1 : [c EXCEPT ![N] = y][i] = c[i]
        <3> HIDE DEF N
        <3>1. \A i \in 1..N - 1 : i \in 1..N /\ i # N
            BY <2>1
        <3> QED BY <2>1, <3>1
    <2>6. a = [c EXCEPT ![N] = y]
        BY DEF c
    <2> HIDE DEF a, N
    <2> QED BY <2>1, <2>2, <2>3, <2>4, <2>5, <2>6
<1> HIDE DEF N, a, b
<1>2. \A i \in 1..N : i = N \/ i \in 1..N - 1
    BY <1>1
<1>3. \A i \in 1..Len(a) : a[i] = b[i]
    BY <1>1, <1>2
<1>4. a = b
    BY <1>1, <1>3, SameSequence
<1> QED BY <1>4 DEF a, b, N

LEMMA SingleIn ==
    ASSUME NEW X, NEW s \in Seq(X), NEW x \in X
    PROVE  <<x>> \in Seq(X)
OBVIOUS

LEMMA StepAdded ==
    ASSUME NEW v \in Seq(PathRecs), NEW step \in DOMAIN PathParts, step \in STRING
    PROVE  AddStep(v, step) \in Seq(PathRecs)
<1> DEFINE N == Len(v)
           k == PathParts[step]
<1>1. CASE step \notin ArrayIndices
    <2>1. k \in Seq(STRING)
        BY MediaAssumption
    <2> DEFINE t == [i \in 1..Len(k) |-> [name |-> k[i], indices |-> <<>>]]
    <2>2. AddStep(v, step) = v \o t
        <3>1. DOMAIN k = 1..Len(k)
            BY <2>1
        <3> QED BY <3>1, <1>1 DEF AddStep
    <2>3. \A i \in 1..Len(k) : [name |-> k[i], indices |-> <<>>] \in PathRecs
        <3>1. \A i \in 1..Len(k) : k[i] \in STRING
            BY <2>1
        <3>2. \A i \in 1..Len(k) : NamePart(k[i]) \in PathRecs
            BY <3>1, NamePartIs
        <3> HIDE DEF k
        <3> QED BY <3>2 DEF NamePart
    <2>4. t \in Seq(PathRecs)
        <3>1. Len(k) \in Nat
            BY <2>1
        <3> QED BY <2>3, <3>1
    <2> HIDE DEF t
    <2> QED BY <2>2, <2>4, ConcatElements
<1>2. CASE step \in ArrayIndices /\ v = <<>>
    <2>1. AddStep(v, step) = <<[name |-> "", indices |-> <<step>>]>>
        BY <1>2 DEF AddStep
    <2>2. [name |-> "", indices |-> <<step>>] \in PathRecs
        <3> DEFINE none == ""
                   one == <<step>>
        <3>1. one \in Seq(STRING) /\ none \in PathNames
            <4>1. none \in PathNames
                BY NoNameIsOne
            <4>2. <<>> \in Seq(STRING)
                OBVIOUS
            <4>3. one \in Seq(STRING)
                BY <4>2, SingleIn
            <4> QED BY <4>1, <4>3
        <3> HIDE DEF none, one
        <3>2. [name |-> none, indices |-> one] \in PathRecs
            BY <3>1 DEF PathRecs
        <3> QED BY <3>2 DEF none, one
    <2> DEFINE part == [name |-> "", indices |-> <<step>>]
    <2>3. part \in PathRecs
        BY <2>2
    <2>4. AddStep(v, step) = <<part>>
        BY <2>1
    <2> HIDE DEF part
    <2>5. <<part>> \in Seq(PathRecs)
        BY <2>3, SingleIn
    <2> QED BY <2>4, <2>5
<1>3. CASE step \in ArrayIndices /\ v # <<>>
    <2>1. N \in Nat /\ N \in 1..N /\ v[N] \in PathRecs
        BY <1>3
    <2> DEFINE x == Append(v[N].indices, step)
               y == [v[N] EXCEPT !.indices = x]
    <2>2. AddStep(v, step) = [v EXCEPT ![N] = y]
        BY <1>3 DEF AddStep
    <2>3. x \in Seq(STRING)
        BY <2>1 DEF PathRecs
    <2> HIDE DEF x
    <2>4. y \in PathRecs
        BY <2>1, <2>3 DEF PathRecs
    <2> HIDE DEF y
    <2> QED BY <2>1, <2>2, <2>4
<1> QED BY <1>1, <1>2, <1>3

PartsOf(f, p) ==
    /\ f[0] = <<>> /\ WrittenPath(p) = f[Len(p)]
    /\ \A n \in 0..Len(p) : f[n] \in Seq(PathRecs)
    /\ \A n \in 1..Len(p) : f[n] = AddStep(f[n - 1], p[n])

LEMMA PartsExist ==
    ASSUME NEW p \in Seq(STRING), p # <<>>, Range(p) \subseteq DOMAIN PathParts
    PROVE  \E f : PartsOf(f, p)
<1> DEFINE N    == Len(p)
           base == <<>>
           Step(n, v) == AddStep(v, p[n])
           step == [x \in (0 + 1..N) \X Seq(PathRecs) |-> Step(x[1], x[2])]
           F(f) == [n \in 0..N |-> IF n = 0 THEN base ELSE Step(n, f[n - 1])]
           f    == CHOOSE g : g = F(g)
<1>0. WrittenPath(p) = f[N]
    BY DEF WrittenPath
<1>1. N \in Nat /\ N \in Int /\ 0 \in Int /\ 0 <= N
    OBVIOUS
<1>2. base \in Seq(PathRecs)
    OBVIOUS
<1>3. ASSUME NEW n \in 1..N, NEW v \in Seq(PathRecs) PROVE Step(n, v) \in Seq(PathRecs)
    <2>1. p[n] \in STRING /\ p[n] \in Range(p)
        BY DEF Range
    <2> QED BY <2>1, StepAdded
<1> HIDE DEF base, Step
<1>4. step \in [(0 + 1..N) \X Seq(PathRecs) -> Seq(PathRecs)]
    <2> HIDE DEF N
    <2>1. 0 + 1..N = 1..N
        BY <1>1
    <2> QED BY <2>1, <1>3
<1>5. PICK g \in [0..N -> Seq(PathRecs)] : Recursion(g, 0, N, base, step)
    <2> HIDE DEF N, step, F, f
    <2> QED BY <1>1, <1>2, <1>4, RecursionExists
<1>6. g[0] = base
    BY <1>5 DEF Recursion
<1>7. ASSUME NEW n \in 1..N PROVE g[n] = Step(n, g[n - 1])
    <2>1. n \in 0 + 1..N /\ n - 1 \in 0..N
        BY <1>1
    <2>2. <<n, g[n - 1]>> \in (0 + 1..N) \X Seq(PathRecs) /\ g[n] = step[<<n, g[n - 1]>>]
        <3> HIDE DEF step, N
        <3> QED BY <2>1, <1>5 DEF Recursion
    <2> HIDE DEF N
    <2>3. step[<<n, g[n - 1]>>] = Step(n, g[n - 1])
        BY <2>2
    <2> HIDE DEF step
    <2> QED BY <2>2, <2>3
<1>8. g = F(g)
    <2> HIDE DEF step, N
    <2>1. \A n \in 0..N : g[n] = F(g)[n]
        <3> SUFFICES ASSUME NEW n \in 0..N PROVE g[n] = F(g)[n]
            OBVIOUS
        <3>1. CASE n = 0
            BY <1>6, <3>1
        <3>2. CASE n # 0
            <4>1. n \in 1..N
                BY <1>1, <3>2
            <4> QED BY <1>7, <3>2, <4>1
        <3> HIDE DEF F
        <3> QED BY <3>1, <3>2
    <2> QED BY <1>5, <2>1
<1>9. f = F(f)
    <2> HIDE DEF F
    <2> QED BY <1>8
<1> HIDE DEF f
<1>10. f[0] = base
    <2> HIDE DEF N
    <2> QED BY <1>1, <1>9
<1>11. ASSUME NEW n \in 1..N PROVE f[n] = Step(n, f[n - 1])
    <2>1. n \in 0..N /\ n # 0
        BY <1>1
    <2> HIDE DEF N
    <2> QED BY <1>9, <2>1
<1>12. \A n \in 0..N : f[n] \in Seq(PathRecs)
    <2> DEFINE T == {n \in 0..N : f[n] \in Seq(PathRecs)}
    <2>1. 0 \in T
        <3> HIDE DEF N
        <3> QED BY <1>1, <1>2, <1>10
    <2>2. ASSUME NEW n \in 0..N - 1, n \in T PROVE n + 1 \in T
        <3>1. n + 1 \in 1..N /\ n + 1 \in 0..N /\ (n + 1) - 1 = n /\ f[n] \in Seq(PathRecs)
            BY <2>2, <1>1
        <3> HIDE DEF N
        <3>2. f[n + 1] = Step(n + 1, f[n])
            BY <3>1, <1>11
        <3> QED BY <3>1, <3>2, <1>3
    <2>3. 0..N \subseteq T
        <3> HIDE DEF T, N
        <3> QED BY <1>1, <2>1, <2>2, IntervalInduction
    <2> QED BY <2>3
<1>13. PartsOf(f, p)
    BY <1>0, <1>10, <1>11, <1>12 DEF PartsOf, Step, base
<1> QED BY <1>13

LEMMA ElsewhereIs ==
    ASSUME NEW p, NEW q
    PROVE  [WalkedTo(p) EXCEPT !.at = q] = WalkedTo(q)
<1> DEFINE X == {doc}
           Y == {p, q}
           R == [doc : X, at : Y, panicked : {FALSE}]
           w == WalkedTo(p)
           v == [w EXCEPT !.at = q]
<1>1. w \in R /\ WalkedTo(q) \in R
    BY DEF WalkedTo
<1>2. v = [doc |-> w.doc, at |-> q, panicked |-> w.panicked]
    <2> HIDE DEF w, X, Y
    <2> QED BY <1>1
<1>3. w.doc = doc /\ w.panicked = FALSE
    BY DEF WalkedTo
<1> HIDE DEF w
<1> QED BY <1>2, <1>3 DEF WalkedTo, w

(* Blocks are where they were, and audio may have become a notice.         *)
DocFits ==
    /\ DOMAIN doc = Paths(given)
    /\ \A p \in Paths(given) : doc[p].kind = Kind(p) \/ (doc[p].kind = "notice" /\ Kind(p) \in AudioKinds)
PlainDoc == given \in MediaBodies /\ PlainBody /\ DocFits

LEMMA PrefixIs ==
    ASSUME NEW X, NEW p \in Seq(X), NEW n \in 1..Len(p)
    PROVE  /\ SubSeq(p, 1, n) \in Seq(X) /\ SubSeq(p, 1, n) # <<>>
           /\ Front(SubSeq(p, 1, n)) = SubSeq(p, 1, n - 1) /\ Last(SubSeq(p, 1, n)) = p[n]
           /\ Append(SubSeq(p, 1, n - 1), p[n]) = SubSeq(p, 1, n)
<1> DEFINE a == SubSeq(p, 1, n)
           b == SubSeq(p, 1, n - 1)
<1>1. n \in Nat /\ Len(p) \in Nat /\ n >= 1 /\ n <= Len(p) /\ n - 1 \in Nat
    OBVIOUS
<1>2. /\ a \in Seq(X) /\ Len(a) = n /\ \A i \in 1..n : a[i] = p[i]
      /\ b \in Seq(X) /\ Len(b) = n - 1 /\ \A i \in 1..n - 1 : b[i] = p[i]
    BY <1>1
<1>3. Front(a) = b
    <2>1. SubSeq(a, 1, n - 1) = [i \in 1..n - 1 |-> a[i]]
        BY <1>1, <1>2
    <2>2. b = [i \in 1..n - 1 |-> b[i]]
        BY <1>1
    <2>3. \A i \in 1..n - 1 : a[i] = b[i]
        <3>1. \A i \in 1..n - 1 : i \in 1..n
            BY <1>1
        <3> QED BY <3>1, <1>2
    <2> HIDE DEF a, b
    <2>4. SubSeq(a, 1, n - 1) = b
        BY <2>1, <2>2, <2>3
    <2> QED BY <2>4, <1>2 DEF Front
<1>4. Last(a) = p[n]
    BY <1>1, <1>2 DEF Last
<1>5. Append(b, p[n]) = a
    <2> DEFINE c == Append(b, p[n])
    <2>1. c \in Seq(X) /\ Len(c) = n /\ c[n] = p[n] /\ \A i \in 1..n - 1 : c[i] = b[i]
        BY <1>1, <1>2
    <2> HIDE DEF a, b, c
    <2>2. \A i \in 1..n : i \in 1..n - 1 \/ i = n
        BY <1>1
    <2>3. \A i \in 1..Len(c) : c[i] = a[i]
        BY <2>1, <2>2, <1>1, <1>2
    <2>4. c = a
        BY <2>1, <2>3, <1>2, SameSequence
    <2> QED BY <2>4 DEF c
<1>6. a # <<>>
    BY <1>1, <1>2
<1> QED BY <1>2, <1>3, <1>4, <1>5, <1>6

(* Each step of a path is taken in the tree.                               *)
LEMMA PathIsTaken ==
    ASSUME PlainDoc, NEW p \in Paths(given), NEW n \in 1..Len(p)
    PROVE  /\ p[n] \in STRING /\ SubSeq(p, 1, n) \in Paths(given)
           /\ p[n] \notin ArrayIndices =>
                IndexByName(WalkedTo(SubSeq(p, 1, n - 1)), p[n]) = WalkedTo(SubSeq(p, 1, n))
           /\ p[n] \in ArrayIndices =>
                IndexByNumber(WalkedTo(SubSeq(p, 1, n - 1)), p[n]) = WalkedTo(SubSeq(p, 1, n))
<1> DEFINE N == Len(p)
<1>1. given \in MediaBodies /\ PlainBody /\ DocFits
    BY DEF PlainDoc
<1>2. p \in Seq(STRING)
    BY <1>1, BodyIs
<1>3. N \in Nat /\ N \in Int /\ 0 \in Int /\ 1 \in Int
    BY <1>2
<1> HIDE DEF N
<1> DEFINE T == {k \in 1..N : SubSeq(p, 1, k) \in Paths(given)}
<1>4. 1 <= N => N \in T
    <2>1. SubSeq(p, 1, N) = p
        BY <1>2 DEF N
    <2>2. SubSeq(p, 1, N) \in Paths(given)
        BY <2>1
    <2>3. 1 <= N => N \in 1..N
        BY <1>3
    <2> QED BY <2>2, <2>3
<1>5. ASSUME NEW k \in 1 + 1..N, k \in T PROVE k - 1 \in T
    <2>1. k \in 1..N /\ k - 1 \in 1..N
        BY <1>3
    <2>2. /\ SubSeq(p, 1, k) # <<>> /\ Front(SubSeq(p, 1, k)) = SubSeq(p, 1, k - 1)
        BY <2>1, <1>2, PrefixIs DEF N
    <2>3. SubSeq(p, 1, k - 1) \in Paths(given)
        BY <2>2, <1>1, <1>5, BodyIs
    <2> QED BY <2>1, <2>3
<1>6. 1..N \subseteq T
    <2> HIDE DEF T
    <2> QED BY <1>3, <1>4, <1>5, DownwardInduction
<1> DEFINE a == SubSeq(p, 1, n)
           b == SubSeq(p, 1, n - 1)
           s == p[n]
<1>7. a \in Paths(given)
    BY <1>6 DEF N
<1>8. a # <<>> /\ Front(a) = b /\ Last(a) = s /\ Append(b, s) = a
    BY <1>2, PrefixIs
<1>9. s \in STRING
    BY <1>2
<1> HIDE DEF a, b, s
<1>10. /\ b \in Paths(given)
       /\ s \in ArrayIndices => Kind(b) = "array"
       /\ s \notin ArrayIndices => Kind(b) \notin {"array", "scalar", "null"}
    BY <1>1, <1>7, <1>8, BodyIs
<1>11. /\ DOMAIN doc = Paths(given)
       /\ doc[b].kind = Kind(b) \/ (doc[b].kind = "notice" /\ Kind(b) \in AudioKinds)
    BY <1>1, <1>10 DEF DocFits
<1>12. WalkedTo(b).doc = doc /\ WalkedTo(b).at = b /\ WalkedTo(b).panicked = FALSE
    BY DEF WalkedTo
<1> DEFINE w == WalkedTo(b)
<1>13. ASSUME s \notin ArrayIndices PROVE IndexByName(w, s) = WalkedTo(a)
    <2>1. doc[b].kind \notin {"array", "scalar", "null"}
        BY <1>10, <1>11, <1>13
    <2> HIDE DEF w
    <2>2. w.doc = doc /\ w.at = b /\ w.panicked = FALSE
        BY <1>12 DEF w
    <2>3. IndexByName(w, s) = [doc |-> doc, at |-> a, panicked |-> FALSE]
        BY <2>1, <2>2, <1>7, <1>8, <1>11 DEF IndexByName
    <2> QED BY <2>3 DEF WalkedTo
<1>14. ASSUME s \in ArrayIndices PROVE IndexByNumber(w, s) = WalkedTo(a)
    <2>1. doc[b].kind = "array"
        BY <1>10, <1>11, <1>14 DEF AudioKinds
    <2>2. IndexByNumber(w, s) = [w EXCEPT !.at = a]
        <3> HIDE DEF w
        <3>1. w.doc = doc /\ w.at = b /\ w.panicked = FALSE
            BY <1>12 DEF w
        <3> QED BY <3>1, <2>1, <1>7, <1>8, <1>11 DEF IndexByNumber
    <2>3. [w EXCEPT !.at = a] = WalkedTo(a)
        BY ElsewhereIs
    <2> QED BY <2>2, <2>3
<1> QED BY <1>7, <1>9, <1>13, <1>14 DEF a, b, s

(* The parts written down for the first n steps lead where these lead.     *)
PartsLead(ps, p, n) ==
    /\ ps \in Seq(PathRecs) /\ LeadTo(ps, WalkedTo(SubSeq(p, 1, n)))
    /\ n > 0 /\ p[n] \notin ArrayIndices =>
         \E front \in Seq(PathRecs) :
           ps = Append(front, NamePart(p[n])) /\ LeadTo(front, WalkedTo(SubSeq(p, 1, n - 1)))

LEMMA StepLeadsOn ==
    ASSUME PlainDoc, NEW p \in Paths(given), NEW n \in 0..Len(p) - 1, NEW ps, PartsLead(ps, p, n)
    PROVE  PartsLead(AddStep(ps, p[n + 1]), p, n + 1)
<1> DEFINE s == p[n + 1]
           a == SubSeq(p, 1, n)
           b == SubSeq(p, 1, n + 1)
           r == AddStep(ps, s)
<1>1. given \in MediaBodies /\ PlainPath(p)
    BY DEF PlainDoc, PlainBody
<1>2. /\ p \in Seq(STRING) /\ Range(p) \subseteq DOMAIN PathParts
    BY <1>1, BodyIs
<1>3. n \in Nat /\ n + 1 \in 1..Len(p) /\ (n + 1) - 1 = n /\ n + 1 > 0 /\ n + 1 \in DOMAIN p /\ p # <<>>
    BY <1>2
<1>4. /\ s \in STRING /\ s \in DOMAIN PathParts /\ Len(PathParts[s]) = 1
    BY <1>1, <1>2, <1>3 DEF Range, PlainPath
<1>5. /\ s \notin ArrayIndices => IndexByName(WalkedTo(a), s) = WalkedTo(b)
      /\ s \in ArrayIndices => IndexByNumber(WalkedTo(a), s) = WalkedTo(b)
    BY <1>3, PathIsTaken
<1>6. ps \in Seq(PathRecs) /\ LeadTo(ps, WalkedTo(a))
    BY DEF PartsLead
<1>7. r \in Seq(PathRecs)
    BY <1>4, <1>6, StepAdded
<1>8. CASE s \notin ArrayIndices
    <2>1. PathParts[s] = <<s>>
        BY <1>4, MediaAssumption
    <2>2. AddStep(ps, s) = ps \o [i \in DOMAIN <<s>> |-> [name |-> <<s>>[i], indices |-> <<>>]]
        BY <2>1, <1>8 DEF AddStep
    <2>3. [i \in DOMAIN <<s>> |-> [name |-> <<s>>[i], indices |-> <<>>]] = <<NamePart(s)>>
        <3> HIDE DEF s
        <3>1. DOMAIN <<s>> = 1..1 /\ \A i \in 1..1 : <<s>>[i] = s
            OBVIOUS
        <3>2. [i \in DOMAIN <<s>> |-> [name |-> <<s>>[i], indices |-> <<>>]] = [i \in 1..1 |-> NamePart(s)]
            BY <3>1 DEF NamePart
        <3>3. \A x : [i \in 1..1 |-> x] = <<x>>
            OBVIOUS
        <3> QED BY <3>2, <3>3
    <2>4. NamePart(s) \in PathRecs
        BY <1>4, NamePartIs
    <2>5. r = Append(ps, NamePart(s))
        <3> DEFINE x == NamePart(s)
        <3>1. r = ps \o <<x>>
            BY <2>2, <2>3
        <3> HIDE DEF x, r
        <3> QED BY <3>1, <1>6 DEF x
    <2>6. TakePart(WalkedTo(a), NamePart(s)) = WalkedTo(b)
        <3>1. TakePart(WalkedTo(a), NamePart(s)) = IndexByName(WalkedTo(a), s)
            BY DEF TakePart, NamePart
        <3> QED BY <3>1, <1>5, <1>8
    <2>7. LeadTo(r, WalkedTo(b))
        BY <2>4, <2>5, <2>6, <1>6, LeadOn
    <2> HIDE DEF r, s, a, b
    <2>8. \E front \in Seq(PathRecs) : r = Append(front, NamePart(s)) /\ LeadTo(front, WalkedTo(a))
        BY <2>5, <1>6
    <2>9. PartsLead(r, p, n + 1)
        BY <2>7, <2>8, <1>3, <1>7 DEF PartsLead, s, a, b
    <2> QED BY <2>9 DEF r, s
<1>9. CASE s \in ArrayIndices
    <2>1. n # 0 /\ n > 0
        <3>1. p[1] \notin ArrayIndices
            BY <1>1, <1>3 DEF PlainPath
        <3>2. n = 0 => n + 1 = 1
            OBVIOUS
        <3>3. n # 0
            BY <3>1, <3>2, <1>9
        <3> QED BY <3>3, <1>3
    <2>2. p[n] \notin ArrayIndices /\ n \in 1..Len(p) /\ n \in DOMAIN p
        <3>1. n + 1 \in 2..Len(p) /\ n \in 1..Len(p) /\ n \in DOMAIN p
            BY <2>1, <1>2, <1>3
        <3> QED BY <3>1, <1>1, <1>3, <1>9 DEF PlainPath
    <2>3. PICK front \in Seq(PathRecs) :
            ps = Append(front, NamePart(p[n])) /\ LeadTo(front, WalkedTo(SubSeq(p, 1, n - 1)))
        BY <2>1, <2>2 DEF PartsLead
    <2> DEFINE c == WalkedTo(SubSeq(p, 1, n - 1))
               m == p[n]
               part == [name |-> m, indices |-> <<s>>]
    <2>4. m \in STRING /\ IndexByName(c, m) = WalkedTo(a)
        BY <2>2, PathIsTaken
    <2> HIDE DEF m
    <2>5. part \in PathRecs
        <3>1. <<s>> \in Seq(STRING)
            BY <1>4
        <3> QED BY <3>1, <2>4, NamePartIs DEF PathRecs
    <2>6. r = Append(front, part)
        <3> DEFINE x == NamePart(m)
                   y == [x EXCEPT !.indices = Append(@, s)]
                   k == Len(front)
        <3>1. x \in PathRecs /\ ps = Append(front, x)
            BY <2>3, <2>4, NamePartIs DEF m
        <3>2. y = part
            BY DEF NamePart
        <3> HIDE DEF x, y
        <3>3. ps # <<>> /\ Len(ps) = k + 1 /\ k \in Nat /\ ps[k + 1] = x /\ ps \in Seq(PathRecs)
            BY <3>1
        <3>4. r = [ps EXCEPT ![k + 1] = [ps[k + 1] EXCEPT !.indices = Append(@, s)]]
            BY <3>3, <1>9 DEF AddStep
        <3>5. r = [ps EXCEPT ![k + 1] = y]
            BY <3>3, <3>4 DEF y
        <3> HIDE DEF part, r
        <3>6. [Append(front, x) EXCEPT ![k + 1] = part] = Append(front, part)
            BY <3>1, <2>5, LastReplaced
        <3> QED BY <3>1, <3>2, <3>5, <3>6
    <2>7. TakePart(c, part) = WalkedTo(b)
        <3>1. part.indices = <<s>> /\ part.name = m /\ <<s>> # <<>> /\ Len(<<s>>) = 1 /\ <<s>>[1] = s
            OBVIOUS
        <3> HIDE DEF part, c
        <3>2. TakePart(c, part) = IndexByNumber(IndexByName(c, m), s)
            BY <3>1 DEF TakePart
        <3> QED BY <3>2, <2>4, <1>5, <1>9
    <2>8. LeadTo(r, WalkedTo(b))
        <3>1. LeadTo(Append(front, part), TakePart(c, part))
            <4>1. LeadTo(front, c)
                BY <2>3
            <4> HIDE DEF part, c
            <4> QED BY <4>1, <2>5, LeadOn
        <3> QED BY <3>1, <2>6, <2>7
    <2> HIDE DEF r, b
    <2>9. PartsLead(r, p, n + 1)
        BY <2>8, <1>7, <1>9 DEF PartsLead, b
    <2> QED BY <2>9 DEF r
<1> QED BY <1>8, <1>9

(* A path without slashes and dots is found again.                         *)
LEMMA PathIsReached ==
    ASSUME PlainDoc, NEW p \in Paths(given), p # <<>>
    PROVE  Reached(p) = WalkedTo(p)
<1> DEFINE N == Len(p)
<1>1. given \in MediaBodies
    BY DEF PlainDoc
<1>2. p \in Seq(STRING) /\ Range(p) \subseteq DOMAIN PathParts
    BY <1>1, BodyIs
<1>3. N \in Nat /\ N \in Int /\ 0 \in Int
    BY <1>2
<1>4. PICK f : PartsOf(f, p)
    BY <1>2, PartsExist
<1>5. /\ f[0] = <<>> /\ WrittenPath(p) = f[N]
      /\ \A n \in 0..N : f[n] \in Seq(PathRecs)
      /\ \A n \in 1..N : f[n] = AddStep(f[n - 1], p[n])
    BY <1>4 DEF PartsOf
<1> DEFINE T == {n \in 0..N : PartsLead(f[n], p, n)}
<1>6. 0 \in T
    <2>1. SubSeq(p, 1, 0) = <<>>
        BY <1>2
    <2>2. LeadTo(<<>>, WalkedTo(SubSeq(p, 1, 0)))
        BY <2>1, LeadFromRoot
    <2>3. ~(0 > 0) /\ <<>> \in Seq(PathRecs)
        OBVIOUS
    <2>4. PartsLead(<<>>, p, 0)
        BY <2>2, <2>3 DEF PartsLead
    <2> QED BY <2>4, <1>3, <1>5
<1>7. ASSUME NEW n \in 0..N - 1, n \in T PROVE n + 1 \in T
    <2>1. n + 1 \in 1..N /\ n + 1 \in 0..N /\ (n + 1) - 1 = n
        BY <1>3
    <2>2. f[n + 1] = AddStep(f[n], p[n + 1])
        BY <2>1, <1>5
    <2>3. PartsLead(f[n], p, n)
        BY <1>7
    <2>4. PartsLead(AddStep(f[n], p[n + 1]), p, n + 1)
        BY <2>3, StepLeadsOn
    <2> QED BY <2>1, <2>2, <2>4
<1>8. 0..N \subseteq T
    <2> HIDE DEF T, N
    <2> QED BY <1>3, <1>6, <1>7, IntervalInduction
<1>9. PartsLead(f[N], p, N)
    BY <1>3, <1>8
<1>10. SubSeq(p, 1, N) = p
    BY <1>2
<1>11. f[N] \in Seq(PathRecs) /\ LeadTo(f[N], WalkedTo(p))
    BY <1>9, <1>10 DEF PartsLead
<1> QED BY <1>5, <1>11, ReachedIs

(* What a body shows of an image that went through the pipeline.           *)
PicOf(p) ==
    IF Embedded(NodeAt(given, p)) THEN Processed(NodeAt(given, p), p, NodeAt(given, p).label)
    ELSE [Processed(NodeAt(given, p), p, FetchedLabel(p)) EXCEPT !.label = FetchedLabel(p), !.url = "none"]
Pending == Those(WalkOrder, {p \in Paths(given) : BehindUrl(NodeAt(given, p))})
Audios  == Those(WalkOrder, {p \in Paths(given) : IsAudio(NodeAt(given, p))})

(* The images that are shown when n of the pending ones were placed, the   *)
(* audio that is silent when m blocks were scanned, and the body then.     *)
ShownTo(n, e) ==
    {p \in DOMAIN fate : /\ Fine(p)
                         /\ \/ e /\ Embedded(NodeAt(given, p))
                            \/ /\ BehindUrl(NodeAt(given, p)) /\ Fetched(p)
                               /\ \E i \in 1..n : i \in DOMAIN Pending /\ p = Pending[i]}
SilentTo(m) == {p \in DOMAIN fate : /\ IsAudio(NodeAt(given, p)) /\ Heard(p)
                                    /\ \E i \in 1..m : i \in DOMAIN Audios /\ p = Audios[i]}
Look(shown, silent) ==
    [p \in Paths(given) |-> IF p \in shown THEN PicOf(p)
                            ELSE IF p \in silent THEN Notice(NodeAt(given, p)) ELSE NodeAt(given, p)]

AllPlaced == IF mediaSettings.images /\ mediaSettings.client THEN Len(Pending) ELSE 0
ToScan == IF mediaSettings.spotter THEN Audios ELSE <<>>
AtStage(n, e, m) ==
    /\ mediaStage \in {"walk", "fetch", "place", "listen", "scan", "modified", "unmodified"}
    /\ mediaStage = "walk" => mediaSettings.images /\ cursor = 1 /\ n = 0 /\ e = FALSE /\ m = 0
    /\ mediaStage \in {"fetch", "place"} =>
         mediaSettings.images /\ mediaSettings.client /\ e = TRUE /\ m = 0 /\ pendingUrls = Pending
    /\ mediaStage = "fetch" => cursor = 1 /\ n = 0
    /\ mediaStage = "place" => cursor \in 1..Len(Pending) + 1 /\ n = cursor - 1
    /\ mediaStage \in {"listen", "scan", "modified", "unmodified"} => e = mediaSettings.images /\ n = AllPlaced
    /\ mediaStage = "listen" => m = 0
    /\ mediaStage = "scan" => blocks = ToScan /\ cursor \in 1..Len(ToScan) + 1 /\ m = cursor - 1
    /\ mediaStage \in {"modified", "unmodified"} => m = Len(ToScan)
    /\ mediaStage = "unmodified" => imageCount = 0
DocIs(n, e, m) ==
    /\ doc = Look(ShownTo(n, e), SilentTo(m))
    /\ imageCount = Cardinality(ShownTo(n, e))
MediaKnown ==
    /\ given \in MediaBodies
    /\ fate \in [{p \in Paths(given) : NodeAt(given, p).kind \in ImageKinds \cup AudioKinds} -> Fates]
    /\ mediaSettings \in [images : BOOLEAN, client : BOOLEAN, fetch : BOOLEAN,
                          localHttp : BOOLEAN, spotter : BOOLEAN]
MediaInv ==
    /\ MediaKnown
    /\ PlainBody => \E n, m \in Nat, e \in BOOLEAN : AtStage(n, e, m) /\ DocIs(n, e, m)

(* What the walks find is in the body, each once.                          *)
LEMMA ListsAre ==
    ASSUME given \in MediaBodies
    PROVE  /\ Pending \in Seq(Paths(given)) /\ Len(Pending) \in Nat /\ DOMAIN Pending = 1..Len(Pending)
           /\ \A p \in Paths(given) : BehindUrl(NodeAt(given, p)) <=> \E i \in 1..Len(Pending) : p = Pending[i]
           /\ \A i \in 1..Len(Pending) : Pending[i] \in Paths(given) /\ BehindUrl(NodeAt(given, Pending[i]))
           /\ \A i, j \in 1..Len(Pending) : Pending[i] = Pending[j] => i = j
           /\ Audios \in Seq(Paths(given)) /\ Len(Audios) \in Nat /\ DOMAIN Audios = 1..Len(Audios)
           /\ \A p \in Paths(given) : IsAudio(NodeAt(given, p)) <=> \E i \in 1..Len(Audios) : p = Audios[i]
           /\ \A i \in 1..Len(Audios) : Audios[i] \in Paths(given) /\ IsAudio(NodeAt(given, Audios[i]))
           /\ \A i, j \in 1..Len(Audios) : Audios[i] = Audios[j] => i = j
<1> DEFINE P == Paths(given)
           ord == WalkOrder
<1>1. /\ ord \in Seq(Seq(STRING)) /\ ToSet(ord) = P /\ Ordered(ord, Different) /\ P \subseteq Seq(STRING)
    BY BodyIs
<1> HIDE DEF P, ord
<1>2. ASSUME NEW S, S \subseteq P
      PROVE  /\ Those(ord, S) \in Seq(P) /\ Len(Those(ord, S)) \in Nat
             /\ DOMAIN Those(ord, S) = 1..Len(Those(ord, S))
             /\ \A p \in P : p \in S <=> \E i \in 1..Len(Those(ord, S)) : p = Those(ord, S)[i]
             /\ \A i \in 1..Len(Those(ord, S)) : Those(ord, S)[i] \in S
             /\ \A i, j \in 1..Len(Those(ord, S)) : Those(ord, S)[i] = Those(ord, S)[j] => i = j
    <2> DEFINE t == Those(ord, S)
    <2>1. t \in Seq(Seq(STRING) \cap S) /\ ToSet(t) = ToSet(ord) \cap S
        BY <1>1, ThoseElements
    <2>2. Ordered(t, Different)
        BY <1>1, ThoseOrdered
    <2> HIDE DEF t
    <2>3. Seq(STRING) \cap S = S /\ ToSet(t) = S
        BY <1>1, <1>2, <2>1
    <2>4. t \in Seq(S)
        BY <2>1, <2>3
    <2>5. Len(t) \in Nat /\ DOMAIN t = 1..Len(t) /\ \A i \in 1..Len(t) : t[i] \in S
        BY <2>4
    <2>6. t \in Seq(P)
        BY <1>2, <2>4, <2>5, ElementsOf
    <2>7. \A p \in P : p \in S <=> \E i \in 1..Len(t) : p = t[i]
        BY <2>3, <2>4, <2>5, ToSetElements
    <2>8. ASSUME NEW i \in 1..Len(t), NEW j \in 1..Len(t), t[i] = t[j], i # j PROVE FALSE
        <3>1. \A k, l \in 1..Len(t) : k < l => t[k] # t[l]
            BY <2>2 DEF Ordered, Different
        <3>2. i < j \/ j < i
            BY <2>8, <2>5
        <3> QED BY <3>1, <3>2, <2>8
    <2> QED BY <2>5, <2>6, <2>7, <2>8 DEF t
<1> DEFINE U == {p \in P : BehindUrl(NodeAt(given, p))}
           V == {p \in P : IsAudio(NodeAt(given, p))}
<1>3. Pending = Those(ord, U) /\ Audios = Those(ord, V)
    BY DEF Pending, Audios, ord, P
<1>4. U \subseteq P /\ V \subseteq P
    OBVIOUS
<1>5. /\ \A p \in P : p \in U <=> BehindUrl(NodeAt(given, p))
      /\ \A p \in P : p \in V <=> IsAudio(NodeAt(given, p))
    OBVIOUS
<1> HIDE DEF U, V
<1> DEFINE a == Those(ord, U)
           b == Those(ord, V)
<1>6. /\ a \in Seq(P) /\ Len(a) \in Nat /\ DOMAIN a = 1..Len(a)
      /\ \A p \in P : p \in U <=> \E i \in 1..Len(a) : p = a[i]
      /\ \A i \in 1..Len(a) : a[i] \in U
      /\ \A i, j \in 1..Len(a) : a[i] = a[j] => i = j
    BY <1>2, <1>4
<1>7. /\ b \in Seq(P) /\ Len(b) \in Nat /\ DOMAIN b = 1..Len(b)
      /\ \A p \in P : p \in V <=> \E i \in 1..Len(b) : p = b[i]
      /\ \A i \in 1..Len(b) : b[i] \in V
      /\ \A i, j \in 1..Len(b) : b[i] = b[j] => i = j
    BY <1>2, <1>4
<1> HIDE DEF a, b
<1>8. Pending = a /\ Audios = b
    BY <1>3 DEF a, b
<1>9. \A i \in 1..Len(a) : a[i] \in P /\ BehindUrl(NodeAt(given, a[i]))
    BY <1>4, <1>5, <1>6
<1>10. \A i \in 1..Len(b) : b[i] \in P /\ IsAudio(NodeAt(given, b[i]))
    BY <1>4, <1>5, <1>7
<1>11. \A p \in P : BehindUrl(NodeAt(given, p)) <=> \E i \in 1..Len(a) : p = a[i]
    BY <1>5, <1>6
<1>12. \A p \in P : IsAudio(NodeAt(given, p)) <=> \E i \in 1..Len(b) : p = b[i]
    BY <1>5, <1>7
<1> QED BY <1>6, <1>7, <1>8, <1>9, <1>10, <1>11, <1>12 DEF P

LEMMA FateIs ==
    ASSUME MediaKnown, NEW p \in Paths(given), IsImage(NodeAt(given, p)) \/ IsAudio(NodeAt(given, p))
    PROVE  /\ p \in DOMAIN fate /\ fate[p].bytes \in Labels2
           /\ p \in Seq(STRING) /\ NodeAt(given, p) \in MediaNodes
<1>1. given \in MediaBodies
    BY DEF MediaKnown
<1>2. p \in Seq(STRING) /\ NodeAt(given, p) \in MediaNodes
    BY <1>1, BodyIs
<1>3. NodeAt(given, p).kind \in ImageKinds \cup AudioKinds
    BY DEF IsImage, IsAudio, Embedded, BehindUrl, AudioKinds
<1> DEFINE D == {q \in Paths(given) : NodeAt(given, q).kind \in ImageKinds \cup AudioKinds}
<1>4. p \in D /\ fate \in [D -> Fates]
    BY <1>3 DEF MediaKnown
<1> HIDE DEF D
<1>5. p \in DOMAIN fate /\ fate[p] \in Fates
    BY <1>4
<1>6. fate[p] \in [bytes : Labels2, processable : BOOLEAN, served : STRING,
                   answered : BOOLEAN, heard : BOOLEAN]
    BY <1>5, MediaAssumption
<1>7. fate[p].bytes \in Labels2
    BY <1>6
<1> QED BY <1>2, <1>5, <1>7

LEMMA KindsApart ==
    ASSUME NEW node
    PROVE  /\ IsImage(node) => node.kind \in ImageKinds /\ node.kind \notin AudioKinds /\ ~IsAudio(node)
           /\ IsAudio(node) => node.kind \in AudioKinds /\ node.kind \notin ImageKinds /\ ~IsImage(node)
           /\ ~(Embedded(node) /\ BehindUrl(node))
BY DEF IsImage, IsAudio, Embedded, BehindUrl, ImageKinds, AudioKinds

LEMMA ShownGrows ==
    ASSUME MediaKnown, NEW n \in Nat, n + 1 <= Len(Pending), NEW e \in BOOLEAN
    PROVE  /\ Pending[n + 1] \in Paths(given) /\ BehindUrl(NodeAt(given, Pending[n + 1]))
           /\ Pending[n + 1] \notin ShownTo(n, e)
           /\ ShownTo(n + 1, e) = IF Fetched(Pending[n + 1]) /\ fate[Pending[n + 1]].processable
                                  THEN ShownTo(n, e) \cup {Pending[n + 1]} ELSE ShownTo(n, e)
<1> DEFINE p == Pending[n + 1]
           k == n + 1
<1>1. /\ Len(Pending) \in Nat /\ DOMAIN Pending = 1..Len(Pending)
      /\ \A i \in 1..Len(Pending) : Pending[i] \in Paths(given) /\ BehindUrl(NodeAt(given, Pending[i]))
      /\ \A i, j \in 1..Len(Pending) : Pending[i] = Pending[j] => i = j
    BY ListsAre DEF MediaKnown
<1>2. k \in 1..Len(Pending) /\ k \in DOMAIN Pending /\ k \in Nat
    BY <1>1
<1>3. p \in Paths(given) /\ BehindUrl(NodeAt(given, p)) /\ p \in DOMAIN fate
    <2>1. p \in Paths(given) /\ BehindUrl(NodeAt(given, p))
        BY <1>1, <1>2
    <2> QED BY <2>1, FateIs DEF IsImage
<1>4. ~Embedded(NodeAt(given, p))
    BY <1>3, KindsApart
<1>5. \A i \in 1..n : i \in DOMAIN Pending /\ i # k /\ p # Pending[i]
    BY <1>1, <1>2
<1>6. \A i \in 1..k : i = k \/ i \in 1..n
    OBVIOUS
<1>7. 1..n \subseteq 1..k /\ k \in 1..k
    OBVIOUS
<1> HIDE DEF p, k
<1>8. p \notin ShownTo(n, e)
    BY <1>4, <1>5 DEF ShownTo
<1>9. p = Pending[k]
    BY DEF p, k
<1>10. \A q : (\E i \in 1..k : i \in DOMAIN Pending /\ q = Pending[i])
               <=> (q = p \/ \E i \in 1..n : i \in DOMAIN Pending /\ q = Pending[i])
    BY <1>2, <1>6, <1>7, <1>9
<1>11. Fetched(p) /\ fate[p].processable => Fine(p)
    BY DEF Fetched, Fine
<1>12. Fine(p) => fate[p].processable
    BY DEF Fine
<1>13. CASE Fetched(p) /\ fate[p].processable
    <2>1. ShownTo(k, e) = ShownTo(n, e) \cup {p}
        BY <1>3, <1>10, <1>11, <1>13 DEF ShownTo
    <2> QED BY <2>1, <1>3, <1>8, <1>13 DEF p, k
<1>14. CASE ~(Fetched(p) /\ fate[p].processable)
    <2>1. ShownTo(k, e) = ShownTo(n, e)
        BY <1>4, <1>10, <1>12, <1>14 DEF ShownTo
    <2> QED BY <2>1, <1>3, <1>8, <1>14 DEF p, k
<1> QED BY <1>13, <1>14

LEMMA SilentGrows ==
    ASSUME MediaKnown, NEW m \in Nat, m + 1 <= Len(Audios)
    PROVE  /\ Audios[m + 1] \in Paths(given) /\ IsAudio(NodeAt(given, Audios[m + 1]))
           /\ Audios[m + 1] \notin SilentTo(m)
           /\ SilentTo(m + 1) = IF Heard(Audios[m + 1])
                                THEN SilentTo(m) \cup {Audios[m + 1]} ELSE SilentTo(m)
<1> DEFINE p == Audios[m + 1]
           k == m + 1
<1>1. /\ Len(Audios) \in Nat /\ DOMAIN Audios = 1..Len(Audios)
      /\ \A i \in 1..Len(Audios) : Audios[i] \in Paths(given) /\ IsAudio(NodeAt(given, Audios[i]))
      /\ \A i, j \in 1..Len(Audios) : Audios[i] = Audios[j] => i = j
    BY ListsAre DEF MediaKnown
<1>2. k \in 1..Len(Audios) /\ k \in DOMAIN Audios /\ k \in Nat
    BY <1>1
<1>3. p \in Paths(given) /\ IsAudio(NodeAt(given, p)) /\ p \in DOMAIN fate
    <2>1. p \in Paths(given) /\ IsAudio(NodeAt(given, p))
        BY <1>1, <1>2
    <2> QED BY <2>1, FateIs
<1>5. \A i \in 1..m : i \in DOMAIN Audios /\ i # k /\ p # Audios[i]
    BY <1>1, <1>2
<1>6. \A i \in 1..k : i = k \/ i \in 1..m
    OBVIOUS
<1>7. 1..m \subseteq 1..k /\ k \in 1..k
    OBVIOUS
<1> HIDE DEF p, k
<1>8. p \notin SilentTo(m)
    BY <1>5 DEF SilentTo
<1>9. p = Audios[k]
    BY DEF p, k
<1>10. \A q : (\E i \in 1..k : i \in DOMAIN Audios /\ q = Audios[i])
               <=> (q = p \/ \E i \in 1..m : i \in DOMAIN Audios /\ q = Audios[i])
    BY <1>2, <1>6, <1>7, <1>9
<1>13. CASE Heard(p)
    <2>1. SilentTo(k) = SilentTo(m) \cup {p}
        BY <1>3, <1>10, <1>13 DEF SilentTo
    <2> QED BY <2>1, <1>3, <1>8, <1>13 DEF p, k
<1>14. CASE ~Heard(p)
    <2>1. SilentTo(k) = SilentTo(m)
        BY <1>10, <1>14 DEF SilentTo
    <2> QED BY <2>1, <1>3, <1>8, <1>14 DEF p, k
<1> QED BY <1>13, <1>14

(* What is shown is an image, what is silent was audio.                    *)
LEMMA SetsAre ==
    ASSUME MediaKnown, NEW n \in Nat, NEW m \in Nat, NEW e \in BOOLEAN
    PROVE  /\ ShownTo(n, e) \subseteq Paths(given) /\ SilentTo(m) \subseteq Paths(given)
           /\ \A p \in ShownTo(n, e) : IsImage(NodeAt(given, p)) /\ p \notin SilentTo(m)
           /\ \A p \in SilentTo(m) : IsAudio(NodeAt(given, p))
           /\ IsFiniteSet(ShownTo(n, e)) /\ Cardinality(ShownTo(n, e)) \in Nat
<1>1. DOMAIN fate \subseteq Paths(given) /\ IsFiniteSet(Paths(given))
    <2>1. given \in MediaBodies
        BY DEF MediaKnown
    <2>2. IsFiniteSet(Paths(given))
        BY <2>1, BodyIs
    <2>3. DOMAIN fate \subseteq Paths(given)
        BY DEF MediaKnown
    <2> QED BY <2>2, <2>3
<1>2. /\ ShownTo(n, e) \subseteq Paths(given) /\ SilentTo(m) \subseteq Paths(given)
    BY <1>1 DEF ShownTo, SilentTo
<1>3. ASSUME NEW p \in ShownTo(n, e) PROVE IsImage(NodeAt(given, p))
    BY DEF ShownTo, IsImage
<1>4. ASSUME NEW p \in SilentTo(m) PROVE IsAudio(NodeAt(given, p))
    BY DEF SilentTo
<1>5. ASSUME NEW p \in ShownTo(n, e) PROVE p \notin SilentTo(m)
    BY <1>3, <1>4, KindsApart
<1>6. IsFiniteSet(ShownTo(n, e)) /\ Cardinality(ShownTo(n, e)) \in Nat
    BY <1>1, <1>2, FS_Subset, FS_CardinalityType
<1> QED BY <1>2, <1>3, <1>4, <1>5, <1>6

LEMMA NoneSilent == SilentTo(0) = {}
BY DEF SilentTo

LEMMA NoneShown == ShownTo(0, FALSE) = {}
BY DEF ShownTo

(* The fields of what is shown.                                            *)
PictureShown(r, node, p, o) ==
    /\ r.kind = node.kind /\ r.of = p /\ r.clean = TRUE /\ r.form = "base64" /\ r.bytes = o

LEMMA PictureShownIs ==
    ASSUME NEW K, NEW F, NEW L, NEW U, NEW O, NEW B,
           NEW node \in [kind : K, form : F, label : L, url : U, of : O, clean : BOOLEAN, bytes : B],
           NEW b, NEW p, NEW o, NEW l, NEW u
    PROVE  LET r == [node EXCEPT !.form = b, !.of = p, !.clean = TRUE, !.bytes = o]
               s == [r EXCEPT !.label = l, !.url = u]
           IN  /\ r.kind = node.kind /\ r.of = p /\ r.clean = TRUE /\ r.form = b /\ r.bytes = o
               /\ r.label = node.label /\ r.url = node.url
               /\ s.kind = node.kind /\ s.of = p /\ s.clean = TRUE /\ s.form = b /\ s.bytes = o
               /\ s.label = l /\ s.url = u
<1> DEFINE r == [node EXCEPT !.form = b, !.of = p, !.clean = TRUE, !.bytes = o]
           s == [r EXCEPT !.label = l, !.url = u]
<1>1. node = [kind |-> node.kind, form |-> node.form, label |-> node.label, url |-> node.url,
              of |-> node.of, clean |-> node.clean, bytes |-> node.bytes]
    OBVIOUS
<1>2. /\ r.kind = node.kind /\ r.of = p /\ r.clean = TRUE /\ r.form = b /\ r.bytes = o
      /\ r.label = node.label /\ r.url = node.url
    BY <1>1
<1>3. /\ "label" \in DOMAIN r /\ "url" \in DOMAIN r
    OBVIOUS
<1>4. /\ s.kind = r.kind /\ s.of = r.of /\ s.clean = r.clean /\ s.form = r.form /\ s.bytes = r.bytes
      /\ s.label = l /\ s.url = u
    <2> HIDE DEF r
    <2> QED BY <1>3
<1> QED BY <1>2, <1>4

LEMMA PicIs ==
    ASSUME MediaKnown, NEW p \in Paths(given), IsImage(NodeAt(given, p)), Fine(p),
           BehindUrl(NodeAt(given, p)) => Fetched(p)
    PROVE  /\ PicOf(p).kind = Kind(p) /\ PicOf(p).of = p /\ PicOf(p).clean
           /\ PicOf(p).form = "base64" /\ PicOf(p).url = "none"
           /\ PicOf(p).label \in {"none", "image/bmp", PicOf(p).bytes}
<1> DEFINE node == NodeAt(given, p)
<1>1. /\ node \in MediaNodes /\ p \in Seq(STRING) /\ fate[p].bytes \in Labels2
    BY FateIs
<1>2. /\ node.kind \in ImageKinds /\ node.label \in Labels2
      /\ node.form # "url" => node.url = "none"
    <2>1. given \in MediaBodies /\ node.kind \in ImageKinds
        BY KindsApart DEF MediaKnown
    <2> QED BY <2>1, BodyIs DEF Kind
<1>3. \A l \in Labels2 : l \in {"none", "image/bmp", OutputFormat(l)}
    BY DEF OutputFormat, Labels2
<1>4. ASSUME NEW l
      PROVE  /\ PictureShown(Processed(node, p, l), node, p, OutputFormat(l))
             /\ Processed(node, p, l).label = node.label /\ Processed(node, p, l).url = node.url
             /\ PictureShown([Processed(node, p, l) EXCEPT !.label = l, !.url = "none"], node, p, OutputFormat(l))
             /\ [Processed(node, p, l) EXCEPT !.label = l, !.url = "none"].label = l
             /\ [Processed(node, p, l) EXCEPT !.label = l, !.url = "none"].url = "none"
    <2> HIDE DEF node
    <2> DEFINE r == [node EXCEPT !.form = "base64", !.of = p, !.clean = TRUE, !.bytes = OutputFormat(l)]
               s == [r EXCEPT !.label = l, !.url = "none"]
    <2>1. /\ r.kind = node.kind /\ r.of = p /\ r.clean = TRUE /\ r.form = "base64" /\ r.bytes = OutputFormat(l)
          /\ r.label = node.label /\ r.url = node.url
          /\ s.kind = node.kind /\ s.of = p /\ s.clean = TRUE /\ s.form = "base64" /\ s.bytes = OutputFormat(l)
          /\ s.label = l /\ s.url = "none"
        BY <1>1, PictureShownIs, Zenon DEF MediaNodes
    <2>2. Processed(node, p, l) = r /\ [Processed(node, p, l) EXCEPT !.label = l, !.url = "none"] = s
        BY DEF Processed
    <2> HIDE DEF r, s
    <2> QED BY <2>1, <2>2 DEF PictureShown
<1>5. CASE Embedded(node)
    <2>1. node.form = "base64" /\ node.url = "none"
        BY <1>2, <1>5 DEF Embedded
    <2>2. PicOf(p) = Processed(node, p, node.label)
        BY <1>5 DEF PicOf
    <2> DEFINE l == node.label
    <2>3. l \in Labels2
        BY <1>2
    <2>4. PicOf(p) = Processed(node, p, l)
        BY <2>2
    <2>5. PictureShown(Processed(node, p, l), node, p, OutputFormat(l)) /\ Processed(node, p, l).label = l
          /\ Processed(node, p, l).url = "none"
        BY <1>4, <2>1
    <2> HIDE DEF l
    <2>6. PictureShown(PicOf(p), node, p, OutputFormat(l)) /\ PicOf(p).label = l /\ PicOf(p).url = "none"
        BY <2>4, <2>5
    <2> QED BY <2>3, <2>6, <1>3 DEF Kind, PictureShown
<1>6. CASE BehindUrl(node)
    <2> DEFINE l == FetchedLabel(p)
    <2>1. l \in Labels2
        BY <1>1, <1>6 DEF Fetched, FetchedLabel
    <2>2. ~Embedded(node)
        BY <1>6, KindsApart
    <2>3. PicOf(p) = [Processed(node, p, l) EXCEPT !.label = l, !.url = "none"]
        BY <2>2 DEF PicOf
    <2> HIDE DEF l
    <2>4. PictureShown(PicOf(p), node, p, OutputFormat(l)) /\ PicOf(p).label = l /\ PicOf(p).url = "none"
        BY <2>3, <1>4
    <2> QED BY <2>1, <2>4, <1>3 DEF Kind, PictureShown
<1> QED BY <1>5, <1>6 DEF IsImage

LEMMA StaticKept ==
    ASSUME given' = given, fate' = fate, mediaSettings' = mediaSettings
    PROVE  /\ MediaKnown' = MediaKnown /\ PlainBody' = PlainBody
           /\ Pending' = Pending /\ Audios' = Audios /\ AllPlaced' = AllPlaced /\ ToScan' = ToScan
           /\ \A n, e : ShownTo(n, e)' = ShownTo(n, e)
           /\ \A m : SilentTo(m)' = SilentTo(m)
           /\ \A s, t : Look(s, t)' = Look(s, t)
<1>1. MediaKnown' = MediaKnown
    BY DEF MediaKnown, Paths, NodeAt
<1>2. PlainBody' = PlainBody
    BY DEF PlainBody, PlainPath, Paths, NodeAt
<1>3. Pending' = Pending /\ Audios' = Audios
    BY DEF Pending, Audios, WalkOrder, Paths, NodeAt, BehindUrl, IsAudio
<1>4. AllPlaced' = AllPlaced /\ ToScan' = ToScan
    BY <1>3 DEF AllPlaced, ToScan
<1>5. \A n, e : ShownTo(n, e)' = ShownTo(n, e)
    BY <1>3 DEF ShownTo, Fine, Fetched, UrlAllowed, NodeAt, Embedded, BehindUrl
<1>6. \A m : SilentTo(m)' = SilentTo(m)
    BY <1>3 DEF SilentTo, Heard, NodeAt, IsAudio
<1>7. \A s, t : Look(s, t)' = Look(s, t)
    BY DEF Look, PicOf, Notice, NodeAt, Paths, Embedded, Processed, FetchedLabel
<1> QED BY <1>1, <1>2, <1>3, <1>4, <1>5, <1>6, <1>7

(* A step that leaves these alone need only say how the body looks then.   *)
LEMMA StepIs ==
    ASSUME MediaInv, given' = given, fate' = fate, mediaSettings' = mediaSettings,
           PlainBody =>
             \E n, m \in Nat, e \in BOOLEAN :
               /\ AtStage(n, e, m)' /\ doc' = Look(ShownTo(n, e), SilentTo(m))
               /\ imageCount' = Cardinality(ShownTo(n, e))
    PROVE  MediaInv'
<1>1. MediaKnown' /\ (PlainBody' <=> PlainBody)
    BY StaticKept DEF MediaInv
<1>2. ASSUME NEW n \in Nat, NEW m \in Nat, NEW e \in BOOLEAN,
             doc' = Look(ShownTo(n, e), SilentTo(m)), imageCount' = Cardinality(ShownTo(n, e))
      PROVE  DocIs(n, e, m)'
    <2>1. Look(ShownTo(n, e), SilentTo(m))' = Look(ShownTo(n, e), SilentTo(m))
        <3>1. ShownTo(n, e)' = ShownTo(n, e) /\ SilentTo(m)' = SilentTo(m)
            BY StaticKept
        <3> DEFINE s == ShownTo(n, e)
                   t == SilentTo(m)
        <3>2. Look(s, t)' = [p \in Paths(given)' |-> IF p \in s' THEN PicOf(p)'
                            ELSE IF p \in t' THEN Notice(NodeAt(given, p))' ELSE NodeAt(given, p)']
            BY DEF Look
        <3>3. \A p : Paths(given)' = Paths(given) /\ PicOf(p)' = PicOf(p) /\ NodeAt(given, p)' = NodeAt(given, p)
                       /\ Notice(NodeAt(given, p))' = Notice(NodeAt(given, p))
            BY DEF PicOf, Notice, NodeAt, Paths, Embedded, Processed, FetchedLabel
        <3> QED BY <3>1, <3>2, <3>3 DEF Look
    <2>2. ShownTo(n, e)' = ShownTo(n, e)
        BY StaticKept
    <2> QED BY <2>1, <2>2, <1>2 DEF DocIs
<1>3. PlainBody => (\E n, m \in Nat, e \in BOOLEAN : AtStage(n, e, m) /\ DocIs(n, e, m))'
    BY <1>2
<1> QED BY <1>1, <1>3 DEF MediaInv

LEMMA MediaInitInv == MediaInit => MediaInv
<1> SUFFICES ASSUME MediaInit PROVE MediaInv
    OBVIOUS
<1>1. MediaKnown
    BY DEF MediaInit, MediaKnown
<1>2. /\ cursor = 1 /\ pendingUrls = <<>> /\ imageCount = 0
      /\ doc = [p \in Paths(given) |-> NodeAt(given, p)]
      /\ mediaStage = IF mediaSettings.images THEN "walk" ELSE "listen"
    BY DEF MediaInit
<1>3. mediaSettings.images \in BOOLEAN
    BY <1>1 DEF MediaKnown
<1>4. ShownTo(0, FALSE) = {} /\ SilentTo(0) = {} /\ Cardinality({}) = 0
    BY NoneShown, NoneSilent, FS_EmptySet
<1>5. DocIs(0, FALSE, 0)
    BY <1>2, <1>4 DEF DocIs, Look
<1>6. AtStage(0, FALSE, 0)
    BY <1>2, <1>3 DEF AtStage, AllPlaced
<1> QED BY <1>1, <1>5, <1>6 DEF MediaInv

(* What walks see is what arrived, but for the pictures.                   *)
LEMMA LookIs ==
    ASSUME MediaKnown, NEW n \in Nat, NEW m \in Nat, NEW e \in BOOLEAN, doc = Look(ShownTo(n, e), SilentTo(m)),
           NEW p \in Paths(given)
    PROVE  /\ DOMAIN doc = Paths(given)
           /\ p \in ShownTo(n, e) => doc[p] = PicOf(p)
           /\ p \notin ShownTo(n, e) /\ p \in SilentTo(m) => doc[p] = Notice(NodeAt(given, p))
           /\ p \notin ShownTo(n, e) /\ p \notin SilentTo(m) => doc[p] = NodeAt(given, p)
BY DEF Look

LEMMA NoticeKind ==
    ASSUME NEW node \in MediaNodes
    PROVE  Notice(node).kind = "notice"
BY DEF Notice, MediaNodes

LEMMA ShownPic ==
    ASSUME MediaKnown, NEW n \in Nat, NEW e \in BOOLEAN, NEW p \in ShownTo(n, e)
    PROVE  PicOf(p).kind = Kind(p) /\ IsImage(NodeAt(given, p))
<1>1. p \in Paths(given) /\ IsImage(NodeAt(given, p))
    BY SetsAre
<1>2. Fine(p) /\ (BehindUrl(NodeAt(given, p)) => Fetched(p))
    BY KindsApart DEF ShownTo
<1> QED BY <1>1, <1>2, PicIs

LEMMA LookFits ==
    ASSUME MediaKnown, PlainBody, NEW n \in Nat, NEW m \in Nat, NEW e \in BOOLEAN, doc = Look(ShownTo(n, e), SilentTo(m))
    PROVE  PlainDoc
<1>1. DOMAIN doc = Paths(given)
    BY DEF Look
<1>2. ASSUME NEW p \in Paths(given)
      PROVE  doc[p].kind = Kind(p) \/ (doc[p].kind = "notice" /\ Kind(p) \in AudioKinds)
    <2>1. CASE p \in ShownTo(n, e)
        BY <2>1, LookIs, ShownPic
    <2>2. CASE p \notin ShownTo(n, e) /\ p \in SilentTo(m)
        <3>1. IsAudio(NodeAt(given, p))
            BY <2>2, SetsAre
        <3>2. Kind(p) \in AudioKinds /\ NodeAt(given, p) \in MediaNodes
            BY <3>1, KindsApart, FateIs DEF Kind
        <3> QED BY <2>2, <3>2, LookIs, NoticeKind
    <2>3. CASE p \notin ShownTo(n, e) /\ p \notin SilentTo(m)
        BY <2>3, LookIs DEF Kind
    <2> QED BY <2>1, <2>2, <2>3
<1>3. DocFits
    BY <1>1, <1>2 DEF DocFits
<1> QED BY <1>3 DEF PlainDoc, MediaKnown

LEMMA WalkInv == MediaInv /\ Walk => MediaInv'
<1> SUFFICES ASSUME MediaInv, Walk PROVE MediaInv'
    OBVIOUS
<1> DEFINE now == {p \in DOMAIN fate : Embedded(doc[p]) /\ Fine(p)}
<1>1. /\ mediaStage = "walk"
      /\ doc' = [p \in DOMAIN doc |-> IF p \in now THEN Processed(doc[p], p, doc[p].label) ELSE doc[p]]
      /\ imageCount' = Cardinality(now)
      /\ pendingUrls' = Those(WalkOrder, {p \in Paths(given) : BehindUrl(doc[p])})
      /\ mediaStage' = IF pendingUrls' # <<>> /\ mediaSettings.client THEN "fetch" ELSE "listen"
      /\ given' = given /\ fate' = fate /\ mediaSettings' = mediaSettings /\ cursor' = cursor
    BY DEF Walk
<1> SUFFICES ASSUME PlainBody
             PROVE  \E n, m \in Nat, e \in BOOLEAN :
                      /\ AtStage(n, e, m)' /\ doc' = Look(ShownTo(n, e), SilentTo(m))
                      /\ imageCount' = Cardinality(ShownTo(n, e))
    BY <1>1, StepIs
<1>2. MediaKnown
    BY DEF MediaInv
<1>3. PICK n \in Nat, m \in Nat, e \in BOOLEAN : AtStage(n, e, m) /\ DocIs(n, e, m)
    BY DEF MediaInv
<1>4. /\ mediaSettings.images /\ cursor = 1 /\ n = 0 /\ e = FALSE /\ m = 0
    BY <1>1, <1>3 DEF AtStage
<1>5. ShownTo(0, FALSE) = {} /\ SilentTo(0) = {}
    BY NoneShown, NoneSilent
<1>6. doc = [p \in Paths(given) |-> NodeAt(given, p)]
    BY <1>3, <1>4, <1>5 DEF DocIs, Look
<1>7. DOMAIN fate \subseteq Paths(given)
    BY <1>2 DEF MediaKnown
<1>8. now = ShownTo(0, TRUE)
    BY <1>6, <1>7 DEF ShownTo
<1>9. pendingUrls' = Pending
    <2>1. {p \in Paths(given) : BehindUrl(doc[p])} = {p \in Paths(given) : BehindUrl(NodeAt(given, p))}
        BY <1>6
    <2> QED BY <2>1, <1>1 DEF Pending
<1>10. \A p \in now : Embedded(NodeAt(given, p))
    BY <1>6, <1>7
<1> HIDE DEF now
<1>11. doc' = Look(ShownTo(0, TRUE), SilentTo(0))
    BY <1>1, <1>5, <1>6, <1>8, <1>10 DEF Look, PicOf
<1>12. /\ Pending' = Pending /\ AllPlaced' = AllPlaced /\ ToScan' = ToScan
    BY <1>1, StaticKept
<1>13. AtStage(0, TRUE, 0)'
    <2>1. Len(Pending) \in Nat /\ (Pending = <<>> => Len(Pending) = 0)
        BY <1>2, ListsAre DEF MediaKnown
    <2>2. mediaStage' = "fetch" => mediaSettings.client
        BY <1>1
    <2>3. mediaStage' = "listen" => 0 = AllPlaced
        <3>1. ASSUME mediaStage' = "listen" PROVE Pending = <<>> \/ ~mediaSettings.client
            BY <3>1, <1>1, <1>9
        <3> QED BY <3>1, <2>1 DEF AllPlaced
    <2>4. mediaStage' \in {"fetch", "listen"}
        BY <1>1
    <2> QED BY <2>2, <2>3, <2>4, <1>1, <1>4, <1>9, <1>12 DEF AtStage
<1> QED BY <1>1, <1>8, <1>11, <1>13

LEMMA FetchEndsInv == MediaInv /\ FetchEnds => MediaInv'
<1> SUFFICES ASSUME MediaInv, FetchEnds PROVE MediaInv'
    OBVIOUS
<1>1. /\ mediaStage = "fetch" /\ mediaStage' \in {"fetch", "place"}
      /\ doc' = doc /\ imageCount' = imageCount /\ pendingUrls' = pendingUrls
      /\ given' = given /\ fate' = fate /\ mediaSettings' = mediaSettings /\ cursor' = cursor
    BY DEF FetchEnds
<1> SUFFICES ASSUME PlainBody
             PROVE  \E n, m \in Nat, e \in BOOLEAN :
                      /\ AtStage(n, e, m)' /\ doc' = Look(ShownTo(n, e), SilentTo(m))
                      /\ imageCount' = Cardinality(ShownTo(n, e))
    BY <1>1, StepIs
<1>2. PICK n \in Nat, m \in Nat, e \in BOOLEAN : AtStage(n, e, m) /\ DocIs(n, e, m)
    BY DEF MediaInv
<1>3. /\ Pending' = Pending /\ AllPlaced' = AllPlaced /\ ToScan' = ToScan
    BY <1>1, StaticKept
<1>4. Len(Pending) \in Nat
    BY ListsAre DEF MediaInv, MediaKnown
<1>5. AtStage(n, e, m)'
    <2>1. /\ mediaSettings.images /\ mediaSettings.client /\ e = TRUE /\ m = 0 /\ pendingUrls = Pending
          /\ cursor = 1 /\ n = 0
        BY <1>1, <1>2 DEF AtStage
    <2>2. 1 \in 1..Len(Pending) + 1 /\ 0 = 1 - 1
        BY <1>4
    <2> QED BY <2>1, <2>2, <1>1, <1>3 DEF AtStage
<1> QED BY <1>1, <1>2, <1>5 DEF DocIs

LEMMA PlaceNextInv == MediaInv /\ PlaceNext => MediaInv'
<1> SUFFICES ASSUME MediaInv, PlaceNext PROVE MediaInv'
    OBVIOUS
<1>1. /\ mediaStage = "place" /\ cursor <= Len(pendingUrls) /\ cursor' = cursor + 1
      /\ IF Fetched(pendingUrls[cursor]) /\ fate[pendingUrls[cursor]].processable
         THEN /\ doc' = PutImage(pendingUrls[cursor], pendingUrls[cursor])
              /\ imageCount' = imageCount + 1
         ELSE doc' = doc /\ imageCount' = imageCount
      /\ given' = given /\ fate' = fate /\ mediaSettings' = mediaSettings
      /\ pendingUrls' = pendingUrls /\ mediaStage' = mediaStage
    BY DEF PlaceNext, ResultOf
<1> SUFFICES ASSUME PlainBody
             PROVE  \E n, m \in Nat, e \in BOOLEAN :
                      /\ AtStage(n, e, m)' /\ doc' = Look(ShownTo(n, e), SilentTo(m))
                      /\ imageCount' = Cardinality(ShownTo(n, e))
    BY <1>1, StepIs
<1>2. MediaKnown
    BY DEF MediaInv
<1>3. PICK n \in Nat, m \in Nat, e \in BOOLEAN : AtStage(n, e, m) /\ DocIs(n, e, m)
    BY DEF MediaInv
<1>4. /\ mediaSettings.images /\ mediaSettings.client /\ e = TRUE /\ m = 0 /\ pendingUrls = Pending
      /\ cursor \in 1..Len(Pending) + 1 /\ n = cursor - 1
    BY <1>1, <1>3 DEF AtStage
<1>5. Len(Pending) \in Nat
    BY <1>2, ListsAre DEF MediaKnown
<1>6. n + 1 <= Len(Pending) /\ cursor = n + 1 /\ n + 1 \in Nat
    BY <1>1, <1>4, <1>5
<1> DEFINE p == Pending[n + 1]
<1>7. /\ p \in Paths(given) /\ BehindUrl(NodeAt(given, p)) /\ p \notin ShownTo(n, e)
      /\ ShownTo(n + 1, e) = IF Fetched(p) /\ fate[p].processable
                             THEN ShownTo(n, e) \cup {p} ELSE ShownTo(n, e)
    BY <1>2, <1>6, ShownGrows
<1>8. pendingUrls[cursor] = p
    BY <1>4, <1>6
<1> HIDE DEF p
<1>9. SilentTo(m) = {}
    BY <1>4, NoneSilent
<1>10. doc = Look(ShownTo(n, e), SilentTo(m)) /\ imageCount = Cardinality(ShownTo(n, e))
    BY <1>3 DEF DocIs
<1>11. doc[p] = NodeAt(given, p) /\ DOMAIN doc = Paths(given)
    BY <1>2, <1>7, <1>9, <1>10, LookIs
<1>12. /\ Pending' = Pending /\ AllPlaced' = AllPlaced /\ ToScan' = ToScan
    BY <1>1, StaticKept
<1>13. AtStage(n + 1, e, m)'
    <2>1. cursor' \in 1..Len(Pending) + 1 /\ n + 1 = cursor' - 1
        BY <1>1, <1>5, <1>6
    <2> QED BY <2>1, <1>1, <1>4, <1>12 DEF AtStage
<1>14. ASSUME Fetched(p), fate[p].processable
       PROVE  /\ doc' = Look(ShownTo(n + 1, e), SilentTo(m))
              /\ imageCount' = Cardinality(ShownTo(n + 1, e))
    <2>1. ShownTo(n + 1, e) = ShownTo(n, e) \cup {p}
        BY <1>7, <1>14
    <2>2. Pointed(p) = p
        <3>1. PlainPath(p)
            BY <1>7 DEF PlainBody
        <3>2. p \in Seq(STRING) /\ Range(p) \subseteq DOMAIN PointerParts
            BY <1>2, <1>7, BodyIs DEF MediaKnown
        <3> QED BY <3>1, <3>2, PointedIs DEF PlainPath
    <2>3. HasSource(NodeAt(given, p), NodeAt(given, p).kind) /\ ~Embedded(NodeAt(given, p))
        BY <1>7, KindsApart DEF HasSource, BehindUrl, ImageKinds
    <2>4. doc' = PutImage(p, p) /\ imageCount' = imageCount + 1
        BY <1>1, <1>8, <1>14
    <2>5. PutImage(p, p) = [doc EXCEPT ![p] = PicOf(p)]
        BY <2>2, <2>3, <1>7, <1>11 DEF PutImage, PicOf
    <2>6. doc' = Look(ShownTo(n + 1, e), SilentTo(m))
        <3> DEFINE d == [doc EXCEPT ![p] = PicOf(p)]
                   l == Look(ShownTo(n + 1, e), SilentTo(m))
        <3>1. d = [q \in Paths(given) |-> IF q = p THEN PicOf(p) ELSE doc[q]]
            BY <1>7, <1>11
        <3>2. \A q \in Paths(given) : doc[q] = IF q \in ShownTo(n, e) THEN PicOf(q)
                                     ELSE IF q \in SilentTo(m) THEN Notice(NodeAt(given, q)) ELSE NodeAt(given, q)
            BY <1>10 DEF Look
        <3>3. l = [q \in Paths(given) |-> IF q \in ShownTo(n + 1, e) THEN PicOf(q)
                                     ELSE IF q \in SilentTo(m) THEN Notice(NodeAt(given, q)) ELSE NodeAt(given, q)]
            BY DEF Look
        <3> HIDE DEF d, l
        <3>4. d = l
            BY <3>1, <3>2, <3>3, <2>1
        <3> QED BY <3>4, <2>4, <2>5 DEF d, l
    <2>7. imageCount' = Cardinality(ShownTo(n + 1, e))
        <3>1. IsFiniteSet(ShownTo(n, e))
            BY <1>2, SetsAre
        <3>2. Cardinality(ShownTo(n, e) \cup {p}) = Cardinality(ShownTo(n, e)) + 1
            BY <3>1, <1>7, FS_AddElement
        <3> QED BY <3>2, <2>1, <2>4, <1>10
    <2> QED BY <2>6, <2>7
<1>15. ASSUME ~(Fetched(p) /\ fate[p].processable)
       PROVE  /\ doc' = Look(ShownTo(n + 1, e), SilentTo(m))
              /\ imageCount' = Cardinality(ShownTo(n + 1, e))
    <2>1. ShownTo(n + 1, e) = ShownTo(n, e)
        BY <1>7, <1>15
    <2>2. doc' = doc /\ imageCount' = imageCount
        BY <1>1, <1>8, <1>15
    <2> QED BY <2>1, <2>2, <1>10
<1> QED BY <1>6, <1>13, <1>14, <1>15

LEMMA EndPlaceInv == MediaInv /\ EndPlace => MediaInv'
<1> SUFFICES ASSUME MediaInv, EndPlace PROVE MediaInv'
    OBVIOUS
<1>1. /\ mediaStage = "place" /\ mediaStage' = "listen" /\ cursor > Len(pendingUrls)
      /\ doc' = doc /\ imageCount' = imageCount
      /\ given' = given /\ fate' = fate /\ mediaSettings' = mediaSettings
    BY DEF EndPlace
<1> SUFFICES ASSUME PlainBody
             PROVE  \E n, m \in Nat, e \in BOOLEAN :
                      /\ AtStage(n, e, m)' /\ doc' = Look(ShownTo(n, e), SilentTo(m))
                      /\ imageCount' = Cardinality(ShownTo(n, e))
    BY <1>1, StepIs
<1>2. PICK n \in Nat, m \in Nat, e \in BOOLEAN : AtStage(n, e, m) /\ DocIs(n, e, m)
    BY DEF MediaInv
<1>3. /\ mediaSettings.images /\ mediaSettings.client /\ e = TRUE /\ m = 0 /\ pendingUrls = Pending
      /\ cursor \in 1..Len(Pending) + 1 /\ n = cursor - 1
    BY <1>1, <1>2 DEF AtStage
<1>4. Len(Pending) \in Nat
    BY ListsAre DEF MediaInv, MediaKnown
<1>5. n = AllPlaced
    <2> DEFINE N == Len(Pending)
    <2>1. N \in Nat /\ cursor \in 1..N + 1 /\ cursor > N /\ n = cursor - 1
        BY <1>1, <1>3, <1>4
    <2> HIDE DEF N
    <2>2. n = N
        BY <2>1
    <2> QED BY <2>2, <1>3 DEF N, AllPlaced
<1>6. /\ Pending' = Pending /\ AllPlaced' = AllPlaced /\ ToScan' = ToScan
    BY <1>1, StaticKept
<1>7. AtStage(n, e, m)'
    BY <1>1, <1>3, <1>5, <1>6 DEF AtStage
<1> QED BY <1>1, <1>2, <1>7 DEF DocIs

LEMMA DetectAudioInv == MediaInv /\ DetectAudio => MediaInv'
<1> SUFFICES ASSUME MediaInv, DetectAudio PROVE MediaInv'
    OBVIOUS
<1>1. /\ mediaStage = "listen" /\ mediaStage' = "scan" /\ cursor' = 1
      /\ blocks' = IF mediaSettings.spotter
                   THEN Those(WalkOrder, {p \in Paths(given) : IsAudio(doc[p])}) ELSE <<>>
      /\ doc' = doc /\ imageCount' = imageCount
      /\ given' = given /\ fate' = fate /\ mediaSettings' = mediaSettings
    BY DEF DetectAudio
<1> SUFFICES ASSUME PlainBody
             PROVE  \E n, m \in Nat, e \in BOOLEAN :
                      /\ AtStage(n, e, m)' /\ doc' = Look(ShownTo(n, e), SilentTo(m))
                      /\ imageCount' = Cardinality(ShownTo(n, e))
    BY <1>1, StepIs
<1>2. MediaKnown
    BY DEF MediaInv
<1>3. PICK n \in Nat, m \in Nat, e \in BOOLEAN : AtStage(n, e, m) /\ DocIs(n, e, m)
    BY DEF MediaInv
<1>4. m = 0 /\ e = mediaSettings.images /\ n = AllPlaced
    BY <1>1, <1>3 DEF AtStage
<1>5. SilentTo(m) = {}
    BY <1>4, NoneSilent
<1>6. doc = Look(ShownTo(n, e), SilentTo(m)) /\ imageCount = Cardinality(ShownTo(n, e))
    BY <1>3 DEF DocIs
<1>7. ASSUME NEW p \in Paths(given) PROVE IsAudio(doc[p]) <=> IsAudio(NodeAt(given, p))
    <2>1. CASE p \in ShownTo(n, e)
        <3>1. doc[p] = PicOf(p) /\ PicOf(p).kind = Kind(p) /\ IsImage(NodeAt(given, p))
            BY <2>1, <1>2, <1>6, LookIs, ShownPic
        <3>2. doc[p].kind \in ImageKinds
            BY <3>1, KindsApart DEF Kind
        <3>3. ~IsAudio(doc[p])
            BY <3>2, KindsApart
        <3> QED BY <3>1, <3>3, KindsApart
    <2>2. CASE p \notin ShownTo(n, e)
        BY <2>2, <1>2, <1>5, <1>6, LookIs
    <2> QED BY <2>1, <2>2
<1>8. blocks' = ToScan
    <2>1. {p \in Paths(given) : IsAudio(doc[p])} = {p \in Paths(given) : IsAudio(NodeAt(given, p))}
        BY <1>7
    <2> QED BY <2>1, <1>1 DEF ToScan, Audios
<1>9. /\ Pending' = Pending /\ AllPlaced' = AllPlaced /\ ToScan' = ToScan
    BY <1>1, StaticKept
<1>10. AtStage(n, e, m)'
    <2>1. Len(ToScan) \in Nat
        BY <1>2, ListsAre DEF MediaKnown, ToScan
    <2>2. 1 \in 1..Len(ToScan) + 1 /\ 0 = 1 - 1
        BY <2>1
    <2> QED BY <2>2, <1>1, <1>4, <1>8, <1>9 DEF AtStage
<1> QED BY <1>1, <1>6, <1>10

LEMMA ScanAudioInv == MediaInv /\ ScanAudio => MediaInv'
<1> SUFFICES ASSUME MediaInv, ScanAudio PROVE MediaInv'
    OBVIOUS
<1> DEFINE w == Reached(blocks[cursor])
<1>1. /\ mediaStage = "scan" /\ cursor <= Len(blocks) /\ cursor' = cursor + 1
      /\ ~Heard(blocks[cursor]) => doc' = doc /\ mediaStage' = mediaStage
      /\ given' = given /\ fate' = fate /\ mediaSettings' = mediaSettings
      /\ blocks' = blocks /\ imageCount' = imageCount
    BY DEF ScanAudio
<1>2. ASSUME Heard(blocks[cursor])
      PROVE  /\ doc' = IF w.doc[w.at].kind \in AudioKinds /\ ~w.panicked
                       THEN [w.doc EXCEPT ![w.at] = Notice(@)] ELSE w.doc
             /\ mediaStage' = IF w.panicked THEN "panicked" ELSE mediaStage
    BY <1>2 DEF ScanAudio
<1> SUFFICES ASSUME PlainBody
             PROVE  \E n, m \in Nat, e \in BOOLEAN :
                      /\ AtStage(n, e, m)' /\ doc' = Look(ShownTo(n, e), SilentTo(m))
                      /\ imageCount' = Cardinality(ShownTo(n, e))
    BY <1>1, StepIs
<1>3. MediaKnown
    BY DEF MediaInv
<1>4. PICK n \in Nat, m \in Nat, e \in BOOLEAN : AtStage(n, e, m) /\ DocIs(n, e, m)
    BY DEF MediaInv
<1>5. /\ e = mediaSettings.images /\ n = AllPlaced /\ blocks = ToScan
      /\ cursor \in 1..Len(ToScan) + 1 /\ m = cursor - 1
    BY <1>1, <1>4 DEF AtStage
<1>6. Len(ToScan) \in Nat /\ Len(Audios) \in Nat
    BY <1>3, ListsAre DEF MediaKnown, ToScan
<1>7. m + 1 <= Len(ToScan) /\ cursor = m + 1 /\ m + 1 \in Nat
    BY <1>1, <1>5, <1>6
<1>8. ToScan = Audios
    <2>1. Len(ToScan) # 0
        BY <1>6, <1>7
    <2>2. Len(<<>>) = 0
        OBVIOUS
    <2> QED BY <2>1, <2>2 DEF ToScan
<1> DEFINE p == Audios[m + 1]
<1>9. /\ p \in Paths(given) /\ IsAudio(NodeAt(given, p)) /\ p \notin SilentTo(m)
      /\ SilentTo(m + 1) = IF Heard(p) THEN SilentTo(m) \cup {p} ELSE SilentTo(m)
    BY <1>3, <1>7, <1>8, SilentGrows
<1>10. blocks[cursor] = p
    BY <1>5, <1>7, <1>8
<1> HIDE DEF p
<1>11. doc = Look(ShownTo(n, e), SilentTo(m)) /\ imageCount = Cardinality(ShownTo(n, e))
    BY <1>4 DEF DocIs
<1>12. p \notin ShownTo(n, e)
    BY <1>3, <1>9, SetsAre, KindsApart
<1>13. doc[p] = NodeAt(given, p) /\ DOMAIN doc = Paths(given)
    BY <1>3, <1>9, <1>11, <1>12, LookIs
<1>14. doc[p].kind \in AudioKinds
    BY <1>9, <1>13, KindsApart
<1>15. Reached(p) = WalkedTo(p)
    <2>1. PlainDoc
        BY <1>3, <1>11, LookFits
    <2>2. p # <<>>
        <3>1. NodeAt(given, <<>>).kind = "object"
            BY DEF PlainBody
        <3> QED BY <3>1, <1>13, <1>14 DEF AudioKinds
    <2> QED BY <2>1, <2>2, <1>9, PathIsReached
<1>16. w.doc = doc /\ w.at = p /\ w.panicked = FALSE
    BY <1>10, <1>15 DEF WalkedTo
<1> HIDE DEF w
<1>17. /\ Pending' = Pending /\ AllPlaced' = AllPlaced /\ ToScan' = ToScan
    BY <1>1, StaticKept
<1>18. mediaStage' = "scan"
    BY <1>1, <1>2, <1>16
<1>19. AtStage(n, e, m + 1)'
    <2>1. cursor' \in 1..Len(ToScan) + 1 /\ m + 1 = cursor' - 1
        BY <1>1, <1>6, <1>7
    <2> QED BY <2>1, <1>1, <1>5, <1>17, <1>18 DEF AtStage
<1>20. ASSUME Heard(p) PROVE doc' = Look(ShownTo(n, e), SilentTo(m + 1))
    <2>1. SilentTo(m + 1) = SilentTo(m) \cup {p}
        BY <1>9, <1>20
    <2>2. doc' = [doc EXCEPT ![p] = Notice(@)]
        BY <1>2, <1>10, <1>14, <1>16, <1>20
    <2> DEFINE d == [doc EXCEPT ![p] = Notice(@)]
               l == Look(ShownTo(n, e), SilentTo(m + 1))
    <2>3. d = [q \in Paths(given) |-> IF q = p THEN Notice(NodeAt(given, p)) ELSE doc[q]]
        BY <1>9, <1>13
    <2>4. \A q \in Paths(given) : doc[q] = IF q \in ShownTo(n, e) THEN PicOf(q)
                                 ELSE IF q \in SilentTo(m) THEN Notice(NodeAt(given, q)) ELSE NodeAt(given, q)
        BY <1>11 DEF Look
    <2>5. l = [q \in Paths(given) |-> IF q \in ShownTo(n, e) THEN PicOf(q)
                                 ELSE IF q \in SilentTo(m + 1) THEN Notice(NodeAt(given, q)) ELSE NodeAt(given, q)]
        BY DEF Look
    <2> HIDE DEF d, l
    <2>6. d = l
        BY <2>1, <2>3, <2>4, <2>5, <1>12
    <2> QED BY <2>2, <2>6 DEF d, l
<1>21. ASSUME ~Heard(p) PROVE doc' = Look(ShownTo(n, e), SilentTo(m + 1))
    BY <1>1, <1>9, <1>10, <1>11, <1>21
<1> QED BY <1>1, <1>7, <1>11, <1>19, <1>20, <1>21

LEMMA ConcludeInv == MediaInv /\ Conclude => MediaInv'
<1> SUFFICES ASSUME MediaInv, Conclude PROVE MediaInv'
    OBVIOUS
<1>1. /\ mediaStage = "scan" /\ cursor > Len(blocks)
      /\ mediaStage' = "modified" \/ (mediaStage' = "unmodified" /\ imageCount = 0)
      /\ doc' = doc /\ imageCount' = imageCount
      /\ given' = given /\ fate' = fate /\ mediaSettings' = mediaSettings
    BY DEF Conclude
<1> SUFFICES ASSUME PlainBody
             PROVE  \E n, m \in Nat, e \in BOOLEAN :
                      /\ AtStage(n, e, m)' /\ doc' = Look(ShownTo(n, e), SilentTo(m))
                      /\ imageCount' = Cardinality(ShownTo(n, e))
    BY <1>1, StepIs
<1>2. PICK n \in Nat, m \in Nat, e \in BOOLEAN : AtStage(n, e, m) /\ DocIs(n, e, m)
    BY DEF MediaInv
<1>3. /\ e = mediaSettings.images /\ n = AllPlaced /\ blocks = ToScan
      /\ cursor \in 1..Len(ToScan) + 1 /\ m = cursor - 1
    BY <1>1, <1>2 DEF AtStage
<1>4. Len(ToScan) \in Nat
    BY ListsAre DEF MediaInv, MediaKnown, ToScan
<1>5. m = Len(ToScan)
    BY <1>1, <1>3, <1>4
<1>6. /\ Pending' = Pending /\ AllPlaced' = AllPlaced /\ ToScan' = ToScan
    BY <1>1, StaticKept
<1>7. AtStage(n, e, m)'
    BY <1>1, <1>3, <1>5, <1>6 DEF AtStage
<1> QED BY <1>1, <1>2, <1>7 DEF DocIs

LEMMA MediaStepInv == MediaInv /\ [MediaNext]_mediaVars => MediaInv'
<1> SUFFICES ASSUME MediaInv, [MediaNext]_mediaVars PROVE MediaInv'
    OBVIOUS
<1>1. CASE Walk
    BY <1>1, WalkInv
<1>2. CASE FetchEnds
    BY <1>2, FetchEndsInv
<1>3. CASE PlaceNext
    BY <1>3, PlaceNextInv
<1>4. CASE EndPlace
    BY <1>4, EndPlaceInv
<1>5. CASE DetectAudio
    BY <1>5, DetectAudioInv
<1>6. CASE ScanAudio
    BY <1>6, ScanAudioInv
<1>7. CASE Conclude
    BY <1>7, ConcludeInv
<1>8. CASE UNCHANGED mediaVars
    <2>1. /\ doc' = doc /\ imageCount' = imageCount /\ given' = given /\ fate' = fate
          /\ mediaSettings' = mediaSettings /\ mediaStage' = mediaStage /\ cursor' = cursor
          /\ pendingUrls' = pendingUrls /\ blocks' = blocks
        BY <1>8 DEF mediaVars
    <2> SUFFICES ASSUME PlainBody
                 PROVE  \E n, m \in Nat, e \in BOOLEAN :
                          /\ AtStage(n, e, m)' /\ doc' = Look(ShownTo(n, e), SilentTo(m))
                          /\ imageCount' = Cardinality(ShownTo(n, e))
        BY <2>1, StepIs
    <2>2. PICK n \in Nat, m \in Nat, e \in BOOLEAN : AtStage(n, e, m) /\ DocIs(n, e, m)
        BY DEF MediaInv
    <2>3. /\ Pending' = Pending /\ AllPlaced' = AllPlaced /\ ToScan' = ToScan
        BY <2>1, StaticKept
    <2>4. AtStage(n, e, m)'
        BY <2>1, <2>2, <2>3 DEF AtStage
    <2> QED BY <2>1, <2>2, <2>4 DEF DocIs
<1> QED BY <1>1, <1>2, <1>3, <1>4, <1>5, <1>6, <1>7, <1>8 DEF MediaNext

LEMMA AllShown ==
    ASSUME MediaKnown, NEW p \in Paths(given)
    PROVE  p \in ShownTo(AllPlaced, mediaSettings.images)
             <=> p \in DOMAIN fate /\ IsImage(NodeAt(given, p)) /\ Replaced(p)
<1> DEFINE node == NodeAt(given, p)
           s == ShownTo(AllPlaced, mediaSettings.images)
<1>1. mediaSettings.images \in BOOLEAN /\ mediaSettings.client \in BOOLEAN
    BY DEF MediaKnown
<1>2. /\ Len(Pending) \in Nat /\ DOMAIN Pending = 1..Len(Pending)
      /\ BehindUrl(node) <=> \E i \in 1..Len(Pending) : p = Pending[i]
    BY ListsAre DEF MediaKnown
<1>3. (\E i \in 1..AllPlaced : i \in DOMAIN Pending /\ p = Pending[i])
        <=> mediaSettings.images /\ mediaSettings.client /\ BehindUrl(node)
    <2>1. CASE mediaSettings.images /\ mediaSettings.client
        BY <2>1, <1>2 DEF AllPlaced
    <2>2. CASE ~(mediaSettings.images /\ mediaSettings.client)
        <3>1. AllPlaced = 0 /\ 1..0 = {}
            BY <2>2 DEF AllPlaced
        <3> QED BY <3>1, <2>2
    <2> QED BY <2>1, <2>2
<1>4. p \in s <=> /\ p \in DOMAIN fate /\ Fine(p)
                  /\ \/ mediaSettings.images /\ Embedded(node)
                     \/ BehindUrl(node) /\ Fetched(p) /\ mediaSettings.images /\ mediaSettings.client
    <2>1. p \in s <=> /\ p \in DOMAIN fate /\ Fine(p)
                      /\ \/ mediaSettings.images /\ Embedded(node)
                         \/ /\ BehindUrl(node) /\ Fetched(p)
                            /\ \E i \in 1..AllPlaced : i \in DOMAIN Pending /\ p = Pending[i]
        BY DEF ShownTo
    <2> HIDE DEF s
    <2> QED BY <2>1, <1>3
<1> HIDE DEF s
<1>5. CASE Embedded(node)
    <2>1. node.form # "url" /\ IsImage(node) /\ ~BehindUrl(node)
        BY <1>5, KindsApart DEF Embedded, IsImage
    <2>2. Replaced(p) <=> mediaSettings.images /\ Fine(p)
        BY <2>1 DEF Replaced, Fine
    <2> QED BY <2>1, <2>2, <1>4, <1>5 DEF s
<1>6. CASE BehindUrl(node)
    <2>1. node.form = "url" /\ IsImage(node) /\ ~Embedded(node)
        BY <1>6, KindsApart DEF BehindUrl, IsImage
    <2>2. Replaced(p) <=> mediaSettings.images /\ Fine(p) /\ mediaSettings.client /\ Fetched(p)
        BY <2>1 DEF Replaced, Fine, Fetched, UrlAllowed
    <2> QED BY <2>1, <2>2, <1>4, <1>6 DEF s
<1>7. CASE ~Embedded(node) /\ ~BehindUrl(node)
    BY <1>4, <1>7 DEF s, IsImage
<1> QED BY <1>5, <1>6, <1>7

LEMMA AllSilent ==
    ASSUME MediaKnown, NEW p \in Paths(given)
    PROVE  p \in SilentTo(Len(ToScan)) <=> mediaSettings.spotter /\ IsAudio(NodeAt(given, p)) /\ Heard(p)
<1> DEFINE node == NodeAt(given, p)
<1>1. /\ Len(Audios) \in Nat /\ DOMAIN Audios = 1..Len(Audios)
      /\ IsAudio(node) <=> \E i \in 1..Len(Audios) : p = Audios[i]
    BY ListsAre DEF MediaKnown
<1>2. IsAudio(node) => p \in DOMAIN fate
    BY FateIs
<1>3. mediaSettings.spotter \in BOOLEAN
    BY DEF MediaKnown
<1>4. CASE mediaSettings.spotter
    <2>1. ToScan = Audios
        BY <1>4 DEF ToScan
    <2> QED BY <2>1, <1>1, <1>2, <1>4 DEF SilentTo
<1>5. CASE ~mediaSettings.spotter
    <2>1. ToScan = <<>>
        BY <1>5 DEF ToScan
    <2>2. SilentTo(Len(ToScan)) = {}
        <3>1. Len(ToScan) = 0
            BY <2>1
        <3> QED BY <3>1, NoneSilent
    <2> QED BY <2>2, <1>5
<1> QED BY <1>4, <1>5

LEMMA MediaInvFinds == MediaInv => MediaFindsItsBlock
<1> SUFFICES ASSUME MediaInv PROVE MediaFindsItsBlock
    OBVIOUS
<1>1. MediaKnown
    BY DEF MediaInv
<1>2. ASSUME mediaStage = "panicked" PROVE ~PlainBody
    BY <1>2 DEF MediaInv, AtStage
<1> DEFINE sent == IF mediaStage = "modified" THEN doc ELSE [p \in Paths(given) |-> NodeAt(given, p)]
           R == {p \in DOMAIN fate : IsImage(NodeAt(given, p)) /\ Replaced(p)}
           Good(p) ==
             LET node == NodeAt(given, p) IN
             CASE IsImage(node) /\ Replaced(p) ->
                    /\ sent[p].of = p /\ sent[p].clean
                    /\ sent[p].kind = node.kind /\ sent[p].form = "base64" /\ sent[p].url = "none"
                    /\ sent[p].label \in {"none", "image/bmp", sent[p].bytes}
               [] IsAudio(node) /\ mediaSettings.spotter /\ Heard(p) ->
                    \/ sent[p].kind = "notice"
                    \/ mediaStage = "unmodified" /\ imageCount = 0
               [] OTHER -> sent[p] = node
<1>3. ASSUME mediaStage \in {"modified", "unmodified"}, PlainBody
      PROVE  DOMAIN sent = Paths(given) /\ (\A p \in Paths(given) : Good(p)) /\ imageCount = Cardinality(R)
    <2>1. PICK n \in Nat, m \in Nat, e \in BOOLEAN : AtStage(n, e, m) /\ DocIs(n, e, m)
        BY <1>3 DEF MediaInv
    <2>2. /\ e = mediaSettings.images /\ n = AllPlaced /\ m = Len(ToScan)
          /\ mediaStage = "unmodified" => imageCount = 0
        BY <2>1, <1>3 DEF AtStage
    <2> DEFINE s == ShownTo(n, e)
               t == SilentTo(m)
    <2>3. doc = Look(s, t) /\ imageCount = Cardinality(s)
        BY <2>1 DEF DocIs
    <2>4. /\ s \subseteq Paths(given) /\ IsFiniteSet(s)
        BY <1>1, SetsAre
    <2>5. \A p \in Paths(given) : p \in s <=> p \in DOMAIN fate /\ IsImage(NodeAt(given, p)) /\ Replaced(p)
        BY <1>1, <2>2, AllShown
    <2>6. \A p \in Paths(given) : p \in t <=> mediaSettings.spotter /\ IsAudio(NodeAt(given, p)) /\ Heard(p)
        BY <1>1, <2>2, AllSilent
    <2>7. ASSUME NEW p \in Paths(given)
          PROVE  /\ p \in s => doc[p] = PicOf(p)
                 /\ p \notin s /\ p \in t => doc[p] = Notice(NodeAt(given, p))
                 /\ p \notin s /\ p \notin t => doc[p] = NodeAt(given, p)
        BY <2>3 DEF Look
    <2>8. DOMAIN doc = Paths(given)
        BY <2>3 DEF Look
    <2>9. ASSUME NEW p \in s
          PROVE  /\ PicOf(p).kind = Kind(p) /\ PicOf(p).of = p /\ PicOf(p).clean
                 /\ PicOf(p).form = "base64" /\ PicOf(p).url = "none"
                 /\ PicOf(p).label \in {"none", "image/bmp", PicOf(p).bytes}
        <3>1. p \in Paths(given) /\ IsImage(NodeAt(given, p))
            BY <1>1, SetsAre
        <3>2. Fine(p) /\ (BehindUrl(NodeAt(given, p)) => Fetched(p))
            BY KindsApart DEF ShownTo
        <3> QED BY <1>1, <3>1, <3>2, PicIs
    <2> HIDE DEF s, t
    <2>10. R = s
        <3>1. DOMAIN fate \subseteq Paths(given)
            BY <1>1 DEF MediaKnown
        <3> QED BY <3>1, <2>4, <2>5
    <2>11. mediaStage = "unmodified" => s = {}
        BY <2>2, <2>3, <2>4, FS_EmptySet
    <2>12. DOMAIN sent = Paths(given)
        BY <2>8
    <2>13. ASSUME NEW p \in Paths(given) PROVE Good(p)
        <3> DEFINE node == NodeAt(given, p)
                   A == IsImage(node) /\ Replaced(p)
                   B == IsAudio(node) /\ mediaSettings.spotter /\ Heard(p)
        <3>1. A => p \in s
            BY <1>1, <2>5, FateIs
        <3>2. p \in s => A
            BY <2>5
        <3>3. B <=> p \in t
            BY <2>6
        <3>4. ~(A /\ B)
            BY KindsApart
        <3>5. CASE A
            <4>1. mediaStage = "modified" /\ sent[p] = PicOf(p)
                BY <1>3, <2>7, <2>11, <3>1, <3>5
            <4>2. /\ sent[p].of = p /\ sent[p].clean
                  /\ sent[p].kind = node.kind /\ sent[p].form = "base64" /\ sent[p].url = "none"
                  /\ sent[p].label \in {"none", "image/bmp", sent[p].bytes}
                BY <4>1, <2>9, <3>1, <3>5 DEF Kind
            <4> HIDE DEF sent
            <4> QED BY <4>2, <3>4, <3>5
        <3>6. CASE B
            <4>1. node \in MediaNodes
                BY <1>1, <3>6, FateIs
            <4>2. mediaStage = "modified" => sent[p].kind = "notice"
                BY <4>1, <2>7, <3>2, <3>3, <3>4, <3>6, NoticeKind
            <4>3. sent[p].kind = "notice" \/ (mediaStage = "unmodified" /\ imageCount = 0)
                BY <4>2, <1>3, <2>2
            <4> HIDE DEF sent
            <4> QED BY <4>3, <3>4, <3>6
        <3>7. CASE ~A /\ ~B
            <4>1. sent[p] = node
                BY <2>7, <3>2, <3>3, <3>7
            <4> HIDE DEF sent
            <4> QED BY <4>1, <3>7
        <3> QED BY <3>5, <3>6, <3>7
    <2> QED BY <2>3, <2>10, <2>12, <2>13
<1> QED BY <1>2, <1>3 DEF MediaFindsItsBlock

(* Whatever bodies there are and in whatever order the fetches end: what   *)
(* is sent for a body with plain paths shows every image that could be     *)
(* processed as its own picture, processed and counted once, a notice for  *)
(* every audio block in which a keyword was heard, and every other node as *)
(* it arrived; and such a body ends in no panic.  The code behind it is    *)
(* fetch_and_process_url_images, replace_url_with_base64 and               *)
(* replace_audio_with_notice.                                              *)
THEOREM EveryBlockIsFound == MediaSpec => []MediaFindsItsBlock
<1>1. MediaInit => MediaInv
    BY MediaInitInv
<1>2. MediaInv /\ [MediaNext]_mediaVars => MediaInv'
    BY MediaStepInv
<1>3. MediaInv => MediaFindsItsBlock
    BY MediaInvFinds
<1> QED BY <1>1, <1>2, <1>3, PTL DEF MediaSpec

-----------------------------------------------------------------------------
(***************************************************************************)
(* Text, for any map, any readings and any dictionary: the table of labels *)
(* and its roots, the patches as the closed sets of marked cells, the      *)
(* raster that labels patches alike and no others, the rounding of the     *)
(* boxes to pixels, what a reading spells, and the invariant.              *)
(***************************************************************************)

(* A table whose entries point upwards, and the root of each entry.        *)
Tables == {t \in Seq(Nat) : \A l \in 1..Len(t) : t[l] \in 1..l}
Climbs(f, t) == \A l \in 1..Len(t) : f[l] = IF t[l] = l THEN l ELSE f[t[l]]

LEMMA TableIs ==
    ASSUME NEW t \in Tables
    PROVE  /\ t \in Seq(Nat) /\ Len(t) \in Nat /\ DOMAIN t = 1..Len(t)
           /\ \A l \in 1..Len(t) : l \in Nat /\ t[l] \in Nat /\ 1 <= t[l] /\ t[l] <= l /\ t[l] \in 1..Len(t)
<1>1. t \in Seq(Nat) /\ Len(t) \in Nat /\ DOMAIN t = 1..Len(t)
    BY DEF Tables
<1>2. \A l \in 1..Len(t) : t[l] \in 1..l
    BY DEF Tables
<1> QED BY <1>1, <1>2

LEMMA ClimbsExist ==
    ASSUME NEW t \in Tables
    PROVE  \E f \in [1..Len(t) -> Nat] : Climbs(f, t)
<1> DEFINE N == Len(t)
           S == {n \in 0..N : \E f \in [1..n -> Nat] : \A l \in 1..n : f[l] = IF t[l] = l THEN l ELSE f[t[l]]}
<1>1. N \in Nat /\ N \in Int /\ 0 \in Int /\ 0 <= N
    BY TableIs
<1>2. 0 \in S
    <2> DEFINE f == [l \in 1..0 |-> 0]
    <2>1. f \in [1..0 -> Nat] /\ \A l \in 1..0 : f[l] = IF t[l] = l THEN l ELSE f[t[l]]
        OBVIOUS
    <2> HIDE DEF f
    <2>2. \E g \in [1..0 -> Nat] : \A l \in 1..0 : g[l] = IF t[l] = l THEN l ELSE g[t[l]]
        BY <2>1
    <2>3. 0 \in 0..N
        BY <1>1
    <2> HIDE DEF N
    <2> QED BY <2>2, <2>3
<1>3. ASSUME NEW n \in 0..N - 1, n \in S PROVE n + 1 \in S
    <2>1. n + 1 \in 0..N /\ n + 1 \in 1..N /\ n \in Nat
        BY <1>1
    <2>2. PICK f \in [1..n -> Nat] : \A l \in 1..n : f[l] = IF t[l] = l THEN l ELSE f[t[l]]
        BY <1>3
    <2> DEFINE m == n + 1
               g == [l \in 1..m |-> IF l <= n THEN f[l] ELSE IF t[l] = l THEN l ELSE f[t[l]]]
    <2>3. \A l \in 1..m : l \in 1..N /\ t[l] \in Nat /\ 1 <= t[l] /\ t[l] <= l
        BY <2>1, <1>1, TableIs
    <2>4. \A l \in 1..m : l # n + 1 => l \in 1..n
        BY <2>1
    <2>5. \A l \in 1..m : t[l] # l => t[l] \in 1..n
        BY <2>1, <2>3
    <2>6. g \in [1..m -> Nat]
        <3> SUFFICES ASSUME NEW l \in 1..m
                     PROVE  (IF l <= n THEN f[l] ELSE IF t[l] = l THEN l ELSE f[t[l]]) \in Nat
            OBVIOUS
        <3> QED BY <2>1, <2>4, <2>5
    <2>7. ASSUME NEW l \in 1..m PROVE g[l] = IF t[l] = l THEN l ELSE g[t[l]]
        <3>1. t[l] # l => t[l] \in 1..m /\ t[l] <= n /\ g[t[l]] = f[t[l]]
            BY <2>1, <2>5
        <3>2. CASE l <= n
            <4>1. g[l] = f[l] /\ l \in 1..n
                BY <3>2, <2>1
            <4> QED BY <4>1, <3>1, <2>2
        <3>3. CASE ~(l <= n)
            <4>1. g[l] = IF t[l] = l THEN l ELSE f[t[l]]
                BY <3>3
            <4> QED BY <4>1, <3>1
        <3> QED BY <3>2, <3>3
    <2> HIDE DEF g
    <2>8. \E h \in [1..m -> Nat] : \A l \in 1..m : h[l] = IF t[l] = l THEN l ELSE h[t[l]]
        BY <2>6, <2>7
    <2> QED BY <2>1, <2>8
<1>4. 0..N \subseteq S
    <2> HIDE DEF N, S
    <2> QED BY <1>1, <1>2, <1>3, IntervalInduction
<1>5. N \in S
    BY <1>1, <1>4
<1> QED BY <1>5 DEF Climbs

(* What climbs the table finds the roots, and Root does.                   *)
LEMMA RootClimbs ==
    ASSUME NEW t \in Tables
    PROVE  \A l \in 1..Len(t) : Root(t, l) = IF t[l] = l THEN l ELSE Root(t, t[l])
<1> DEFINE F(f) == [k \in DOMAIN t |-> IF t[k] = k THEN k ELSE f[t[k]]]
           f == CHOOSE g : g = F(g)
<1>1. \A l : Root(t, l) = f[l]
    BY DEF Root
<1>2. PICK g \in [1..Len(t) -> Nat] : Climbs(g, t)
    BY ClimbsExist
<1>3. g = F(g)
    <2>1. DOMAIN t = 1..Len(t)
        BY TableIs
    <2>2. \A l \in 1..Len(t) : g[l] = F(g)[l]
        BY <1>2, <2>1 DEF Climbs
    <2> QED BY <2>1, <2>2, <1>2
<1>4. f = F(f)
    <2> HIDE DEF F
    <2> QED BY <1>3
<1> HIDE DEF f
<1>5. ASSUME NEW l \in 1..Len(t) PROVE f[l] = IF t[l] = l THEN l ELSE f[t[l]]
    <2>1. l \in DOMAIN t
        BY TableIs
    <2>2. F(f)[l] = IF t[l] = l THEN l ELSE f[t[l]]
        BY <2>1
    <2> HIDE DEF F
    <2> QED BY <2>2, <1>4
<1> QED BY <1>1, <1>5

LEMMA RootIs ==
    ASSUME NEW t \in Tables
    PROVE  \A l \in 1..Len(t) :
             /\ Root(t, l) \in Nat /\ 1 <= Root(t, l) /\ Root(t, l) <= l /\ Root(t, l) \in 1..Len(t)
             /\ t[Root(t, l)] = Root(t, l) /\ Root(t, Root(t, l)) = Root(t, l)
<1> DEFINE N == Len(t)
           Good(l) == Root(t, l) \in 1..l /\ t[Root(t, l)] = Root(t, l)
           S == {n \in 0..N : \A l \in 1..n : Good(l)}
<1>1. N \in Nat /\ N \in Int /\ 0 \in Int /\ 0 <= N
    BY TableIs
<1>2. 0 \in S
    BY <1>1
<1>3. ASSUME NEW n \in 0..N - 1, n \in S PROVE n + 1 \in S
    <2>1. n + 1 \in 0..N /\ n + 1 \in 1..N /\ n \in Nat
        BY <1>1
    <2> DEFINE m == n + 1
               r == Root(t, m)
               u == t[m]
    <2>2. u \in Nat /\ 1 <= u /\ u <= m /\ r = IF u = m THEN m ELSE Root(t, u)
        BY <2>1, TableIs, RootClimbs
    <2>3. CASE u = m
        <3>1. r = m /\ t[r] = r
            BY <2>2, <2>3
        <3> QED
            <4>1. Good(m)
                BY <3>1, <2>1
            <4> HIDE DEF Good
            <4> QED BY <4>1, <2>1, <1>3
    <2>4. CASE u # m
        <3>1. u \in 1..n /\ r = Root(t, u)
            BY <2>1, <2>2, <2>4
        <3>2. r \in 1..u /\ t[r] = r
            BY <3>1, <1>3
        <3>3. Good(m)
            BY <3>2, <2>1, <2>2
        <3> HIDE DEF Good
        <3> QED BY <3>3, <2>1, <1>3
    <2> QED BY <2>3, <2>4
<1>4. 0..N \subseteq S
    <2> HIDE DEF N, S
    <2> QED BY <1>1, <1>2, <1>3, IntervalInduction
<1>5. N \in S
    BY <1>1, <1>4
<1> SUFFICES ASSUME NEW l \in 1..N
             PROVE  /\ Root(t, l) \in Nat /\ 1 <= Root(t, l) /\ Root(t, l) <= l /\ Root(t, l) \in 1..N
                    /\ t[Root(t, l)] = Root(t, l) /\ Root(t, Root(t, l)) = Root(t, l)
    OBVIOUS
<1> DEFINE r == Root(t, l)
<1>6. r \in 1..l /\ t[r] = r
    BY <1>5
<1> HIDE DEF r
<1>7. r \in Nat /\ 1 <= r /\ r <= l /\ r \in 1..N
    BY <1>1, <1>6
<1>8. Root(t, r) = r
    BY <1>6, <1>7, RootClimbs
<1> QED BY <1>6, <1>7, <1>8 DEF r

LEMMA RootUnique ==
    ASSUME NEW t \in Tables, NEW g, Climbs(g, t)
    PROVE  \A l \in 1..Len(t) : Root(t, l) = g[l]
<1> DEFINE N == Len(t)
           S == {n \in 0..N : \A l \in 1..n : Root(t, l) = g[l]}
<1>1. N \in Nat /\ N \in Int /\ 0 \in Int /\ 0 <= N
    BY TableIs
<1>2. 0 \in S
    BY <1>1
<1>3. ASSUME NEW n \in 0..N - 1, n \in S PROVE n + 1 \in S
    <2>1. n + 1 \in 0..N /\ n + 1 \in 1..N /\ n \in Nat
        BY <1>1
    <2> DEFINE m == n + 1
               u == t[m]
    <2>2. u \in Nat /\ 1 <= u /\ u <= m /\ Root(t, m) = IF u = m THEN m ELSE Root(t, u)
        BY <2>1, TableIs, RootClimbs
    <2>3. g[m] = IF u = m THEN m ELSE g[u]
        BY <2>1 DEF Climbs
    <2>4. u # m => u \in 1..n
        BY <2>1, <2>2
    <2>5. u # m => Root(t, u) = g[u]
        BY <2>4, <1>3
    <2> HIDE DEF u
    <2>6. Root(t, m) = g[m]
        BY <2>2, <2>3, <2>5
    <2>7. \A l \in 1..m : l # m => l \in 1..n
        BY <2>1
    <2> HIDE DEF m
    <2>8. \A l \in 1..m : Root(t, l) = g[l]
        BY <2>6, <2>7, <1>3
    <2> QED BY <2>1, <2>8 DEF m
<1>4. 0..N \subseteq S
    <2> HIDE DEF N, S
    <2> QED BY <1>1, <1>2, <1>3, IntervalInduction
<1> QED BY <1>1, <1>4

-----------------------------------------------------------------------------
LEMMA LeastOfTwo ==
    ASSUME NEW a \in Nat, NEW b \in Nat
    PROVE  Least({a, b}) = (IF a <= b THEN a ELSE b) /\ Most({a, b}) = (IF a <= b THEN b ELSE a)
<1>1. Least({a, b}) \in {a, b} /\ \A m \in {a, b} : Least({a, b}) <= m
    <2>1. \E n \in {a, b} : \A m \in {a, b} : n <= m
        OBVIOUS
    <2> QED BY <2>1 DEF Least
<1>2. Most({a, b}) \in {a, b} /\ \A m \in {a, b} : m <= Most({a, b})
    <2>1. \E n \in {a, b} : \A m \in {a, b} : m <= n
        OBVIOUS
    <2> QED BY <2>1 DEF Most
<1> QED BY <1>1, <1>2

(* A union moves one root to another and nothing else.                     *)
LEMMA UnionRoots ==
    ASSUME NEW t \in Tables, NEW a \in 1..Len(t), NEW b \in 1..Len(t)
    PROVE  /\ Union2(t, a, b) \in Tables /\ Len(Union2(t, a, b)) = Len(t)
           /\ \E lo, hi \in 1..Len(t) :
                 /\ {lo, hi} = {Root(t, a), Root(t, b)}
                 /\ \A l \in 1..Len(t) :
                      Root(Union2(t, a, b), l) = IF Root(t, l) = hi THEN lo ELSE Root(t, l)
<1> DEFINE N == Len(t)
           ra == Root(t, a)
           rb == Root(t, b)
           lo == Least({ra, rb})
           hi == Most({ra, rb})
           u == [t EXCEPT ![hi] = lo]
<1>1. ra \in 1..N /\ rb \in 1..N /\ t[ra] = ra /\ t[rb] = rb /\ N \in Nat /\ ra \in Nat /\ rb \in Nat
    BY RootIs, TableIs
<1>2. Union2(t, a, b) = u
    BY DEF Union2
<1>3. lo = (IF ra <= rb THEN ra ELSE rb) /\ hi = (IF ra <= rb THEN rb ELSE ra)
    <2> HIDE DEF ra, rb
    <2> QED BY <1>1, LeastOfTwo
<1> HIDE DEF lo, hi, ra, rb
<1>4. {lo, hi} = {ra, rb} /\ lo <= hi /\ lo \in 1..N /\ hi \in 1..N /\ t[lo] = lo /\ t[hi] = hi
    BY <1>1, <1>3
<1> HIDE DEF N
<1>5. t \in Seq(Nat) /\ DOMAIN t = 1..N /\ N = Len(t)
    BY TableIs DEF N
<1>6. u \in Seq(Nat) /\ Len(u) = N /\ \A l \in 1..N : u[l] = IF l = hi THEN lo ELSE t[l]
    <2>1. lo \in Nat
        BY <1>4, <1>1
    <2>2. u \in [1..N -> Nat] /\ \A l \in 1..N : u[l] = IF l = hi THEN lo ELSE t[l]
        <3>1. t \in [1..N -> Nat]
            BY <1>5
        <3> QED BY <3>1, <2>1, <1>4
    <2> HIDE DEF u
    <2> QED BY <2>2, <1>1
<1> HIDE DEF u
<1>7. u \in Tables
    <2>1. \A l \in 1..N : u[l] \in 1..l
        <3> SUFFICES ASSUME NEW l \in 1..N PROVE u[l] \in 1..l
            OBVIOUS
        <3>1. t[l] \in 1..l
            BY <1>5 DEF Tables
        <3> QED BY <3>1, <1>4, <1>6, <1>1
    <2> QED BY <2>1, <1>6 DEF Tables
<1> DEFINE g == [l \in 1..N |-> IF Root(t, l) = hi THEN lo ELSE Root(t, l)]
<1>8. Climbs(g, u)
    <2> SUFFICES ASSUME NEW l \in 1..N PROVE g[l] = IF u[l] = l THEN l ELSE g[u[l]]
        BY <1>6 DEF Climbs
    <2>1. Root(t, lo) = lo /\ Root(t, hi) = hi
        BY <1>4, <1>5, RootClimbs
    <2>2. g[lo] = lo
        BY <2>1, <1>4
    <2>3. CASE l = hi
        <3>1. u[l] = lo /\ g[l] = lo
            BY <2>1, <2>3, <1>4, <1>6
        <3> QED BY <3>1, <2>2, <2>3
    <2>4. CASE l # hi
        <3>1. u[l] = t[l]
            BY <2>4, <1>6
        <3>2. Root(t, l) = IF t[l] = l THEN l ELSE Root(t, t[l])
            BY <1>5, RootClimbs
        <3>3. t[l] \in 1..N
            BY <1>5, TableIs
        <3>4. CASE t[l] = l
            BY <3>1, <3>2, <3>4, <2>4
        <3>5. CASE t[l] # l
            BY <3>1, <3>2, <3>3, <3>5
        <3> QED BY <3>4, <3>5
    <2> QED BY <2>3, <2>4
<1>9. \A l \in 1..N : Root(u, l) = g[l]
    BY <1>6, <1>7, <1>8, RootUnique
<1>10. \A l \in 1..N : Root(u, l) = IF Root(t, l) = hi THEN lo ELSE Root(t, l)
    BY <1>9
<1> HIDE DEF g
<1> QED BY <1>2, <1>4, <1>5, <1>6, <1>7, <1>10 DEF ra, rb, N

(* A new label is a root of its own.                                       *)
LEMMA NewRoot ==
    ASSUME NEW t \in Tables
    PROVE  /\ Append(t, Len(t) + 1) \in Tables /\ Len(Append(t, Len(t) + 1)) = Len(t) + 1
           /\ Root(Append(t, Len(t) + 1), Len(t) + 1) = Len(t) + 1
           /\ \A l \in 1..Len(t) : Root(Append(t, Len(t) + 1), l) = Root(t, l)
<1> DEFINE N == Len(t)
           u == Append(t, N + 1)
<1>1. N \in Nat /\ t \in Seq(Nat)
    BY TableIs
<1>2. u \in Seq(Nat) /\ Len(u) = N + 1 /\ u[N + 1] = N + 1 /\ \A l \in 1..N : u[l] = t[l]
    BY <1>1
<1>3. \A l \in 1..N : l \in 1..N + 1 /\ l # N + 1
    BY <1>1
<1>4. \A l \in 1..N + 1 : l \in 1..N \/ l = N + 1
    BY <1>1
<1> HIDE DEF u
<1>5. u \in Tables
    <2>1. \A l \in 1..N : t[l] \in 1..l
        BY DEF Tables
    <2>2. N + 1 \in 1..N + 1
        BY <1>1
    <2>3. \A l \in 1..N + 1 : u[l] \in 1..l
        BY <1>2, <1>4, <2>1, <2>2
    <2> QED BY <1>2, <2>3 DEF Tables
<1>6. \A l \in 1..N + 1 : Root(u, l) = IF u[l] = l THEN l ELSE Root(u, u[l])
    BY <1>2, <1>5, RootClimbs
<1> DEFINE g == [l \in 1..N |-> Root(u, l)]
<1>7. Climbs(g, t)
    <2> SUFFICES ASSUME NEW l \in 1..N PROVE g[l] = IF t[l] = l THEN l ELSE g[t[l]]
        BY DEF Climbs
    <2>1. Root(u, l) = (IF t[l] = l THEN l ELSE Root(u, t[l])) /\ t[l] \in 1..N
        BY <1>2, <1>3, <1>6, TableIs
    <2> QED BY <2>1
<1>8. \A l \in 1..N : Root(t, l) = g[l]
    BY <1>7, RootUnique
<1>9. Root(u, N + 1) = N + 1
    <2>1. N + 1 \in 1..N + 1
        BY <1>1
    <2> QED BY <2>1, <1>2, <1>6
<1> QED BY <1>2, <1>5, <1>8, <1>9 DEF u

LEMMA DivIs ==
    ASSUME NEW a \in Nat, NEW d \in Nat \ {0}
    PROVE  /\ a \div d \in Nat /\ (a \div d) * d <= a /\ a < (a \div d) * d + d
           /\ a % d = a - (a \div d) * d /\ a % d \in 0..d - 1
OBVIOUS

LEMMA DivUnique ==
    ASSUME NEW a \in Nat, NEW d \in Nat \ {0}, NEW q \in Nat, NEW r \in 0..d - 1, a = q * d + r
    PROVE  a \div d = q /\ a % d = r
OBVIOUS

LEMMA Scaled ==
    ASSUME NEW d \in Nat \ {0}, NEW p \in Int, NEW q \in Int
    PROVE  /\ p <= q <=> p * d <= q * d
           /\ p < q <=> p * d < q * d
           /\ (p + 1) * d = p * d + d /\ (p - 1) * d = p * d - d
           /\ (p + q) * d = p * d + q * d
           /\ p * d \in Int /\ (p \in Nat => p * d \in Nat)
OBVIOUS

(* Cells and where the raster has them.                                    *)
Turn(c) == c[2] * MapWidth + c[1] + 1

LEMMA MapIs == MapWidth \in Nat \ {0} /\ MapHeight \in Nat \ {0} /\ MinRegion \in Nat \ {0}
BY RegionAssumption

LEMMA CellIs ==
    ASSUME NEW c \in Cells2D
    PROVE  /\ c[1] \in Nat /\ c[2] \in Nat /\ c[1] < MapWidth /\ c[2] < MapHeight
           /\ c[1] \in Int /\ c[2] \in Int
           /\ c = <<c[1], c[2]>>
BY MapIs DEF Cells2D

LEMMA CellAt ==
    ASSUME NEW x \in Int, NEW y \in Int
    PROVE  <<x, y>> \in Cells2D <=> 0 <= x /\ x < MapWidth /\ 0 <= y /\ y < MapHeight
BY MapIs DEF Cells2D

LEMMA RasterIs ==
    /\ Len(Raster) \in Nat /\ Len(Raster) = MapWidth * MapHeight
    /\ \A i \in 1..Len(Raster) : Raster[i] \in Cells2D /\ Turn(Raster[i]) = i
    /\ \A c \in Cells2D : Turn(c) \in 1..Len(Raster) /\ Raster[Turn(c)] = c
<1> DEFINE W == MapWidth
           H == MapHeight
           N == MapWidth * MapHeight
<1>1. W \in Nat \ {0} /\ H \in Nat \ {0}
    BY MapIs
<1>2. N \in Nat
    BY <1>1
<1>3. Len(Raster) = N /\ \A i \in 1..N : Raster[i] = <<(i - 1) % W, (i - 1) \div W>>
    <2> HIDE DEF N, W
    <2> QED BY <1>2 DEF Raster, N, W
<1>4. ASSUME NEW i \in 1..N PROVE Raster[i] \in Cells2D /\ Turn(Raster[i]) = i
    <2> DEFINE a == i - 1
               q == a \div W
               r == a % W
    <2>1. a \in Nat /\ a < N
        BY <1>2
    <2>2. q \in Nat /\ q * W <= a /\ a < q * W + W /\ r = a - q * W /\ r \in 0..W - 1
        <3> HIDE DEF a, W
        <3> QED BY <2>1, <1>1, DivIs
    <2> HIDE DEF q, r
    <2>3. Raster[i] = <<r, q>>
        BY <1>3 DEF q, r
    <2>4. q < H
        <3>1. q * W < H * W
            <4>1. H * W = N
                BY <1>1
            <4> DEFINE m == q * W
            <4>2. m \in Int /\ m <= a
                BY <2>2, <1>1
            <4> HIDE DEF N, m, a
            <4> QED BY <4>1, <4>2, <2>1, <1>2 DEF m
        <3> HIDE DEF W, H
        <3> QED BY <3>1, <2>2, <1>1, Scaled
    <2>5. <<r, q>> \in Cells2D
        <3>1. r \in Int /\ 0 <= r /\ r < W /\ q \in Int /\ 0 <= q
            BY <2>2, <1>1
        <3> QED BY <3>1, <2>4, CellAt
    <2>6. Turn(<<r, q>>) = q * W + r + 1
        BY DEF Turn
    <2>7. q * W + r + 1 = i
        <3> DEFINE m == q * W
        <3>1. m \in Int
            BY <2>2, <1>1
        <3>2. r = a - m
            BY <2>2
        <3> HIDE DEF m
        <3>3. m + r + 1 = i
            BY <3>1, <3>2
        <3> QED BY <3>3 DEF m
    <2> QED BY <2>3, <2>5, <2>6, <2>7
<1>5. ASSUME NEW c \in Cells2D PROVE Turn(c) \in 1..N /\ Raster[Turn(c)] = c
    <2> DEFINE x == c[1]
               y == c[2]
               m == y * W
               i == Turn(c)
    <2>1. x \in Nat /\ x < W /\ y \in Nat /\ y < H /\ c = <<x, y>>
        BY CellIs
    <2>2. i = m + x + 1
        BY DEF Turn
    <2> HIDE DEF x, y
    <2>3. m \in Nat /\ m + W <= N
        <3>1. y + 1 <= H /\ y + 1 \in Int /\ H \in Int
            BY <2>1, <1>1
        <3>2. (y + 1) * W <= H * W /\ (y + 1) * W = m + W /\ m \in Nat
            <4> HIDE DEF W, H
            <4> QED BY <3>1, <2>1, <1>1, Scaled
        <3>3. H * W = N
            BY <1>1
        <3> QED BY <3>2, <3>3
    <2> HIDE DEF i
    <2>4. (i - 1) \div W = y /\ (i - 1) % W = x
        <3>1. i - 1 \in Nat /\ i - 1 = y * W + x /\ x \in 0..W - 1
            <4>1. i - 1 \in Nat /\ i - 1 = m + x
                <5> HIDE DEF m, N
                <5> QED BY <2>1, <2>2, <2>3
            <4>2. x \in 0..W - 1
                BY <2>1, <1>1
            <4> QED BY <4>1, <4>2
        <3> HIDE DEF W, m
        <3> QED BY <3>1, <2>1, <1>1, DivUnique
    <2>5. i \in 1..N
        <3> HIDE DEF m, N, W
        <3> QED BY <2>1, <2>2, <2>3, <1>1, <1>2
    <2>6. Raster[i] = <<x, y>>
        BY <2>4, <2>5, <1>3
    <2> QED BY <2>1, <2>5, <2>6 DEF i
<1> HIDE DEF N
<1>6. N \in Nat /\ N = MapWidth * MapHeight
    BY <1>2 DEF N
<1> QED BY <1>3, <1>4, <1>5, <1>6

(* The neighbours of a cell: which come before it in the raster.           *)
LEMMA Neighbours ==
    ASSUME NEW c \in Cells2D, NEW d \in Cells2D
    PROVE  /\ Beside(c, d) <=> Beside(d, c)
           /\ Beside(c, d) /\ Turn(d) < Turn(c) => d = <<c[1] - 1, c[2]>> \/ d = <<c[1], c[2] - 1>>
           /\ d = <<c[1] - 1, c[2]>> \/ d = <<c[1], c[2] - 1>> => Beside(c, d)
           /\ ~Beside(c, c)
           /\ Turn(c) \in Int /\ (Turn(c) = Turn(d) => c = d)
<1> DEFINE x == c[1]
           y == c[2]
           u == d[1]
           v == d[2]
<1>1. x \in Int /\ y \in Int /\ u \in Int /\ v \in Int /\ c = <<x, y>> /\ d = <<u, v>> /\ MapWidth \in Nat \ {0}
    BY CellIs, MapIs
<1>2. /\ Beside(c, d) <=> (x = u /\ (y - v = -1 \/ y - v = 1)) \/ (y = v /\ (x - u = -1 \/ x - u = 1))
      /\ Beside(d, c) <=> (u = x /\ (v - y = -1 \/ v - y = 1)) \/ (v = y /\ (u - x = -1 \/ u - x = 1))
      /\ Beside(c, c) <=> (x = x /\ (y - y = -1 \/ y - y = 1)) \/ (y = y /\ (x - x = -1 \/ x - x = 1))
    BY DEF Beside
<1>3. Turn(c) = y * MapWidth + x + 1 /\ Turn(d) = v * MapWidth + u + 1
    BY DEF Turn
<1>4. Turn(c) \in Int /\ (Turn(c) = Turn(d) => c = d)
    BY RasterIs
<1> HIDE DEF x, y, u, v
<1>5. Beside(c, d) <=> Beside(d, c)
    BY <1>1, <1>2
<1>6. ~Beside(c, c)
    BY <1>1, <1>2
<1>7. d = <<x - 1, y>> \/ d = <<x, y - 1>> => Beside(c, d)
    <2>1. d = <<x - 1, y>> => u = x - 1 /\ v = y
        BY <1>1
    <2>2. d = <<x, y - 1>> => u = x /\ v = y - 1
        BY <1>1
    <2> QED BY <2>1, <2>2, <1>1, <1>2
<1>8. ASSUME Beside(c, d), Turn(d) < Turn(c) PROVE d = <<x - 1, y>> \/ d = <<x, y - 1>>
    <2>1. CASE v = y - 1 /\ u = x
        BY <2>1, <1>1
    <2>2. CASE u = x - 1 /\ v = y
        BY <2>2, <1>1
    <2>3. CASE v = y + 1 /\ u = x
        <3> DEFINE m == y * MapWidth
        <3>1. v * MapWidth = m + MapWidth /\ m \in Int
            BY <2>3, <1>1, Scaled
        <3> HIDE DEF m
        <3>2. Turn(d) = m + MapWidth + x + 1 /\ Turn(c) = m + x + 1
            BY <3>1, <2>3, <1>3 DEF m
        <3> QED BY <3>1, <3>2, <1>1, <1>8
    <2>4. CASE u = x + 1 /\ v = y
        <3> DEFINE m == y * MapWidth
        <3>1. m \in Int
            BY <1>1
        <3>2. Turn(d) = m + (x + 1) + 1 /\ Turn(c) = m + x + 1
            BY <2>4, <1>3
        <3> HIDE DEF m
        <3> QED BY <3>1, <3>2, <1>1, <1>8
    <2>5. \/ v = y - 1 /\ u = x
          \/ u = x - 1 /\ v = y
          \/ v = y + 1 /\ u = x
          \/ u = x + 1 /\ v = y
        BY <1>1, <1>2, <1>8
    <2> QED BY <2>1, <2>2, <2>3, <2>4, <2>5
<1> QED BY <1>4, <1>5, <1>6, <1>7, <1>8 DEF x, y

(* Sets of marked cells that no side leaves, and cells no such set parts.  *)
ClosedBeside(K) == \A c \in K, d \in Marked : Beside(c, d) => d \in K
LinkedCells(c, d) == \A K \in SUBSET Marked : ClosedBeside(K) => (c \in K <=> d \in K)
Closure(near) == {d \in Marked : \A K \in SUBSET Marked : ClosedBeside(K) /\ near \subseteq K => d \in K}
Wider(near) == {d \in Marked : \E e \in near : d = e \/ Beside(d, e)}

LEMMA MarkedIs == Marked \subseteq Cells2D /\ IsFiniteSet(Marked)
<1>1. Marked \in SUBSET Cells2D
    BY DEF Marked
<1>2. IsFiniteSet(Cells2D)
    <2>1. IsFiniteSet(0..MapWidth - 1) /\ IsFiniteSet(0..MapHeight - 1)
        BY MapIs, FS_Interval
    <2> QED BY <2>1, FS_Product DEF Cells2D
<1> QED BY <1>1, <1>2, FS_Subset

LEMMA BesideBoth ==
    \A c, d \in Marked : Beside(c, d) <=> Beside(d, c)
BY MarkedIs, Neighbours

(* One step wider has the same closure.                                    *)
LEMMA WiderIs ==
    ASSUME NEW near \in SUBSET Marked
    PROVE  /\ near \subseteq Wider(near) /\ Wider(near) \in SUBSET Marked
           /\ Closure(near) = IF Wider(near) = near THEN near ELSE Closure(Wider(near))
<1>1. near \subseteq Wider(near) /\ Wider(near) \in SUBSET Marked
    BY DEF Wider
<1>2. ASSUME Wider(near) = near PROVE Closure(near) = near
    <2>1. ClosedBeside(near)
        <3> SUFFICES ASSUME NEW c \in near, NEW d \in Marked, Beside(c, d) PROVE d \in near
            BY DEF ClosedBeside
        <3>1. Beside(d, c)
            BY BesideBoth
        <3>2. d \in Wider(near)
            BY <3>1 DEF Wider
        <3> QED BY <3>2, <1>2
    <2> QED BY <2>1 DEF Closure
<1>3. ASSUME NEW K \in SUBSET Marked, ClosedBeside(K) PROVE near \subseteq K <=> Wider(near) \subseteq K
    <2>1. ASSUME near \subseteq K, NEW d \in Wider(near) PROVE d \in K
        <3>1. PICK e \in near : d = e \/ Beside(d, e)
            BY DEF Wider
        <3>2. d \in Marked /\ e \in K
            BY <2>1 DEF Wider
        <3>3. CASE d = e
            BY <3>2, <3>3
        <3>4. CASE Beside(d, e)
            <4>1. Beside(e, d)
                BY <3>2, <3>4, BesideBoth
            <4> QED BY <4>1, <3>2, <1>3 DEF ClosedBeside
        <3> QED BY <3>1, <3>3, <3>4
    <2> QED BY <2>1, <1>1
<1>4. Closure(near) = Closure(Wider(near))
    BY <1>3 DEF Closure
<1> QED BY <1>1, <1>2, <1>4

(* What widens until nothing is added finds the closure.                   *)
LEMMA ReachIsClosure ==
    ASSUME NEW f, \A near \in SUBSET Marked : f[near] = IF Wider(near) = near THEN near ELSE f[Wider(near)]
    PROVE  \A near \in SUBSET Marked : f[near] = Closure(near)
<1> DEFINE N == Cardinality(Marked)
           Left(near) == Cardinality(Marked \ near)
           S == {n \in 0..N : \A near \in SUBSET Marked : Left(near) <= n => f[near] = Closure(near)}
<1>1. N \in Nat /\ N \in Int /\ 0 \in Int /\ 0 <= N
    BY MarkedIs, FS_CardinalityType
<1>2. ASSUME NEW near \in SUBSET Marked PROVE Left(near) \in Nat /\ Left(near) <= N
    <2>1. Marked \ near \in SUBSET Marked
        OBVIOUS
    <2>2. IsFiniteSet(Marked \ near) /\ Left(near) <= N
        BY <2>1, MarkedIs, FS_Subset
    <2> QED BY <2>2, FS_CardinalityType
<1>3. ASSUME NEW near \in SUBSET Marked, Wider(near) # near PROVE Left(Wider(near)) < Left(near)
    <2>1. near \subseteq Wider(near) /\ Wider(near) \in SUBSET Marked
        BY WiderIs
    <2> DEFINE A == Marked \ near
               B == Marked \ Wider(near)
    <2>2. IsFiniteSet(A) /\ B \in SUBSET A /\ A # B
        <3>1. A \in SUBSET Marked
            OBVIOUS
        <3>2. PICK d \in Wider(near) : d \notin near
            BY <2>1, <1>3
        <3>3. d \in A /\ d \notin B
            BY <2>1, <3>2
        <3> QED BY <2>1, <3>1, <3>3, MarkedIs, FS_Subset
    <2>3. Cardinality(B) <= Cardinality(A) /\ Cardinality(A) # Cardinality(B)
        <3> HIDE DEF A, B
        <3> QED BY <2>2, FS_Subset
    <2>4. Left(near) \in Nat /\ Left(Wider(near)) \in Nat
        BY <2>1, <1>2
    <2> QED BY <2>3, <2>4
<1> HIDE DEF Left, N
<1>4. 0 \in S
    <2>1. \A near \in SUBSET Marked : Left(near) <= 0 => f[near] = Closure(near)
        <3> SUFFICES ASSUME NEW near \in SUBSET Marked, Left(near) <= 0 PROVE f[near] = Closure(near)
            OBVIOUS
        <3>1. Wider(near) = near
            <4> SUFFICES ASSUME Wider(near) # near PROVE FALSE
                OBVIOUS
            <4>1. Left(Wider(near)) < Left(near) /\ Left(Wider(near)) \in Nat /\ Left(near) \in Nat
                BY <1>2, <1>3, WiderIs
            <4> QED BY <4>1
        <3> QED BY <3>1, WiderIs
    <2> QED BY <2>1, <1>1
<1>5. ASSUME NEW n \in 0..N - 1, n \in S PROVE n + 1 \in S
    <2>1. n + 1 \in 0..N /\ n \in Nat
        BY <1>1
    <2>2. \A near \in SUBSET Marked : Left(near) <= n + 1 => f[near] = Closure(near)
        <3> SUFFICES ASSUME NEW near \in SUBSET Marked, Left(near) <= n + 1 PROVE f[near] = Closure(near)
            OBVIOUS
        <3>1. CASE Wider(near) = near
            BY <3>1, WiderIs
        <3>2. CASE Wider(near) # near
            <4> DEFINE w == Wider(near)
            <4>1. Left(w) < Left(near) /\ Left(w) \in Nat /\ Left(near) \in Nat /\ w \in SUBSET Marked
                BY <3>2, <1>2, <1>3, WiderIs
            <4>2. Left(w) <= n
                BY <4>1, <2>1
            <4>3. f[w] = Closure(w)
                BY <4>1, <4>2, <1>5
            <4> QED BY <4>3, <3>2, WiderIs
        <3> QED BY <3>1, <3>2
    <2> QED BY <2>1, <2>2
<1>6. 0..N \subseteq S
    <2> HIDE DEF S
    <2> QED BY <1>1, <1>4, <1>5, IntervalInduction
<1>7. N \in S
    BY <1>1, <1>6
<1> QED BY <1>2, <1>7

LEMMA PatchIsClosure ==
    ASSUME NEW c \in Marked
    PROVE  PatchOf(c) = Closure({c})
<1> DEFINE F(f) == [near \in SUBSET Marked |->
                      IF Wider(near) = near THEN near ELSE f[Wider(near)]]
           f == CHOOSE g : g = F(g)
           h == [near \in SUBSET Marked |-> Closure(near)]
<1>1. PatchOf(c) = f[{c}]
    BY DEF PatchOf, Wider
<1>2. h = F(h)
    <2>1. \A near \in SUBSET Marked : h[near] = F(h)[near]
        <3> SUFFICES ASSUME NEW near \in SUBSET Marked PROVE h[near] = F(h)[near]
            OBVIOUS
        <3>1. Wider(near) \in SUBSET Marked
            BY WiderIs
        <3>2. h[near] = Closure(near) /\ h[Wider(near)] = Closure(Wider(near))
            BY <3>1
        <3> HIDE DEF h
        <3>3. F(h)[near] = IF Wider(near) = near THEN near ELSE h[Wider(near)]
            OBVIOUS
        <3> QED BY <3>2, <3>3, WiderIs
    <2>2. h \in [SUBSET Marked -> {Closure(near) : near \in SUBSET Marked}]
        OBVIOUS
    <2>3. DOMAIN h = SUBSET Marked /\ h = [near \in SUBSET Marked |-> h[near]]
        OBVIOUS
    <2>4. F(h) = [near \in SUBSET Marked |-> F(h)[near]]
        OBVIOUS
    <2> HIDE DEF h, F
    <2> QED BY <2>1, <2>3, <2>4
<1>3. f = F(f)
    <2> HIDE DEF F, h
    <2> QED BY <1>2
<1> HIDE DEF f, h
<1>4. \A near \in SUBSET Marked : f[near] = IF Wider(near) = near THEN near ELSE f[Wider(near)]
    <2> SUFFICES ASSUME NEW near \in SUBSET Marked
                 PROVE  f[near] = IF Wider(near) = near THEN near ELSE f[Wider(near)]
        OBVIOUS
    <2>1. F(f)[near] = IF Wider(near) = near THEN near ELSE f[Wider(near)]
        OBVIOUS
    <2> HIDE DEF F
    <2> QED BY <2>1, <1>3
<1>5. f[{c}] = Closure({c})
    BY <1>4, ReachIsClosure
<1> QED BY <1>1, <1>5

(* A patch has what is linked to a cell of it.                             *)
LEMMA PatchIs ==
    ASSUME NEW c \in Marked
    PROVE  PatchOf(c) = {d \in Marked : LinkedCells(c, d)}
<1>1. ASSUME NEW d \in Marked PROVE d \in Closure({c}) <=> LinkedCells(c, d)
    <2>1. ASSUME LinkedCells(c, d) PROVE d \in Closure({c})
        BY <2>1 DEF LinkedCells, Closure
    <2>2. ASSUME d \in Closure({c}), NEW K \in SUBSET Marked, ClosedBeside(K), d \in K, c \notin K PROVE FALSE
        <3> DEFINE L == Marked \ K
        <3>1. ClosedBeside(L)
            <4> SUFFICES ASSUME NEW x \in L, NEW y \in Marked, Beside(x, y), y \in K PROVE FALSE
                BY DEF ClosedBeside
            <4>1. Beside(y, x)
                BY BesideBoth
            <4> QED BY <4>1, <2>2 DEF ClosedBeside
        <3>2. L \in SUBSET Marked /\ {c} \subseteq L
            BY <2>2
        <3> HIDE DEF L
        <3>3. d \in L
            BY <3>1, <3>2, <2>2 DEF Closure
        <3> QED BY <3>3, <2>2 DEF L
    <2>3. ASSUME d \in Closure({c}), NEW K \in SUBSET Marked, ClosedBeside(K), c \in K PROVE d \in K
        BY <2>3 DEF Closure
    <2> QED BY <2>1, <2>2, <2>3 DEF LinkedCells
<1>2. Closure({c}) \subseteq Marked
    BY DEF Closure
<1> QED BY <1>1, <1>2, PatchIsClosure

(* Cells with labels of a table; once n cells were looked at, those of the *)
(* marked ones have a label, two beside each other with one root, and two  *)
(* of one root are linked.                                                 *)
Boards ==
    {v \in [label : [Cells2D -> Nat], table : Tables] :
       \A c \in Cells2D : v.label[c] <= Len(v.table)}
RootAt(v, c) == Root(v.table, v.label[c])
LabelledTo(v, n) ==
    /\ \A c \in Cells2D : v.label[c] # 0 <=> c \in Marked /\ Turn(c) <= n
    /\ \A c, d \in Cells2D : v.label[c] # 0 /\ v.label[d] # 0 =>
          /\ Beside(c, d) => RootAt(v, c) = RootAt(v, d)
          /\ RootAt(v, c) = RootAt(v, d) => LinkedCells(c, d)

LEMMA LinkedIs ==
    /\ \A c \in Marked : LinkedCells(c, c)
    /\ \A c, d : LinkedCells(c, d) => LinkedCells(d, c)
    /\ \A c, d, e : LinkedCells(c, d) /\ LinkedCells(d, e) => LinkedCells(c, e)
    /\ \A c, d \in Marked : Beside(c, d) => LinkedCells(c, d)
<1>1. ASSUME NEW c \in Marked, NEW d \in Marked, Beside(c, d) PROVE LinkedCells(c, d)
    <2>1. Beside(d, c)
        BY <1>1, BesideBoth
    <2> QED BY <2>1, <1>1 DEF LinkedCells, ClosedBeside
<1> QED BY <1>1 DEF LinkedCells

LEMMA BoardIs ==
    ASSUME NEW v \in Boards
    PROVE  /\ v.label \in [Cells2D -> Nat] /\ v.table \in Tables /\ Len(v.table) \in Nat
           /\ \A c \in Cells2D : v.label[c] \in Nat /\ v.label[c] <= Len(v.table)
           /\ \A c \in Cells2D : v.label[c] # 0 => v.label[c] \in 1..Len(v.table)
<1>1. /\ v.label \in [Cells2D -> Nat] /\ v.table \in Tables
      /\ \A c \in Cells2D : v.label[c] <= Len(v.table)
    BY DEF Boards
<1>2. Len(v.table) \in Nat
    BY <1>1, TableIs
<1> QED BY <1>1, <1>2

LEMMA BoardFields ==
    \A s, u : [label |-> s, table |-> u].label = s /\ [label |-> s, table |-> u].table = u
OBVIOUS

LEMMA BoardMade ==
    ASSUME NEW l \in [Cells2D -> Nat], NEW t \in Tables, \A c \in Cells2D : l[c] <= Len(t)
    PROVE  [label |-> l, table |-> t] \in Boards
<1> DEFINE v == [label |-> l, table |-> t]
<1>1. v \in [label : [Cells2D -> Nat], table : Tables]
    OBVIOUS
<1>2. v.label = l /\ v.table = t
    OBVIOUS
<1> HIDE DEF v
<1> QED BY <1>1, <1>2 DEF Boards, v

(* A marked cell without a labelled neighbour.                             *)
LEMMA LabelNew ==
    ASSUME NEW v \in Boards, NEW n \in 0..Len(Raster) - 1, LabelledTo(v, n),
           NEW c \in Marked, Turn(c) = n + 1,
           \A d \in Cells2D : Beside(c, d) => v.label[d] = 0,
           NEW w, w = [label |-> [v.label EXCEPT ![c] = Len(v.table) + 1],
                       table |-> Append(v.table, Len(v.table) + 1)]
    PROVE  w \in Boards /\ LabelledTo(w, n + 1)
<1> DEFINE m == Len(v.table)
           t == v.table
           l == [v.label EXCEPT ![c] = m + 1]
           u == Append(t, m + 1)
<1>1. c \in Cells2D /\ n \in Nat /\ m \in Nat /\ t \in Tables /\ v.label \in [Cells2D -> Nat]
    BY MarkedIs, BoardIs, RasterIs
<1>2. w.label = l /\ w.table = u
    OBVIOUS
<1>3. u \in Tables /\ Len(u) = m + 1 /\ Root(u, m + 1) = m + 1 /\ \A k \in 1..m : Root(u, k) = Root(t, k)
    BY <1>1, NewRoot
<1>4. /\ l \in [Cells2D -> Nat] /\ l[c] = m + 1
      /\ \A d \in Cells2D : d # c => l[d] = v.label[d]
    BY <1>1
<1>5. \A d \in Cells2D : v.label[d] \in Nat /\ v.label[d] <= m /\ (v.label[d] # 0 => v.label[d] \in 1..m)
    BY BoardIs
<1> HIDE DEF m, t, l, u
<1>6. \A d \in Cells2D : l[d] <= Len(u)
    <2> SUFFICES ASSUME NEW d \in Cells2D PROVE l[d] <= Len(u)
        OBVIOUS
    <2>1. l[d] = m + 1 \/ (l[d] = v.label[d] /\ v.label[d] \in Nat /\ v.label[d] <= m)
        BY <1>4, <1>5
    <2>2. Len(u) = m + 1 /\ m \in Nat
        BY <1>1, <1>3
    <2> QED BY <2>1, <2>2
<1>7. w \in Boards
    <2>1. w = [label |-> l, table |-> u]
        BY DEF l, u, m, t
    <2> QED BY <2>1, <1>3, <1>4, <1>6, BoardMade
<1>8. /\ \A d \in Cells2D : v.label[d] # 0 <=> d \in Marked /\ Turn(d) <= n
      /\ \A d, e \in Cells2D : v.label[d] # 0 /\ v.label[e] # 0 =>
          /\ Beside(d, e) => RootAt(v, d) = RootAt(v, e)
          /\ RootAt(v, d) = RootAt(v, e) => LinkedCells(d, e)
    BY DEF LabelledTo
<1>9. \A d \in Cells2D : l[d] # 0 <=> d \in Marked /\ Turn(d) <= n + 1
    <2> SUFFICES ASSUME NEW d \in Cells2D PROVE l[d] # 0 <=> d \in Marked /\ Turn(d) <= n + 1
        OBVIOUS
    <2>1. Turn(d) \in Int /\ (Turn(d) = n + 1 => d = c)
        BY <1>1, Neighbours
    <2>2. CASE d = c
        BY <2>2, <1>1, <1>4
    <2>3. CASE d # c
        BY <2>1, <2>3, <1>1, <1>4, <1>8
    <2> QED BY <2>2, <2>3
<1>10. RootAt(w, c) = m + 1
    BY <1>2, <1>3, <1>4 DEF RootAt
<1>11. ASSUME NEW d \in Cells2D, d # c, l[d] # 0
       PROVE  RootAt(w, d) = RootAt(v, d) /\ RootAt(w, d) # m + 1 /\ v.label[d] # 0 /\ ~Beside(c, d) /\ ~Beside(d, c)
    <2>1. l[d] = v.label[d] /\ v.label[d] \in 1..m /\ v.label[d] # 0
        BY <1>4, <1>5, <1>11
    <2>2. RootAt(w, d) = RootAt(v, d)
        BY <2>1, <1>2, <1>3 DEF RootAt, t
    <2>3. Root(t, v.label[d]) \in 1..m
        BY <2>1, <1>1, RootIs DEF m, t
    <2>4. RootAt(v, d) # m + 1
        BY <2>3, <1>1 DEF RootAt, t
    <2>5. ~Beside(c, d) /\ ~Beside(d, c)
        BY <2>1, <1>1, Neighbours
    <2> QED BY <2>1, <2>2, <2>4, <2>5
<1>12. ASSUME NEW d \in Cells2D, NEW e \in Cells2D, l[d] # 0, l[e] # 0
       PROVE  /\ Beside(d, e) => RootAt(w, d) = RootAt(w, e)
              /\ RootAt(w, d) = RootAt(w, e) => LinkedCells(d, e)
    <2>1. CASE d = c /\ e = c
        BY <2>1, LinkedIs
    <2>2. CASE d = c /\ e # c
        BY <2>2, <1>10, <1>11, <1>12
    <2>3. CASE d # c /\ e = c
        BY <2>3, <1>10, <1>11, <1>12
    <2>4. CASE d # c /\ e # c
        BY <2>4, <1>8, <1>11, <1>12
    <2> QED BY <2>1, <2>2, <2>3, <2>4
<1> QED BY <1>2, <1>7, <1>9, <1>12 DEF LabelledTo

(* A marked cell between two labelled neighbours, or beside one.           *)
LEMMA LabelJoined ==
    ASSUME NEW v \in Boards, NEW n \in 0..Len(Raster) - 1, LabelledTo(v, n),
           NEW c \in Marked, Turn(c) = n + 1,
           NEW e1 \in Cells2D, NEW e2 \in Cells2D, Beside(c, e1), Beside(c, e2),
           v.label[e1] # 0, v.label[e2] # 0,
           \A d \in Cells2D : Beside(c, d) /\ v.label[d] # 0 =>
              v.label[d] = v.label[e1] \/ v.label[d] = v.label[e2],
           NEW w, w = [label |-> [v.label EXCEPT ![c] = v.label[e1]],
                       table |-> Union2(v.table, v.label[e1], v.label[e2])]
    PROVE  w \in Boards /\ LabelledTo(w, n + 1)
<1> DEFINE m == Len(v.table)
           t == v.table
           a == v.label[e1]
           b == v.label[e2]
           l == [v.label EXCEPT ![c] = a]
           u == Union2(t, a, b)
           ra == Root(t, a)
           rb == Root(t, b)
<1>1. /\ c \in Cells2D /\ n \in Nat /\ m \in Nat /\ t \in Tables /\ v.label \in [Cells2D -> Nat]
      /\ a \in 1..m /\ b \in 1..m
    BY MarkedIs, BoardIs, RasterIs
<1>2. w.label = l /\ w.table = u
    OBVIOUS
<1>3. PICK lo \in 1..m, hi \in 1..m :
          /\ {lo, hi} = {ra, rb}
          /\ \A k \in 1..m : Root(u, k) = IF Root(t, k) = hi THEN lo ELSE Root(t, k)
    BY <1>1, UnionRoots
<1>4. u \in Tables /\ Len(u) = m
    BY <1>1, UnionRoots
<1>5. /\ l \in [Cells2D -> Nat] /\ l[c] = a
      /\ \A d \in Cells2D : d # c => l[d] = v.label[d]
    BY <1>1
<1>6. \A d \in Cells2D : v.label[d] \in Nat /\ v.label[d] <= m /\ (v.label[d] # 0 => v.label[d] \in 1..m)
    BY BoardIs
<1>7. \A d \in Cells2D : Beside(c, d) /\ v.label[d] # 0 => v.label[d] = a \/ v.label[d] = b
    OBVIOUS
<1> HIDE DEF m, t, a, b, l, u, ra, rb
<1>8. w \in Boards
    <2>1. w = [label |-> l, table |-> u]
        BY DEF l, u, t, a, b
    <2>2. \A d \in Cells2D : l[d] <= Len(u)
        BY <1>1, <1>4, <1>5, <1>6
    <2> QED BY <2>1, <2>2, <1>4, <1>5, BoardMade
<1>9. /\ \A d \in Cells2D : v.label[d] # 0 <=> d \in Marked /\ Turn(d) <= n
      /\ \A d, e \in Cells2D : v.label[d] # 0 /\ v.label[e] # 0 =>
          /\ Beside(d, e) => RootAt(v, d) = RootAt(v, e)
          /\ RootAt(v, d) = RootAt(v, e) => LinkedCells(d, e)
    BY DEF LabelledTo
<1>10. \A d \in Cells2D : l[d] # 0 <=> d \in Marked /\ Turn(d) <= n + 1
    <2> SUFFICES ASSUME NEW d \in Cells2D PROVE l[d] # 0 <=> d \in Marked /\ Turn(d) <= n + 1
        OBVIOUS
    <2>1. Turn(d) \in Int /\ (Turn(d) = n + 1 => d = c)
        BY <1>1, Neighbours
    <2>2. CASE d = c
        BY <2>2, <1>1, <1>5
    <2>3. CASE d # c
        BY <2>1, <2>3, <1>1, <1>5, <1>9
    <2> QED BY <2>2, <2>3
<1>11. e1 \in Marked /\ e2 \in Marked /\ v.label[e1] = a /\ v.label[e2] = b /\ e1 # c /\ e2 # c
    BY <1>1, <1>9, Neighbours DEF a, b
<1>12. RootAt(v, e1) = ra /\ RootAt(v, e2) = rb
    BY DEF RootAt, ra, rb, a, b, t
\* The root of a cell afterwards, from the one before.
<1>13. ASSUME NEW d \in Cells2D, d # c, l[d] # 0
       PROVE  /\ RootAt(w, d) = (IF RootAt(v, d) = hi THEN lo ELSE RootAt(v, d)) /\ v.label[d] # 0
              /\ d \in Marked
    <2>1. l[d] = v.label[d] /\ v.label[d] \in 1..m /\ v.label[d] # 0
        BY <1>5, <1>6, <1>13
    <2> QED BY <2>1, <1>2, <1>3, <1>9 DEF RootAt, t
<1>14. RootAt(w, c) = lo
    <2>1. RootAt(w, c) = IF ra = hi THEN lo ELSE ra
        BY <1>1, <1>2, <1>3, <1>5 DEF RootAt, ra
    <2>2. ra = hi \/ ra = lo
        BY <1>3
    <2> QED BY <2>1, <2>2
\* The classes of lo and hi are those of the neighbours, linked by c.
<1>15. LinkedCells(e1, c) /\ LinkedCells(e2, c)
    <2>1. LinkedCells(c, e1) /\ LinkedCells(c, e2)
        BY <1>11, LinkedIs
    <2> QED BY <2>1, LinkedIs
<1>16. ASSUME NEW d \in Cells2D, d # c, l[d] # 0, RootAt(v, d) = lo \/ RootAt(v, d) = hi
       PROVE  LinkedCells(d, c)
    <2>1. RootAt(v, d) = ra \/ RootAt(v, d) = rb
        BY <1>3, <1>16
    <2>2. v.label[d] # 0 /\ v.label[e1] # 0 /\ v.label[e2] # 0
        BY <1>13, <1>16
    <2>3. LinkedCells(d, e1) \/ LinkedCells(d, e2)
        BY <2>1, <2>2, <1>9, <1>12
    <2> QED BY <2>3, <1>15, LinkedIs
<1>17. ASSUME NEW d \in Cells2D, d # c, l[d] # 0, Beside(c, d)
       PROVE  RootAt(w, d) = lo
    <2>1. v.label[d] = a \/ v.label[d] = b
        BY <1>7, <1>13, <1>17
    <2>2. RootAt(v, d) = ra \/ RootAt(v, d) = rb
        BY <2>1 DEF RootAt, ra, rb, t
    <2>3. RootAt(v, d) = lo \/ RootAt(v, d) = hi
        BY <2>2, <1>3
    <2> QED BY <2>3, <1>13, <1>17
<1>18. ASSUME NEW d \in Cells2D, d # c, l[d] # 0, RootAt(w, d) = lo
       PROVE  LinkedCells(d, c)
    <2>1. RootAt(v, d) = lo \/ RootAt(v, d) = hi
        BY <1>13, <1>18
    <2> QED BY <2>1, <1>16, <1>18
<1>19. ASSUME NEW d \in Cells2D, NEW e \in Cells2D, l[d] # 0, l[e] # 0
       PROVE  /\ Beside(d, e) => RootAt(w, d) = RootAt(w, e)
              /\ RootAt(w, d) = RootAt(w, e) => LinkedCells(d, e)
    <2>1. CASE d = c /\ e = c
        BY <2>1, LinkedIs
    <2>2. CASE d = c /\ e # c
        BY <2>2, <1>14, <1>17, <1>18, <1>19, LinkedIs
    <2>3. CASE d # c /\ e = c
        <3>1. Beside(d, e) => Beside(c, d)
            BY <2>3, <1>1, Neighbours
        <3> QED BY <3>1, <2>3, <1>14, <1>17, <1>18, <1>19, LinkedIs
    <2>4. CASE d # c /\ e # c
        <3>1. /\ RootAt(w, d) = (IF RootAt(v, d) = hi THEN lo ELSE RootAt(v, d)) /\ v.label[d] # 0
              /\ RootAt(w, e) = (IF RootAt(v, e) = hi THEN lo ELSE RootAt(v, e)) /\ v.label[e] # 0
            BY <2>4, <1>13, <1>19
        <3>2. Beside(d, e) => RootAt(w, d) = RootAt(w, e)
            BY <3>1, <1>9
        <3>3. CASE RootAt(v, d) = RootAt(v, e)
            BY <3>1, <3>2, <3>3, <1>9
        <3>4. CASE RootAt(v, d) # RootAt(v, e)
            <4>1. ASSUME RootAt(w, d) = RootAt(w, e) PROVE LinkedCells(d, e)
                <5>1. /\ RootAt(v, d) = lo \/ RootAt(v, d) = hi
                      /\ RootAt(v, e) = lo \/ RootAt(v, e) = hi
                    BY <3>1, <3>4, <4>1
                <5>2. LinkedCells(d, c) /\ LinkedCells(e, c)
                    BY <5>1, <2>4, <1>16, <1>19
                <5> QED BY <5>2, LinkedIs
            <4> QED BY <3>2, <4>1
        <3> QED BY <3>3, <3>4
    <2> QED BY <2>1, <2>2, <2>3, <2>4
<1> QED BY <1>2, <1>8, <1>10, <1>19 DEF LabelledTo

(* One cell of the raster, whatever its neighbours.                        *)
LEMMA LabelCellKeeps ==
    ASSUME NEW v \in Boards, NEW n \in 0..Len(Raster) - 1, LabelledTo(v, n)
    PROVE  LabelCell(v, Raster[n + 1]) \in Boards /\ LabelledTo(LabelCell(v, Raster[n + 1]), n + 1)
<1> DEFINE c == Raster[n + 1]
           w == LabelCell(v, c)
           p == <<c[1] - 1, c[2]>>
           q == <<c[1], c[2] - 1>>
           lp == IF p \in Cells2D THEN v.label[p] ELSE 0
           lq == IF q \in Cells2D THEN v.label[q] ELSE 0
           near == {lp, lq} \ {0}
<1>1. n \in Nat /\ n + 1 \in 1..Len(Raster)
    BY RasterIs
<1>2. c \in Cells2D /\ Turn(c) = n + 1
    BY <1>1, RasterIs
<1>3. w = IF c \notin Marked THEN v
          ELSE IF near = {}
          THEN [label |-> [v.label EXCEPT ![c] = Len(v.table) + 1],
                table |-> Append(v.table, Len(v.table) + 1)]
          ELSE [label |-> [v.label EXCEPT ![c] = Least(near)],
                table |-> Union2(v.table, Least(near), Most(near))]
    BY DEF LabelCell
<1> HIDE DEF c
<1>4. \A d \in Cells2D : v.label[d] \in Nat
    BY BoardIs
<1>5. lp \in Nat /\ lq \in Nat
    BY <1>4
<1>6. \A d \in Cells2D : Beside(c, d) /\ v.label[d] # 0 => d = p \/ d = q
    <2> SUFFICES ASSUME NEW d \in Cells2D, Beside(c, d), v.label[d] # 0 PROVE d = p \/ d = q
        OBVIOUS
    <2>1. Turn(d) <= n /\ Turn(d) \in Int
        BY <1>2, Neighbours DEF LabelledTo
    <2> QED BY <2>1, <1>1, <1>2, Neighbours
<1>7. /\ p \in Cells2D => Beside(c, p)
      /\ q \in Cells2D => Beside(c, q)
    BY <1>2, Neighbours
<1> HIDE DEF p, q, w
<1>8. CASE c \notin Marked
    <2>1. w = v
        BY <1>3, <1>8
    <2>2. \A d \in Cells2D : v.label[d] # 0 <=> d \in Marked /\ Turn(d) <= n + 1
        <3> SUFFICES ASSUME NEW d \in Cells2D PROVE v.label[d] # 0 <=> d \in Marked /\ Turn(d) <= n + 1
            OBVIOUS
        <3>1. Turn(d) \in Int /\ (Turn(d) = n + 1 => d = c)
            BY <1>2, Neighbours
        <3>2. v.label[d] # 0 <=> d \in Marked /\ Turn(d) <= n
            BY DEF LabelledTo
        <3> QED BY <3>1, <3>2, <1>1, <1>8
    <2>3. LabelledTo(v, n + 1)
        BY <2>2 DEF LabelledTo
    <2> QED BY <2>1, <2>3 DEF w, c
<1>9. CASE c \in Marked /\ near = {}
    <2>1. lp = 0 /\ lq = 0
        BY <1>9
    <2>2. \A d \in Cells2D : Beside(c, d) => v.label[d] = 0
        BY <2>1, <1>6
    <2>3. w = [label |-> [v.label EXCEPT ![c] = Len(v.table) + 1],
               table |-> Append(v.table, Len(v.table) + 1)]
        BY <1>3, <1>9
    <2>4. w \in Boards /\ LabelledTo(w, n + 1)
        BY <2>2, <2>3, <1>2, <1>9, LabelNew
    <2> QED BY <2>4 DEF w, c
<1>10. CASE c \in Marked /\ near # {}
    <2> DEFINE a == Least(near)
               b == Most(near)
    <2>1. a \in near /\ b \in near /\ (\A x \in near : x = a \/ x = b)
        <3>1. \E x, y \in Nat : near = {x, y}
            <4>1. CASE lp = 0
                <5>1. near = {lq, lq}
                    BY <4>1, <1>10
                <5> HIDE DEF near
                <5> QED BY <5>1, <1>5
            <4>2. CASE lq = 0
                <5>1. near = {lp, lp}
                    BY <4>2, <1>10
                <5> HIDE DEF near
                <5> QED BY <5>1, <1>5
            <4>3. CASE lp # 0 /\ lq # 0
                <5>1. near = {lp, lq}
                    BY <4>3
                <5> HIDE DEF near
                <5> QED BY <5>1, <1>5
            <4> QED BY <4>1, <4>2, <4>3
        <3>2. PICK x \in Nat, y \in Nat : near = {x, y}
            BY <3>1
        <3> HIDE DEF near
        <3>3. a = (IF x <= y THEN x ELSE y) /\ b = (IF x <= y THEN y ELSE x)
            BY <3>2, LeastOfTwo
        <3> HIDE DEF a, b
        <3> QED BY <3>2, <3>3
    <2>2. \A x \in near : \E e \in Cells2D : Beside(c, e) /\ v.label[e] = x /\ x # 0
        BY <1>7
    <2>3. \A d \in Cells2D : Beside(c, d) /\ v.label[d] # 0 => v.label[d] \in near
        BY <1>6
    <2>4. w = [label |-> [v.label EXCEPT ![c] = a], table |-> Union2(v.table, a, b)]
        BY <1>3, <1>10
    <2> HIDE DEF a, b, near
    <2>5. PICK e1 \in Cells2D : Beside(c, e1) /\ v.label[e1] = a /\ a # 0
        BY <2>1, <2>2
    <2>6. PICK e2 \in Cells2D : Beside(c, e2) /\ v.label[e2] = b /\ b # 0
        BY <2>1, <2>2
    <2>7. \A d \in Cells2D : Beside(c, d) /\ v.label[d] # 0 =>
             v.label[d] = v.label[e1] \/ v.label[d] = v.label[e2]
        BY <2>1, <2>3, <2>5, <2>6
    <2>8. w = [label |-> [v.label EXCEPT ![c] = v.label[e1]],
               table |-> Union2(v.table, v.label[e1], v.label[e2])]
        BY <2>4, <2>5, <2>6
    <2>9. w \in Boards /\ LabelledTo(w, n + 1)
        BY <2>5, <2>6, <2>7, <2>8, <1>2, <1>10, LabelJoined
    <2> QED BY <2>9 DEF w, c
<1> QED BY <1>8, <1>9, <1>10

\* A step that stays within the boards, as LabelCell does for those that it meets.
Kept(v, c) == IF LabelCell(v, c) \in Boards THEN LabelCell(v, c) ELSE v

LEMMA EmptyBoard ==
    ASSUME cellLabel = [c \in Cells2D |-> 0], parents = <<>>
    PROVE  /\ [label |-> cellLabel, table |-> parents] \in Boards
           /\ LabelledTo([label |-> cellLabel, table |-> parents], 0)
<1> DEFINE v == [label |-> cellLabel, table |-> parents]
<1>1. cellLabel \in [Cells2D -> Nat] /\ \A c \in Cells2D : cellLabel[c] = 0
    OBVIOUS
<1>2. parents \in Tables /\ Len(parents) = 0
    BY DEF Tables
<1>3. v \in Boards
    BY <1>1, <1>2, BoardMade
<1>4. v.label = cellLabel
    OBVIOUS
<1>5. \A c \in Cells2D : v.label[c] = 0 /\ ~(Turn(c) <= 0)
    <2> HIDE DEF v
    <2> SUFFICES ASSUME NEW c \in Cells2D PROVE v.label[c] = 0 /\ ~(Turn(c) <= 0)
        OBVIOUS
    <2>1. Turn(c) \in 1..Len(Raster)
        BY RasterIs
    <2> QED BY <2>1, <1>1, <1>4, RasterIs
<1> HIDE DEF v
<1>6. LabelledTo(v, 0)
    BY <1>5 DEF LabelledTo
<1> QED BY <1>3, <1>6 DEF v

(* The function of LabelComponents is there, and labels all cells.         *)
LEMMA LabellingIs ==
    ASSUME cellLabel = [c \in Cells2D |-> 0], parents = <<>>
    PROVE  Labelling \in Boards /\ LabelledTo(Labelling, Len(Raster))
<1> DEFINE N    == Len(Raster)
           base == [label |-> cellLabel, table |-> parents]
           Step(n, v) == Kept(v, Raster[n])
           step == [p \in (0 + 1..N) \X Boards |-> Step(p[1], p[2])]
           G(f) == [n \in 0..N |-> IF n = 0 THEN base ELSE Step(n, f[n - 1])]
           k    == CHOOSE g : g \in [0..N -> Boards] /\ g = G(g)
           F(f) == [n \in 0..N |-> IF n = 0 THEN base ELSE LabelCell(f[n - 1], Raster[n])]
           f    == CHOOSE g : g = F(g)
<1>0. Labelling = f[N]
    BY DEF Labelling
<1>1. N \in Nat /\ N \in Int /\ 0 \in Int /\ 0 <= N
    BY RasterIs
<1>2. base \in Boards /\ LabelledTo(base, 0)
    BY EmptyBoard
<1>3. ASSUME NEW n \in 1..N, NEW v \in Boards PROVE Step(n, v) \in Boards
    BY DEF Kept
<1> HIDE DEF base, Step
<1>4. step \in [(0 + 1..N) \X Boards -> Boards]
    <2> HIDE DEF N
    <2>1. 0 + 1..N = 1..N
        BY <1>1
    <2> QED BY <2>1, <1>3
<1>5. PICK g \in [0..N -> Boards] : Recursion(g, 0, N, base, step)
    <2> HIDE DEF N, step, F, f, G, k
    <2> QED BY <1>1, <1>2, <1>4, RecursionExists
<1>6. g[0] = base
    BY <1>5 DEF Recursion
<1>7. ASSUME NEW n \in 1..N PROVE g[n] = Step(n, g[n - 1])
    <2>1. n \in 0 + 1..N /\ n - 1 \in 0..N
        BY <1>1
    <2>2. <<n, g[n - 1]>> \in (0 + 1..N) \X Boards /\ g[n] = step[<<n, g[n - 1]>>]
        <3> HIDE DEF step, N
        <3> QED BY <2>1, <1>5 DEF Recursion
    <2> HIDE DEF N
    <2>3. step[<<n, g[n - 1]>>] = Step(n, g[n - 1])
        BY <2>2
    <2> HIDE DEF step
    <2> QED BY <2>2, <2>3
\* Along the raster nothing leaves the boards.
<1> DEFINE T == {n \in 0..N : LabelledTo(g[n], n) /\ (n # 0 => g[n] = LabelCell(g[n - 1], Raster[n]))}
<1>8. 0 \in T
    <2> HIDE DEF N, step, F, f, G, k
    <2> QED BY <1>1, <1>2, <1>6
<1>9. ASSUME NEW n \in 0..N - 1, n \in T PROVE n + 1 \in T
    <2>1. n + 1 \in 1..N /\ n + 1 \in 0..N /\ (n + 1) - 1 = n /\ n \in 0..N /\ n + 1 # 0
        BY <1>1
    <2>2. g[n] \in Boards /\ LabelledTo(g[n], n) /\ g[n + 1] = Step(n + 1, g[n])
        BY <2>1, <1>5, <1>7, <1>9
    <2>3. LabelCell(g[n], Raster[n + 1]) \in Boards /\ LabelledTo(LabelCell(g[n], Raster[n + 1]), n + 1)
        BY <2>2, <1>1, LabelCellKeeps
    <2>4. g[n + 1] = LabelCell(g[n], Raster[n + 1])
        BY <2>2, <2>3 DEF Step, Kept
    <2> HIDE DEF N, step, F, f, G, k
    <2> QED BY <2>1, <2>3, <2>4
<1>10. 0..N \subseteq T
    <2> HIDE DEF T, N, step, F, f, G, k
    <2> QED BY <1>1, <1>8, <1>9, IntervalInduction
<1>11. \A n \in 1..N : g[n] = LabelCell(g[n - 1], Raster[n])
    <2> SUFFICES ASSUME NEW n \in 1..N PROVE g[n] = LabelCell(g[n - 1], Raster[n])
        OBVIOUS
    <2>1. n \in 0..N /\ n # 0
        BY <1>1
    <2> HIDE DEF N
    <2> QED BY <2>1, <1>10
<1>12. g = F(g)
    <2> HIDE DEF step, N, G, k, T
    <2>1. \A n \in 0..N : g[n] = F(g)[n]
        <3> SUFFICES ASSUME NEW n \in 0..N PROVE g[n] = F(g)[n]
            OBVIOUS
        <3>1. CASE n = 0
            BY <1>6, <3>1
        <3>2. CASE n # 0
            <4>1. n \in 1..N
                BY <1>1, <3>2
            <4> QED BY <1>11, <3>2, <4>1
        <3> HIDE DEF F
        <3> QED BY <3>1, <3>2
    <2> QED BY <1>5, <2>1
<1>13. f = F(f)
    <2> HIDE DEF F, T
    <2> QED BY <1>12
<1> HIDE DEF f, k, G, T, step
\* So the function that the model chooses is the same.
<1> DEFINE U == {n \in 0..N : f[n] = g[n]}
<1>14. 0 \in U
    <2> HIDE DEF N
    <2>1. f[0] = base
        BY <1>1, <1>13
    <2> QED BY <2>1, <1>1, <1>6
<1>15. ASSUME NEW n \in 0..N - 1, n \in U PROVE n + 1 \in U
    <2>1. n + 1 \in 1..N /\ n + 1 \in 0..N /\ (n + 1) - 1 = n /\ n \in 0..N /\ n + 1 # 0
        BY <1>1
    <2> HIDE DEF N
    <2>2. f[n + 1] = LabelCell(f[n], Raster[n + 1])
        BY <2>1, <1>13
    <2>3. g[n + 1] = LabelCell(g[n], Raster[n + 1])
        BY <2>1, <1>11
    <2> QED BY <2>1, <2>2, <2>3, <1>15
<1>16. 0..N \subseteq U
    <2> HIDE DEF U, N, F
    <2> QED BY <1>1, <1>14, <1>15, IntervalInduction
<1>17. N \in 0..N
    BY <1>1
<1>18. f[N] = g[N] /\ g[N] \in Boards /\ LabelledTo(g[N], N)
    <2> HIDE DEF N, F
    <2>1. f[N] = g[N]
        BY <1>16, <1>17
    <2>2. N \in T
        BY <1>10, <1>17
    <2> QED BY <2>1, <2>2, <1>5, <1>17 DEF T
<1> QED BY <1>0, <1>18

-----------------------------------------------------------------------------
(* The classes that the labels make are the patches.                       *)
Classes(v) ==
    LET rootOf == [c \in Marked |-> RootAt(v, c)]
    IN  {{c \in Marked : rootOf[c] = r} : r \in {rootOf[c] : c \in Marked}}

LEMMA ClassesArePatches ==
    ASSUME NEW v \in Boards, LabelledTo(v, Len(Raster))
    PROVE  Classes(v) = {PatchOf(c) : c \in Marked}
<1> DEFINE rootOf == [c \in Marked |-> RootAt(v, c)]
           Class(c) == {d \in Marked : rootOf[d] = rootOf[c]}
<1>1. \A c \in Marked : c \in Cells2D /\ v.label[c] # 0
    <2> SUFFICES ASSUME NEW c \in Marked PROVE c \in Cells2D /\ v.label[c] # 0
        OBVIOUS
    <2>1. c \in Cells2D
        BY MarkedIs
    <2>2. Turn(c) \in 1..Len(Raster) /\ Len(Raster) \in Nat
        BY <2>1, RasterIs
    <2>3. Turn(c) <= Len(Raster)
        BY <2>2
    <2> QED BY <2>1, <2>3 DEF LabelledTo
<1>2. \A c, d \in Marked : /\ Beside(c, d) => RootAt(v, c) = RootAt(v, d)
                           /\ RootAt(v, c) = RootAt(v, d) => LinkedCells(c, d)
    BY <1>1 DEF LabelledTo
<1>3. ASSUME NEW c \in Marked, NEW d \in Marked PROVE LinkedCells(c, d) <=> RootAt(v, d) = RootAt(v, c)
    <2> DEFINE K == {e \in Marked : RootAt(v, e) = RootAt(v, c)}
    <2>1. ClosedBeside(K) /\ K \in SUBSET Marked
        <3>1. \A x \in K, y \in Marked : Beside(x, y) => y \in K
            BY <1>2
        <3> QED BY <3>1 DEF ClosedBeside
    <2>2. c \in K
        OBVIOUS
    <2>3. LinkedCells(c, d) => d \in K
        BY <2>1, <2>2 DEF LinkedCells
    <2>4. RootAt(v, d) = RootAt(v, c) => LinkedCells(c, d)
        BY <1>2
    <2> QED BY <2>3, <2>4
<1>4. ASSUME NEW c \in Marked PROVE Class(c) = PatchOf(c)
    <2>1. PatchOf(c) = {d \in Marked : LinkedCells(c, d)}
        BY PatchIs
    <2>2. \A d \in Marked : rootOf[d] = rootOf[c] <=> LinkedCells(c, d)
        BY <1>3
    <2> HIDE DEF rootOf
    <2> QED BY <2>1, <2>2
<1>5. Classes(v) = {{c \in Marked : rootOf[c] = r} : r \in {rootOf[c] : c \in Marked}}
    BY DEF Classes
<1> HIDE DEF rootOf
<1>6. {{c \in Marked : rootOf[c] = r} : r \in {rootOf[c] : c \in Marked}} = {Class(c) : c \in Marked}
    OBVIOUS
<1>7. {Class(c) : c \in Marked} = {PatchOf(c) : c \in Marked}
    <2> HIDE DEF Class
    <2> QED BY <1>4
<1> QED BY <1>5, <1>6, <1>7

LEMMA CellBoundsOf ==
    ASSUME NEW N \in Nat, NEW T \in SUBSET (0..N), T # {}
    PROVE  /\ Least(T) \in 0..N /\ Most(T) \in 0..N /\ Least(T) <= Most(T)
           /\ Least(T) \in T /\ Most(T) \in T /\ \A x \in T : Least(T) <= x /\ x <= Most(T)
<1> DEFINE U == {x + 1 : x \in T}
<1>1. N + 1 \in Nat /\ U \in SUBSET (1..N + 1) /\ U # {}
    <2>1. \A x \in T : x + 1 \in 1..N + 1
        OBVIOUS
    <2>2. \A u \in U : u \in 1..N + 1
        BY <2>1
    <2>3. \E x \in T : TRUE
        OBVIOUS
    <2>4. U # {}
        BY <2>3
    <2> HIDE DEF U
    <2> QED BY <2>2, <2>4
<1>2. PICK a \in U : \A x \in U : a <= x
    <2> HIDE DEF U
    <2> QED BY <1>1, LeastExists
<1>3. PICK b \in U : \A x \in U : x <= b
    <2> HIDE DEF U
    <2> QED BY <1>1, GreatestExists
<1>4. \A x \in T : x \in Int /\ x + 1 \in U
    OBVIOUS
<1>5. \E n \in T : \A m \in T : n <= m
    <2>1. PICK n \in T : a = n + 1
        BY <1>2
    <2>2. \A m \in T : n + 1 <= m + 1
        BY <2>1, <1>2
    <2>3. \A m \in T : n <= m
        BY <2>2, <1>4
    <2> QED BY <2>3
<1>6. \E n \in T : \A m \in T : m <= n
    <2>1. PICK n \in T : b = n + 1
        BY <1>3
    <2>2. \A m \in T : m + 1 <= n + 1
        BY <2>1, <1>3
    <2>3. \A m \in T : m <= n
        BY <2>2, <1>4
    <2> QED BY <2>3
<1>7. Least(T) \in T /\ \A m \in T : Least(T) <= m
    BY <1>5 DEF Least
<1>8. Most(T) \in T /\ \A m \in T : m <= Most(T)
    BY <1>6 DEF Most
<1> QED BY <1>7, <1>8

(* Boxes of cells of the map.                                              *)
MapBoxes ==
    {b \in Regions : b.left <= b.right /\ b.right < MapWidth /\ b.top <= b.bottom /\ b.bottom < MapHeight}

LEMMA MapBoxIs ==
    ASSUME NEW b \in MapBoxes
    PROVE  /\ b.left \in Nat /\ b.right \in Nat /\ b.top \in Nat /\ b.bottom \in Nat
           /\ b.left <= b.right /\ b.right < MapWidth /\ b.top <= b.bottom /\ b.bottom < MapHeight
BY DEF MapBoxes, Regions

LEMMA PatchBoxIs ==
    ASSUME NEW k \in SUBSET Cells2D, k # {}
    PROVE  Box(k) \in MapBoxes
<1> DEFINE X == {c[1] : c \in k}
           Y == {c[2] : c \in k}
           W == MapWidth - 1
           H == MapHeight - 1
           b == Box(k)
<1>1. W \in Nat /\ H \in Nat
    BY MapIs
<1>2. X \in SUBSET (0..W) /\ Y \in SUBSET (0..H) /\ X # {} /\ Y # {}
    <2>1. \A c \in k : c[1] \in 0..W /\ c[2] \in 0..H
        <3> SUFFICES ASSUME NEW c \in k PROVE c[1] \in 0..W /\ c[2] \in 0..H
            OBVIOUS
        <3>1. c \in Cells2D
            OBVIOUS
        <3>2. c[1] \in Nat /\ c[2] \in Nat /\ c[1] < MapWidth /\ c[2] < MapHeight
            BY <3>1, CellIs
        <3> DEFINE x == c[1]
                   y == c[2]
        <3> HIDE DEF x, y
        <3>3. x \in 0..W /\ y \in 0..H
            BY <3>2, MapIs DEF x, y
        <3> QED BY <3>3 DEF x, y
    <2>2. \E c \in k : TRUE
        OBVIOUS
    <2> QED BY <2>1, <2>2
<1>3. /\ b = [left |-> Least(X), top |-> Least(Y), right |-> Most(X), bottom |-> Most(Y)]
    BY DEF Box
<1> HIDE DEF X, Y, W, H, b
<1>4. /\ Least(X) \in 0..W /\ Most(X) \in 0..W /\ Least(X) <= Most(X)
      /\ Least(Y) \in 0..H /\ Most(Y) \in 0..H /\ Least(Y) <= Most(Y)
    BY <1>1, <1>2, CellBoundsOf
<1>5. /\ Least(X) \in Nat /\ Most(X) \in Nat /\ Most(X) < MapWidth
      /\ Least(Y) \in Nat /\ Most(Y) \in Nat /\ Most(Y) < MapHeight
    BY <1>1, <1>4, MapIs DEF W, H
<1> QED BY <1>3, <1>4, <1>5 DEF MapBoxes, Regions, b

-----------------------------------------------------------------------------
LEMMA CappedIs ==
    \A n, m \in Int : Capped(n, m) \in Int /\ Capped(n, m) <= n /\ Capped(n, m) <= m
                      /\ (Capped(n, m) = n \/ Capped(n, m) = m)
                      /\ (n <= m => Capped(n, m) = n)
BY DEF Capped

(* A span of a/d..(a + e)/d pixels of s, rounded down twice.               *)
LEMMA SpanFilled ==
    ASSUME NEW a \in Nat, NEW e \in Nat, NEW d \in Nat \ {0}, NEW s \in Nat \ {0}, a < d * s,
           NEW x, x = Capped(a \div d, s - 1), NEW w, w = Capped(e \div d, s - x)
    PROVE  /\ \A p \in 0..s - 1 : p * d >= a /\ (p + 2) * d <= a + e => p \in x..x + w - 1
           /\ \A p \in x..x + w - 1 : p \in 0..s - 1 /\ (p + 1) * d > a /\ p * d < a + e
           /\ x \in Nat /\ w \in Int
<1> DEFINE q == a \div d
           v == e \div d
           qd == q * d
           vd == v * d
<1>1. q \in Nat /\ qd <= a /\ a < qd + d /\ qd \in Nat
    <2>1. q \in Nat /\ q * d <= a /\ a < q * d + d
        BY DivIs
    <2> HIDE DEF q
    <2>2. q * d \in Nat
        BY <2>1
    <2> QED BY <2>1, <2>2
<1>2. v \in Nat /\ vd <= e /\ e < vd + d /\ vd \in Nat
    <2>1. v \in Nat /\ v * d <= e /\ e < v * d + d
        BY DivIs
    <2> HIDE DEF v
    <2>2. v * d \in Nat
        BY <2>1
    <2> QED BY <2>1, <2>2
<1>3. q < s
    <2>1. qd < s * d
        <3>1. s * d = d * s /\ d * s \in Nat
            OBVIOUS
        <3> HIDE DEF qd
        <3> DEFINE sd == s * d
        <3>2. sd \in Nat /\ a < sd
            BY <3>1
        <3> HIDE DEF sd
        <3>3. qd < sd
            BY <3>2, <1>1
        <3> QED BY <3>3 DEF sd
    <2> HIDE DEF q
    <2> QED BY <2>1, <1>1, Scaled
<1>4. x = q
    <2> HIDE DEF q
    <2>1. x = Capped(q, s - 1)
        BY DEF q
    <2>2. q \in Int /\ s - 1 \in Int /\ q <= s - 1
        BY <1>1, <1>3
    <2> QED BY <2>1, <2>2, CappedIs
<1>5. w \in Int /\ w <= v /\ w <= s - q /\ (w = v \/ w = s - q)
    <2> HIDE DEF q, v
    <2> QED BY <1>1, <1>2, <1>4, CappedIs DEF v
<1>6. qd = q * d /\ vd = v * d
    OBVIOUS
<1> HIDE DEF q, v, qd, vd
<1>7. ASSUME NEW p \in 0..s - 1, p * d >= a, (p + 2) * d <= a + e PROVE p \in q..q + w - 1
    <2> DEFINE pd == p * d
    <2>1. pd \in Int /\ (p + 2) * d = pd + d + d
        OBVIOUS
    <2>2. p >= q
        <3> SUFFICES ASSUME p < q PROVE FALSE
            BY <1>1
        <3>1. p + 1 <= q /\ p + 1 \in Int
            BY <1>1
        <3>2. (p + 1) * d <= q * d /\ (p + 1) * d = p * d + d
            BY <3>1, <1>1, Scaled
        <3>3. pd + d <= qd
            BY <3>2, <1>6
        <3> HIDE DEF pd
        <3>4. pd >= a
            BY <1>7 DEF pd
        <3> QED BY <3>3, <3>4, <2>1, <1>1
    <2>3. p < q + v
        <3> SUFFICES ASSUME q + v <= p PROVE FALSE
            BY <1>1, <1>2
        <3>1. (q + v) * d <= p * d /\ (q + v) * d = q * d + v * d
            <4>1. q + v \in Int
                BY <1>1, <1>2
            <4> QED BY <4>1, <1>1, <1>2, Scaled
        <3>2. qd + vd <= pd
            BY <3>1, <1>6
        <3>3. pd + d + d <= a + e
            BY <2>1, <1>7
        <3> HIDE DEF pd
        <3> QED BY <3>2, <3>3, <2>1, <1>1, <1>2
    <2> QED BY <2>2, <2>3, <1>1, <1>2, <1>5
<1>8. ASSUME NEW p \in q..q + w - 1 PROVE p \in 0..s - 1 /\ (p + 1) * d > a /\ p * d < a + e
    <2> DEFINE pd == p * d
    <2>1. p \in Int /\ q <= p /\ p + 1 <= q + v /\ p \in 0..s - 1
        BY <1>1, <1>2, <1>3, <1>5
    <2>2. q * d <= p * d /\ (p + 1) * d = p * d + d /\ (p + 1) * d <= (q + v) * d
          /\ (q + v) * d = q * d + v * d /\ p * d \in Int
        <3>1. p + 1 \in Int /\ q + v \in Int
            BY <2>1, <1>1, <1>2
        <3> QED BY <3>1, <2>1, <1>1, <1>2, Scaled
    <2>3. qd <= pd /\ (p + 1) * d = pd + d /\ pd + d <= qd + vd /\ pd \in Int
        BY <2>2, <1>6
    <2> DEFINE r == (p + 1) * d
    <2>4. r = pd + d /\ qd <= pd /\ pd + d <= qd + vd /\ pd \in Int
        BY <2>3
    <2> HIDE DEF pd, r
    <2>5. r > a /\ pd < a + e
        BY <2>4, <1>1, <1>2
    <2> QED BY <2>1, <2>5 DEF pd, r
<1> QED BY <1>1, <1>4, <1>5, <1>7, <1>8

LEMMA ImageSizeIs ==
    ASSUME imageSize \in Sizes
    PROVE  imageSize[1] \in Nat \ {0} /\ imageSize[2] \in Nat \ {0}
BY RegionAssumption

(* What is filled for a box, along its width.                              *)
LEMMA WidthFilled ==
    ASSUME imageSize \in Sizes, NEW b \in MapBoxes,
           NEW x, x = Capped(LeftOf(b), imageSize[1] - 1),
           NEW w, w = Capped(WidthOf(b), imageSize[1] - x)
    PROVE  /\ \A p \in 0..imageSize[1] - 1 :
                p * MapWidth >= b.left * imageSize[1] /\ (p + 2) * MapWidth <= b.right * imageSize[1]
                => p \in x..x + w - 1
           /\ \A p \in x..x + w - 1 :
                /\ p \in 0..imageSize[1] - 1
                /\ (p + 1) * MapWidth > b.left * imageSize[1] /\ p * MapWidth < b.right * imageSize[1]
<1> DEFINE s == imageSize[1]
           d == MapWidth
           l == b.left
           r == b.right
           a == l * s
           e == (r - l) * s
<1>1. s \in Nat \ {0} /\ d \in Nat \ {0} /\ l \in Nat /\ r \in Nat /\ l <= r /\ r < d
    BY ImageSizeIs, MapIs, MapBoxIs
<1>2. x = Capped(a \div d, s - 1) /\ w = Capped(e \div d, s - x)
    BY DEF LeftOf, WidthOf
<1> HIDE DEF s, d, l, r
<1>3. a \in Nat /\ e \in Nat /\ a + e = r * s /\ a < d * s
    <2>1. r - l \in Nat /\ l < d /\ l + (r - l) = r
        BY <1>1
    <2>2. (l + (r - l)) * s = l * s + (r - l) * s /\ a \in Nat /\ e \in Nat /\ l * s < d * s
        BY <2>1, <1>1, Scaled
    <2> QED BY <2>1, <2>2
<1> DEFINE t == r * s
<1>4. a + e = t
    BY <1>3
<1>5. a = b.left * imageSize[1] /\ t = b.right * imageSize[1]
    BY DEF l, r, s
<1> HIDE DEF a, e, t
<1>6. /\ \A p \in 0..s - 1 : p * d >= a /\ (p + 2) * d <= a + e => p \in x..x + w - 1
      /\ \A p \in x..x + w - 1 : p \in 0..s - 1 /\ (p + 1) * d > a /\ p * d < a + e
    BY <1>1, <1>2, <1>3, SpanFilled
<1>7. /\ \A p \in 0..s - 1 : p * d >= a /\ (p + 2) * d <= t => p \in x..x + w - 1
      /\ \A p \in x..x + w - 1 : p \in 0..s - 1 /\ (p + 1) * d > a /\ p * d < t
    BY <1>4, <1>6
<1> QED BY <1>5, <1>7 DEF s, d

(* And along its height, padded.                                           *)
LEMMA PaddingIs ==
    ASSUME imageSize \in Sizes, NEW b \in MapBoxes
    PROVE  /\ PaddedTop(b) \in Nat /\ PaddedBottom(b) \in Nat /\ PaddedTop(b) <= PaddedBottom(b)
           /\ PaddedTop(b) <= 2 * (b.top * imageSize[2])
           /\ 2 * (b.bottom * imageSize[2]) <= PaddedBottom(b)
           /\ PaddedTop(b) < 2 * MapHeight * imageSize[2]
<1> DEFINE s == imageSize[2]
           H == MapHeight
           t == b.top
           u == b.bottom
           h == u - t
           ts == t * s
           us == u * s
           hs == h * s
           Hs == H * s
<1>1. s \in Nat \ {0} /\ H \in Nat \ {0} /\ t \in Nat /\ u \in Nat /\ t <= u /\ u < H
    BY ImageSizeIs, MapIs, MapBoxIs
<1>2. PaddedTop(b) = (IF (2 * t - h) * s < 0 THEN 0 ELSE (2 * t - h) * s)
      /\ PaddedBottom(b) = Capped((2 * u + h) * s, 2 * H * s)
    BY DEF PaddedTop, PaddedBottom
<1> HIDE DEF s, H, t, u
<1>3. h \in Nat
    BY <1>1
<1>4. (2 * t - h) * s = 2 * ts - hs /\ (2 * u + h) * s = 2 * us + hs /\ 2 * H * s = 2 * Hs
    <2> HIDE DEF h
    <2> QED BY <1>1, <1>3
<1>5. ts \in Nat /\ us \in Nat /\ hs \in Nat /\ Hs \in Nat /\ us < Hs /\ ts + hs = us
    <2>1. t + h = u
        BY <1>1
    <2> HIDE DEF h
    <2>2. (t + h) * s = t * s + h * s
        BY <1>1, <1>3, Scaled
    <2>3. u * s < H * s
        BY <1>1, Scaled
    <2>4. ts \in Nat /\ us \in Nat /\ hs \in Nat /\ Hs \in Nat
        BY <1>1, <1>3
    <2> QED BY <2>1, <2>2, <2>3, <2>4
<1> DEFINE PT == PaddedTop(b)
           PB == PaddedBottom(b)
<1>6. PT = (IF 2 * ts - hs < 0 THEN 0 ELSE 2 * ts - hs) /\ PB = Capped(2 * us + hs, 2 * Hs)
    BY <1>2, <1>4
<1> HIDE DEF ts, us, hs, Hs, h, PT, PB
<1>7. PB \in Int /\ (PB = 2 * us + hs \/ PB = 2 * Hs)
    <2>1. 2 * us + hs \in Int /\ 2 * Hs \in Int
        BY <1>5
    <2> QED BY <2>1, <1>6, CappedIs
<1>8. PT \in Nat /\ PB \in Nat /\ PT <= PB /\ PT <= 2 * ts /\ 2 * us <= PB /\ PT < 2 * Hs
    BY <1>5, <1>6, <1>7
<1>9. PT < 2 * H * s
    BY <1>8, <1>4
<1> QED BY <1>8, <1>9 DEF PT, PB, ts, us, s, t, u, H

LEMMA HeightFilled ==
    ASSUME imageSize \in Sizes, NEW b \in MapBoxes,
           NEW y, y = Capped(PaddedTop(b) \div (2 * MapHeight), imageSize[2] - 1),
           NEW h, h = Capped((PaddedBottom(b) - PaddedTop(b)) \div (2 * MapHeight), imageSize[2] - y)
    PROVE  /\ \A p \in 0..imageSize[2] - 1 :
                p * MapHeight >= b.top * imageSize[2] /\ (p + 2) * MapHeight <= b.bottom * imageSize[2]
                => p \in y..y + h - 1
           /\ \A p \in y..y + h - 1 :
                /\ p \in 0..imageSize[2] - 1
                /\ (p + 1) * 2 * MapHeight > PaddedTop(b) /\ p * 2 * MapHeight < PaddedBottom(b)
<1> DEFINE s == imageSize[2]
           H == MapHeight
           d == 2 * H
           a == PaddedTop(b)
           z == PaddedBottom(b)
           e == z - a
           ts == b.top * s
           us == b.bottom * s
<1>1. s \in Nat \ {0} /\ H \in Nat \ {0} /\ b.top \in Nat /\ b.bottom \in Nat
    BY ImageSizeIs, MapIs, MapBoxIs
<1>2. a \in Nat /\ z \in Nat /\ a <= z /\ a <= 2 * ts /\ 2 * us <= z /\ a < d * s
    BY PaddingIs
<1>3. ts \in Nat /\ us \in Nat /\ d \in Nat \ {0}
    BY <1>1
<1>4. y = Capped(a \div d, s - 1) /\ h = Capped(e \div d, s - y)
    OBVIOUS
<1> HIDE DEF s, H, a, z
<1>5. e \in Nat /\ a + e = z
    BY <1>2
<1> HIDE DEF e, ts, us
<1>6. /\ \A p \in 0..s - 1 : p * d >= a /\ (p + 2) * d <= a + e => p \in y..y + h - 1
      /\ \A p \in y..y + h - 1 : p \in 0..s - 1 /\ (p + 1) * d > a /\ p * d < a + e
    <2> HIDE DEF d
    <2> QED BY <1>1, <1>2, <1>3, <1>4, <1>5, SpanFilled
<1>7. \A p \in Int : p * d = 2 * (p * H) /\ (p + 2) * d = 2 * ((p + 2) * H)
                     /\ (p + 1) * d = (p + 1) * 2 * H /\ p * d = p * 2 * H
                     /\ p * H \in Int /\ (p + 2) * H \in Int
    BY <1>1
<1> HIDE DEF d
<1>8. ASSUME NEW p \in 0..s - 1, p * H >= ts, (p + 2) * H <= us PROVE p \in y..y + h - 1
    <2>1. p \in Int
        BY <1>1
    <2> DEFINE m == p * H
               n == (p + 2) * H
               pd == p * d
               qd == (p + 2) * d
    <2>2. m \in Int /\ n \in Int /\ pd = 2 * m /\ qd = 2 * n /\ m >= ts /\ n <= us
        BY <2>1, <1>7, <1>8
    <2>3. pd >= a /\ qd <= a + e => p \in y..y + h - 1
        BY <1>6
    <2> HIDE DEF m, n, pd, qd
    <2> QED BY <2>2, <2>3, <1>2, <1>3, <1>5
<1>9. ASSUME NEW p \in y..y + h - 1
      PROVE  p \in 0..s - 1 /\ (p + 1) * 2 * H > a /\ p * 2 * H < z
    <2>1. p \in 0..s - 1 /\ (p + 1) * d > a /\ p * d < a + e
        BY <1>6
    <2>2. p \in Int
        BY <2>1, <1>1
    <2>3. (p + 1) * d = (p + 1) * 2 * H /\ p * d = p * 2 * H
        BY <2>2, <1>7
    <2> QED BY <2>1, <2>3, <1>5
<1> QED BY <1>8, <1>9 DEF s, H, a, z, ts, us

(* A patch has its pixels filled, and nothing far from it.                 *)
LEMMA BoxFilled ==
    ASSUME imageSize \in Sizes, NEW k, Box(k) \in MapBoxes
    PROVE  PixelsOf(k) \subseteq Filled(Box(k)) /\ Filled(Box(k)) \subseteq Around(k)
<1> DEFINE b == Box(k)
           x == Capped(LeftOf(b), imageSize[1] - 1)
           y == Capped(PaddedTop(b) \div (2 * MapHeight), imageSize[2] - 1)
           w == Capped(WidthOf(b), imageSize[1] - x)
           h == Capped((PaddedBottom(b) - PaddedTop(b)) \div (2 * MapHeight), imageSize[2] - y)
<1>1. Filled(b) = (x..x + w - 1) \X (y..y + h - 1)
    BY DEF Filled
<1>2. PixelsOf(k) = {p \in (0..imageSize[1] - 1) \X (0..imageSize[2] - 1) :
           /\ p[1] * MapWidth >= b.left * imageSize[1]
           /\ (p[1] + 2) * MapWidth <= b.right * imageSize[1]
           /\ p[2] * MapHeight >= b.top * imageSize[2]
           /\ (p[2] + 2) * MapHeight <= b.bottom * imageSize[2]}
    BY DEF PixelsOf
<1>3. Around(k) = {p \in (0..imageSize[1] - 1) \X (0..imageSize[2] - 1) :
           /\ (p[1] + 1) * MapWidth > b.left * imageSize[1]
           /\ p[1] * MapWidth < b.right * imageSize[1]
           /\ (p[2] + 1) * 2 * MapHeight > PaddedTop(b)
           /\ p[2] * 2 * MapHeight < PaddedBottom(b)}
    BY DEF Around
<1> HIDE DEF b
<1>4. /\ \A p \in 0..imageSize[1] - 1 :
                p * MapWidth >= b.left * imageSize[1] /\ (p + 2) * MapWidth <= b.right * imageSize[1]
                => p \in x..x + w - 1
      /\ \A p \in x..x + w - 1 :
                /\ p \in 0..imageSize[1] - 1
                /\ (p + 1) * MapWidth > b.left * imageSize[1] /\ p * MapWidth < b.right * imageSize[1]
    <2> HIDE DEF x, w
    <2>1. b \in MapBoxes
        BY DEF b
    <2> QED BY <2>1, WidthFilled DEF x, w
<1>5. /\ \A p \in 0..imageSize[2] - 1 :
                p * MapHeight >= b.top * imageSize[2] /\ (p + 2) * MapHeight <= b.bottom * imageSize[2]
                => p \in y..y + h - 1
      /\ \A p \in y..y + h - 1 :
                /\ p \in 0..imageSize[2] - 1
                /\ (p + 1) * 2 * MapHeight > PaddedTop(b) /\ p * 2 * MapHeight < PaddedBottom(b)
    <2> HIDE DEF y, h
    <2>1. b \in MapBoxes
        BY DEF b
    <2> QED BY <2>1, HeightFilled DEF y, h
<1> HIDE DEF x, y, w, h
<1>6. PixelsOf(k) \subseteq Filled(b)
    BY <1>1, <1>2, <1>4, <1>5
<1>7. Filled(b) \subseteq Around(k)
    BY <1>1, <1>3, <1>4, <1>5
<1> QED BY <1>6, <1>7 DEF b

(* The decoder after each step.                                            *)
Decodings == [text : Seq(Nat), previous : Nat]
Decodes(f, s) ==
    /\ \A n \in 0..Len(s) : f[n] \in Decodings
    /\ f[0] = [text |-> <<>>, previous |-> 0]
    /\ \A n \in 1..Len(s) : f[n] = DecodeStep(f[n - 1], s[n])
    /\ CtcDecode(s) = f[Len(s)].text

LEMMA DecodingFields ==
    \A s, p : [text |-> s, previous |-> p].text = s /\ [text |-> s, previous |-> p].previous = p
OBVIOUS

LEMMA DecodeStepIs ==
    ASSUME NEW v \in Decodings, NEW k \in Nat
    PROVE  /\ DecodeStep(v, k) \in Decodings /\ DecodeStep(v, k).previous = k
           /\ v.text \in Seq(Nat) /\ v.previous \in Nat
           /\ DecodeStep(v, k).text =
                IF k # 0 /\ k # v.previous /\ k <= Dictionary THEN Append(v.text, k) ELSE v.text
<1> DEFINE t == IF k # 0 /\ k # v.previous /\ k <= Dictionary THEN Append(v.text, k) ELSE v.text
<1>1. v.text \in Seq(Nat) /\ v.previous \in Nat
    BY DEF Decodings
<1>2. DecodeStep(v, k) = [text |-> t, previous |-> k]
    BY DEF DecodeStep
<1>3. t \in Seq(Nat)
    BY <1>1
<1> HIDE DEF t
<1> QED BY <1>1, <1>2, <1>3 DEF Decodings, t

LEMMA DecodesExist ==
    ASSUME NEW s \in Seq(Nat)
    PROVE  \E f : Decodes(f, s)
<1> DEFINE N    == Len(s)
           base == [text |-> <<>>, previous |-> 0]
           Step(n, v) == DecodeStep(v, s[n])
           step == [p \in (0 + 1..N) \X Decodings |-> Step(p[1], p[2])]
           F(f) == [n \in 0..N |-> IF n = 0 THEN base ELSE Step(n, f[n - 1])]
           f    == CHOOSE g : g = F(g)
<1>0. CtcDecode(s) = f[N].text
    BY DEF CtcDecode
<1>1. N \in Nat /\ N \in Int /\ 0 \in Int /\ 0 <= N
    OBVIOUS
<1>2. base \in Decodings
    BY DEF Decodings
<1>3. ASSUME NEW n \in 1..N, NEW v \in Decodings PROVE Step(n, v) \in Decodings
    <2>1. s[n] \in Nat
        BY <1>1
    <2> QED BY <2>1, DecodeStepIs
<1> HIDE DEF base, Step
<1>4. step \in [(0 + 1..N) \X Decodings -> Decodings]
    <2> HIDE DEF N
    <2>1. 0 + 1..N = 1..N
        BY <1>1
    <2> QED BY <2>1, <1>3
<1>5. PICK g \in [0..N -> Decodings] : Recursion(g, 0, N, base, step)
    <2> HIDE DEF N, step, F, f
    <2> QED BY <1>1, <1>2, <1>4, RecursionExists
<1>6. g[0] = base
    BY <1>5 DEF Recursion
<1>7. ASSUME NEW n \in 1..N PROVE g[n] = Step(n, g[n - 1])
    <2>1. n \in 0 + 1..N /\ n - 1 \in 0..N
        BY <1>1
    <2>2. <<n, g[n - 1]>> \in (0 + 1..N) \X Decodings /\ g[n] = step[<<n, g[n - 1]>>]
        <3> HIDE DEF step, N
        <3> QED BY <2>1, <1>5 DEF Recursion
    <2> HIDE DEF N
    <2>3. step[<<n, g[n - 1]>>] = Step(n, g[n - 1])
        BY <2>2
    <2> HIDE DEF step
    <2> QED BY <2>2, <2>3
<1>8. g = F(g)
    <2> HIDE DEF step, N
    <2>1. \A n \in 0..N : g[n] = F(g)[n]
        <3> SUFFICES ASSUME NEW n \in 0..N PROVE g[n] = F(g)[n]
            OBVIOUS
        <3>1. CASE n = 0
            BY <1>6, <3>1
        <3>2. CASE n # 0
            <4>1. n \in 1..N
                BY <1>1, <3>2
            <4> QED BY <1>7, <3>2, <4>1
        <3> HIDE DEF F
        <3> QED BY <3>1, <3>2
    <2> QED BY <1>5, <2>1
<1>9. f = F(f)
    <2> HIDE DEF F
    <2> QED BY <1>8
<1> HIDE DEF f
<1>10. f[0] = base
    <2> HIDE DEF N
    <2> QED BY <1>1, <1>9
<1>11. ASSUME NEW n \in 1..N PROVE f[n] = Step(n, f[n - 1])
    <2>1. n \in 0..N /\ n # 0
        BY <1>1
    <2> HIDE DEF N
    <2> QED BY <1>9, <2>1
<1>12. \A n \in 0..N : f[n] \in Decodings
    <2> DEFINE T == {n \in 0..N : f[n] \in Decodings}
    <2>1. 0 \in T
        <3> HIDE DEF N
        <3> QED BY <1>1, <1>2, <1>10
    <2>2. ASSUME NEW n \in 0..N - 1, n \in T PROVE n + 1 \in T
        <3>1. n + 1 \in 1..N /\ n + 1 \in 0..N /\ (n + 1) - 1 = n /\ f[n] \in Decodings
            BY <2>2, <1>1
        <3> HIDE DEF N
        <3>2. f[n + 1] = Step(n + 1, f[n])
            BY <3>1, <1>11
        <3> QED BY <3>1, <3>2, <1>3
    <2>3. 0..N \subseteq T
        <3> HIDE DEF T, N
        <3> QED BY <1>1, <2>1, <2>2, IntervalInduction
    <2> QED BY <2>3
<1>13. Decodes(f, s)
    BY <1>0, <1>10, <1>11, <1>12 DEF Decodes, Step, base
<1> QED BY <1>13

(* The steps of a reading that are a new letter, and how many up to one.   *)
Fresh(s) == {t \in DOMAIN s : s[t] \in 1..Dictionary /\ (t = 1 \/ s[t - 1] # s[t])}
FreshTo(s, n) == {u \in Fresh(s) : u <= n}
FreshCount(s, n) == Cardinality(FreshTo(s, n))

LEMMA FreshIs ==
    ASSUME NEW s \in Seq(Nat)
    PROVE  /\ Fresh(s) \subseteq 1..Len(s) /\ Len(s) \in Nat
           /\ FreshCount(s, 0) = 0 /\ FreshCount(s, Len(s)) = Cardinality(Fresh(s))
           /\ \A n \in 0..Len(s) : FreshCount(s, n) \in Nat
           /\ \A n \in 1..Len(s) :
                FreshCount(s, n) = IF n \in Fresh(s) THEN FreshCount(s, n - 1) + 1 ELSE FreshCount(s, n - 1)
<1> DEFINE N == Len(s)
<1>1. N \in Nat /\ Fresh(s) \subseteq 1..N
    BY DEF Fresh
<1>2. IsFiniteSet(Fresh(s))
    <2>1. IsFiniteSet(1..N)
        BY <1>1, FS_Interval
    <2>2. Fresh(s) \in SUBSET (1..N)
        BY <1>1
    <2> QED BY <2>1, <2>2, FS_Subset
<1>3. \A n : IsFiniteSet(FreshTo(s, n)) /\ FreshCount(s, n) \in Nat
    <2> TAKE n
    <2>1. FreshTo(s, n) \in SUBSET Fresh(s)
        BY DEF FreshTo
    <2>2. IsFiniteSet(FreshTo(s, n))
        BY <2>1, <1>2, FS_Subset
    <2> QED BY <2>2, FS_CardinalityType DEF FreshCount
<1>4. FreshCount(s, 0) = 0
    <2>1. FreshTo(s, 0) = {}
        BY <1>1 DEF FreshTo
    <2> QED BY <2>1, FS_EmptySet DEF FreshCount
<1>5. FreshCount(s, N) = Cardinality(Fresh(s))
    <2>1. FreshTo(s, N) = Fresh(s)
        BY <1>1 DEF FreshTo
    <2> QED BY <2>1 DEF FreshCount
<1>6. ASSUME NEW n \in 1..N
      PROVE  FreshCount(s, n) = IF n \in Fresh(s) THEN FreshCount(s, n - 1) + 1 ELSE FreshCount(s, n - 1)
    <2> DEFINE A == FreshTo(s, n - 1)
    <2>1. \A u \in Fresh(s) : u <= n <=> u <= n - 1 \/ u = n
        BY <1>1
    <2>2. n \notin A
        BY <1>1 DEF FreshTo
    <2>3. CASE n \in Fresh(s)
        <3>1. FreshTo(s, n) = A \cup {n}
            BY <2>1, <2>3 DEF FreshTo
        <3> HIDE DEF A
        <3>2. Cardinality(A \cup {n}) = Cardinality(A) + 1
            <4>1. IsFiniteSet(A)
                BY <1>3 DEF A
            <4> QED BY <4>1, <2>2, FS_AddElement
        <3> QED BY <3>1, <3>2, <2>3 DEF FreshCount, A
    <2>4. CASE n \notin Fresh(s)
        <3>1. FreshTo(s, n) = A
            BY <2>1, <2>4 DEF FreshTo
        <3> HIDE DEF A
        <3> QED BY <3>1, <2>4 DEF FreshCount, A
    <2> QED BY <2>3, <2>4
<1> HIDE DEF N
<1>7. \A n \in 0..N : FreshCount(s, n) \in Nat
    BY <1>3
<1> QED BY <1>1, <1>4, <1>5, <1>6, <1>7 DEF N

(* The text after n steps: the new letters of these, each at its place.    *)
SpeltTo(v, s, n) ==
    /\ v \in Decodings
    /\ v.previous = IF n = 0 THEN 0 ELSE s[n]
    /\ Len(v.text) = FreshCount(s, n)
    /\ \A t \in Fresh(s) : t <= n =>
          FreshCount(s, t) \in 1..FreshCount(s, n) /\ v.text[FreshCount(s, t)] = s[t]
    /\ \A m \in 1..FreshCount(s, n) : \E t \in Fresh(s) : FreshCount(s, t) = m

LEMMA StepSpells ==
    ASSUME NEW s \in Seq(Nat), NEW n \in 0..Len(s) - 1, NEW v, SpeltTo(v, s, n)
    PROVE  SpeltTo(DecodeStep(v, s[n + 1]), s, n + 1)
<1> DEFINE m == n + 1
           k == s[m]
           C(i) == FreshCount(s, i)
           w == DecodeStep(v, k)
           T == v.text
<1>1. Len(s) \in Nat /\ n \in Nat /\ m \in 1..Len(s) /\ m - 1 = n /\ m # 0 /\ k \in Nat /\ n \in 0..Len(s)
    OBVIOUS
<1>2. /\ v \in Decodings /\ v.previous = (IF n = 0 THEN 0 ELSE s[n])
      /\ Len(T) = C(n)
      /\ \A t \in Fresh(s) : t <= n => C(t) \in 1..C(n) /\ T[C(t)] = s[t]
      /\ \A i \in 1..C(n) : \E t \in Fresh(s) : C(t) = i
    BY DEF SpeltTo
<1>3. /\ w \in Decodings /\ w.previous = k /\ T \in Seq(Nat)
      /\ w.text = IF k # 0 /\ k # v.previous /\ k <= Dictionary THEN Append(T, k) ELSE T
    BY <1>1, <1>2, DecodeStepIs
<1>4. C(n) \in Nat /\ C(m) = IF m \in Fresh(s) THEN C(n) + 1 ELSE C(n)
    BY <1>1, FreshIs
<1>5. m \in Fresh(s) <=> k # 0 /\ k # v.previous /\ k <= Dictionary
    <2>1. m \in DOMAIN s
        BY <1>1
    <2>2. m \in Fresh(s) <=> s[m] \in 1..Dictionary /\ (m = 1 \/ s[m - 1] # s[m])
        BY <2>1 DEF Fresh
    <2>3. k \in 1..Dictionary <=> k # 0 /\ k <= Dictionary
        BY <1>1, RegionAssumption
    <2>4. CASE n = 0
        <3>1. v.previous = 0 /\ m = 1
            BY <2>4, <1>2
        <3> QED BY <2>2, <2>3, <3>1
    <2>5. CASE n # 0
        <3>1. v.previous = s[m - 1] /\ m # 1
            BY <2>5, <1>1, <1>2
        <3> QED BY <2>2, <2>3, <3>1
    <2> QED BY <2>4, <2>5
<1>6. \A t \in Fresh(s) : t <= m <=> t <= n \/ t = m
    BY <1>1, FreshIs
<1> HIDE DEF w, C, T, k
<1>7. CASE m \in Fresh(s)
    <2>1. w.text = Append(T, k) /\ C(m) = C(n) + 1
        BY <1>3, <1>4, <1>5, <1>7
    <2>2. Len(Append(T, k)) = C(m) /\ Append(T, k)[C(m)] = k /\ \A i \in 1..C(n) : Append(T, k)[i] = T[i]
        <3>1. /\ Len(Append(T, k)) = Len(T) + 1 /\ Append(T, k)[Len(T) + 1] = k
              /\ \A i \in 1..Len(T) : Append(T, k)[i] = T[i]
            BY <1>1, <1>3
        <3> QED BY <3>1, <2>1, <1>2
    <2>3. \A t \in Fresh(s) : t <= m => C(t) \in 1..C(m) /\ w.text[C(t)] = s[t]
        <3> SUFFICES ASSUME NEW t \in Fresh(s), t <= m PROVE C(t) \in 1..C(m) /\ w.text[C(t)] = s[t]
            OBVIOUS
        <3>1. CASE t = m
            <4>1. C(m) \in 1..C(m)
                BY <2>1, <1>4
            <4> QED BY <4>1, <3>1, <2>1, <2>2 DEF k
        <3>2. CASE t <= n
            <4>1. C(t) \in 1..C(n) /\ T[C(t)] = s[t]
                BY <3>2, <1>2
            <4>2. C(t) \in 1..C(m)
                BY <4>1, <2>1, <1>4
            <4> QED BY <4>1, <4>2, <2>1, <2>2
        <3> QED BY <3>1, <3>2, <1>6
    <2>4. \A i \in 1..C(m) : \E t \in Fresh(s) : C(t) = i
        <3> SUFFICES ASSUME NEW i \in 1..C(m) PROVE \E t \in Fresh(s) : C(t) = i
            OBVIOUS
        <3>1. i = C(m) \/ i \in 1..C(n)
            BY <2>1, <1>4
        <3> QED BY <3>1, <1>2, <1>7
    <2> HIDE DEF m
    <2>5. SpeltTo(w, s, m)
        <3>1. w.previous = IF m = 0 THEN 0 ELSE s[m]
            BY <1>1, <1>3 DEF k
        <3> QED BY <3>1, <2>1, <2>2, <2>3, <2>4, <1>3 DEF SpeltTo, C
    <2> QED BY <2>5 DEF w, k, m
<1>8. CASE m \notin Fresh(s)
    <2>1. w.text = T /\ C(m) = C(n)
        BY <1>3, <1>4, <1>5, <1>8
    <2>2. \A t \in Fresh(s) : t <= m => C(t) \in 1..C(m) /\ w.text[C(t)] = s[t]
        BY <2>1, <1>2, <1>6, <1>8
    <2> HIDE DEF m
    <2>3. SpeltTo(w, s, m)
        <3>1. w.previous = IF m = 0 THEN 0 ELSE s[m]
            BY <1>1, <1>3 DEF k
        <3> QED BY <3>1, <2>1, <2>2, <1>2, <1>3 DEF SpeltTo, C
    <2> QED BY <2>3 DEF w, k, m
<1> QED BY <1>7, <1>8

(* What is decoded is what the reading spells.                             *)
LEMMA DecodedIsSpelled ==
    ASSUME NEW s \in Seq(Nat)
    PROVE  CtcDecode(s) \in Seq(Nat) /\ CtcDecode(s) = Spelled(s)
<1> DEFINE N == Len(s)
<1>1. N \in Nat /\ N \in Int /\ 0 \in Int
    OBVIOUS
<1>2. PICK f : Decodes(f, s)
    BY DecodesExist
<1>3. /\ f[0] = [text |-> <<>>, previous |-> 0] /\ f[0] \in Decodings
      /\ \A n \in 1..N : f[n] = DecodeStep(f[n - 1], s[n])
      /\ CtcDecode(s) = f[N].text
    BY <1>1, <1>2 DEF Decodes
<1> DEFINE T == {n \in 0..N : SpeltTo(f[n], s, n)}
<1>4. 0 \in T
    <2>1. FreshCount(s, 0) = 0
        BY FreshIs
    <2>2. \A t \in Fresh(s) : ~(t <= 0)
        BY FreshIs
    <2>3. f[0].previous = 0 /\ f[0].text = <<>>
        BY <1>3, DecodingFields
    <2>4. SpeltTo(f[0], s, 0)
        BY <2>1, <2>2, <2>3, <1>3 DEF SpeltTo
    <2> QED BY <2>4, <1>1
<1>5. ASSUME NEW n \in 0..N - 1, n \in T PROVE n + 1 \in T
    <2>1. n + 1 \in 1..N /\ n + 1 \in 0..N /\ (n + 1) - 1 = n /\ SpeltTo(f[n], s, n)
        BY <1>1, <1>5
    <2>2. f[n + 1] = DecodeStep(f[n], s[n + 1])
        BY <2>1, <1>3
    <2>3. SpeltTo(f[n + 1], s, n + 1)
        BY <2>1, <2>2, StepSpells
    <2> QED BY <2>1, <2>3
<1>6. 0..N \subseteq T
    <2> HIDE DEF T, N
    <2> QED BY <1>1, <1>4, <1>5, IntervalInduction
<1>7. SpeltTo(f[N], s, N)
    BY <1>1, <1>6
<1> DEFINE X == CtcDecode(s)
           C(n) == FreshCount(s, n)
           M == Cardinality(Fresh(s))
<1>8. /\ X \in Seq(Nat) /\ Len(X) = M
      /\ \A t \in Fresh(s) : X[C(t)] = s[t]
      /\ \A m \in 1..M : \E t \in Fresh(s) : C(t) = m
    <2>1. C(N) = M /\ \A t \in Fresh(s) : t <= N
        BY FreshIs, <1>1
    <2>2. f[N] \in Decodings
        BY <1>7 DEF SpeltTo
    <2>3. X \in Seq(Nat)
        BY <2>2, <1>3 DEF Decodings
    <2> QED BY <2>1, <2>3, <1>3, <1>7 DEF SpeltTo
<1>9. Spelled(s) = [n \in 1..M |-> s[CHOOSE t \in Fresh(s) : C(t) = n]]
    BY DEF Spelled, Fresh, FreshCount, FreshTo
<1> HIDE DEF X, C, M, T, N
<1>10. \A n \in 1..M : X[n] = s[CHOOSE t \in Fresh(s) : C(t) = n]
    <2> SUFFICES ASSUME NEW n \in 1..M PROVE X[n] = s[CHOOSE t \in Fresh(s) : C(t) = n]
        OBVIOUS
    <2> DEFINE t == CHOOSE t \in Fresh(s) : C(t) = n
    <2>1. t \in Fresh(s) /\ C(t) = n
        BY <1>8
    <2> HIDE DEF t
    <2>2. X[n] = s[t]
        BY <2>1, <1>8
    <2> QED BY <2>2 DEF t
<1>11. X = [n \in 1..M |-> X[n]]
    BY <1>8
<1>12. X = Spelled(s)
    BY <1>9, <1>10, <1>11
<1> QED BY <1>8, <1>12 DEF X

LEMMA OccursIs ==
    ASSUME NEW s \in Seq(Nat), NEW t \in Seq(Nat)
    PROVE  Occurs(s, t) <=> \E i \in 0..Len(t) - Len(s) : \A j \in 1..Len(s) : t[i + j] = s[j]
<1> DEFINE N == Len(s)
           M == Len(t)
<1>1. N \in Nat /\ M \in Nat
    OBVIOUS
<1>2. ASSUME NEW i \in 0..M - N
      PROVE  SubSeq(t, i + 1, i + N) = s <=> \A j \in 1..N : t[i + j] = s[j]
    <2>1. /\ SubSeq(t, i + 1, i + N) \in Seq(Nat) /\ Len(SubSeq(t, i + 1, i + N)) = N
          /\ \A j \in 1..N : SubSeq(t, i + 1, i + N)[j] = t[i + j]
        <3>1. i \in Nat /\ i + N <= M
            BY <1>1
        <3>2. SubSeq(t, i + 1, i + N) = [j \in 1..N |-> t[i + j]]
            BY <3>1, <1>1
        <3>3. \A j \in 1..N : t[i + j] \in Nat
            <4> SUFFICES ASSUME NEW j \in 1..N PROVE t[i + j] \in Nat
                OBVIOUS
            <4>1. i + j \in 1..M
                BY <3>1, <1>1
            <4> QED BY <4>1
        <3>4. [j \in 1..N |-> t[i + j]] \in Seq(Nat) /\ Len([j \in 1..N |-> t[i + j]]) = N
            BY <3>3, <1>1
        <3> QED BY <3>2, <3>4
    <2> DEFINE u == SubSeq(t, i + 1, i + N)
    <2> HIDE DEF u
    <2>2. u \in Seq(Nat) /\ Len(u) = N /\ \A j \in 1..N : u[j] = t[i + j]
        BY <2>1 DEF u
    <2>3. (\A j \in 1..N : t[i + j] = s[j]) => u = s
        <3> SUFFICES ASSUME \A j \in 1..N : t[i + j] = s[j] PROVE u = s
            OBVIOUS
        <3>1. \A j \in 1..Len(u) : u[j] = s[j]
            BY <2>2
        <3> QED BY <3>1, <2>2, SameSequence
    <2>4. u = s => \A j \in 1..N : t[i + j] = s[j]
        BY <2>2
    <2> QED BY <2>3, <2>4 DEF u
<1> QED BY <1>2 DEF Occurs

(* What occurs in a part of a text occurs in the text.                     *)
LEMMA OccursWithin ==
    ASSUME NEW s \in Seq(Nat), NEW t \in Seq(Nat), NEW u \in Seq(Nat), Occurs(s, t)
    PROVE  Occurs(s, u \o t) /\ Occurs(s, t \o u)
<1> DEFINE N == Len(s)
           M == Len(t)
           K == Len(u)
<1>1. N \in Nat /\ M \in Nat /\ K \in Nat
    OBVIOUS
<1>2. PICK i \in 0..M - N : \A j \in 1..N : t[i + j] = s[j]
    BY OccursIs
<1>3. i \in Nat /\ i + N <= M /\ \A j \in 1..N : i + j \in 1..M /\ j \in Nat
    BY <1>1
<1>4. /\ u \o t \in Seq(Nat) /\ Len(u \o t) = K + M /\ \A j \in 1..M : (u \o t)[K + j] = t[j]
      /\ t \o u \in Seq(Nat) /\ Len(t \o u) = M + K /\ \A j \in 1..M : (t \o u)[j] = t[j]
    BY ConcatElements
<1> HIDE DEF N, M, K
<1>5. Occurs(s, u \o t)
    <2>1. K + i \in 0..Len(u \o t) - N
        BY <1>1, <1>3, <1>4
    <2>2. \A j \in 1..N : (u \o t)[(K + i) + j] = s[j]
        <3> SUFFICES ASSUME NEW j \in 1..N PROVE (u \o t)[(K + i) + j] = s[j]
            OBVIOUS
        <3>1. (K + i) + j = K + (i + j) /\ i + j \in 1..M
            BY <1>1, <1>3
        <3> QED BY <3>1, <1>2, <1>4
    <2>3. \E n \in 0..Len(u \o t) - N : \A j \in 1..N : (u \o t)[n + j] = s[j]
        BY <2>1, <2>2
    <2> QED BY <2>3, <1>4, OccursIs DEF N
<1>6. Occurs(s, t \o u)
    <2>1. i \in 0..Len(t \o u) - N
        BY <1>1, <1>3, <1>4
    <2>2. \A j \in 1..N : (t \o u)[i + j] = s[j]
        BY <1>2, <1>3, <1>4
    <2>3. \E n \in 0..Len(t \o u) - N : \A j \in 1..N : (t \o u)[n + j] = s[j]
        BY <2>1, <2>2
    <2> QED BY <2>3, <1>4, OccursIs DEF N
<1> QED BY <1>5, <1>6

LEMMA OccursInNone ==
    ASSUME NEW s \in Seq(Nat), NEW t \in Seq(Nat), Occurs(s, <<>>)
    PROVE  Occurs(s, t)
<1>1. <<>> \in Seq(Nat) /\ Len(<<>>) = 0 /\ Len(s) \in Nat /\ Len(t) \in Nat
    OBVIOUS
<1>2. PICK i \in 0..0 - Len(s) : TRUE
    BY <1>1, OccursIs
<1>3. Len(s) = 0
    BY <1>1, <1>2
<1>4. 0 \in 0..Len(t) - Len(s) /\ \A j \in 1..Len(s) : t[0 + j] = s[j]
    BY <1>1, <1>3
<1> QED BY <1>4, OccursIs

-----------------------------------------------------------------------------
(* Results of the recognizer: what was decoded of what the region showed.  *)
ResultsHold ==
    /\ IsFiniteSet(DOMAIN readings) /\ readings = [b \in DOMAIN readings |-> readings[b]]
    /\ \A b \in DOMAIN readings :
         /\ readings[b].shown \in Seq(Nat) /\ readings[b].text = CtcDecode(readings[b].shown)
         /\ readings[b].confidence \in 0..100

LEMMA ResultIs ==
    ASSUME ResultsHold, NEW b \in DOMAIN readings
    PROVE  /\ readings[b].text \in Seq(Nat) /\ readings[b].text = Spelled(readings[b].shown)
           /\ readings[b].confidence \in Nat
<1> DEFINE r == readings[b]
<1>1. r.shown \in Seq(Nat) /\ r.text = CtcDecode(r.shown) /\ r.confidence \in 0..100
    BY DEF ResultsHold
<1> HIDE DEF r
<1>2. CtcDecode(r.shown) \in Seq(Nat) /\ CtcDecode(r.shown) = Spelled(r.shown)
    BY <1>1, DecodedIsSpelled
<1>3. r.confidence \in Nat
    <2> DEFINE c == r.confidence
    <2>1. c \in 0..100
        BY <1>1
    <2> HIDE DEF c
    <2>2. c \in Nat
        BY <2>1
    <2> QED BY <2>2 DEF c
<1> QED BY <1>1, <1>2, <1>3 DEF r

LEMMA OrderIs ==
    ASSUME ResultsHold, NEW order \in Orders(DOMAIN readings)
    PROVE  /\ Len(order) \in Nat /\ \A n \in 1..Len(order) : order[n] \in DOMAIN readings
           /\ \A b \in DOMAIN readings : \E n \in 1..Len(order) : order[n] = b
<1> DEFINE S == DOMAIN readings
           N == Cardinality(S)
<1>1. N \in Nat
    BY FS_CardinalityType DEF ResultsHold
<1>2. order \in [1..N -> S] /\ Range(order) = S
    BY DEF Orders
<1> HIDE DEF S, N
<1>3. Len(order) = N /\ DOMAIN order = 1..N /\ \A n \in 1..N : order[n] \in S
    BY <1>1, <1>2
<1>4. \A b \in S : \E n \in 1..N : order[n] = b
    BY <1>2, <1>3 DEF Range
<1> QED BY <1>1, <1>3, <1>4 DEF S

(* The texts joined in an order.                                           *)
JoinedSpellings(v, t) == IF v = <<>> THEN t ELSE v \o <<0>> \o t
Concats(f, order) ==
    /\ \A n \in 0..Len(order) : f[n] \in Seq(Nat)
    /\ f[0] = <<>>
    /\ \A n \in 1..Len(order) : f[n] = JoinedSpellings(f[n - 1], readings[order[n]].text)
    /\ Combined(order) = f[Len(order)]

LEMMA ConcatsExist ==
    ASSUME ResultsHold, NEW order \in Orders(DOMAIN readings)
    PROVE  \E f : Concats(f, order)
<1> DEFINE N    == Len(order)
           base == <<>>
           Step(n, v) == IF v = <<>> THEN readings[order[n]].text ELSE v \o <<0>> \o readings[order[n]].text
           step == [p \in (0 + 1..N) \X Seq(Nat) |-> Step(p[1], p[2])]
           F(f) == [n \in 0..N |->
                      IF n = 0 THEN base
                      ELSE IF f[n - 1] = <<>> THEN readings[order[n]].text
                      ELSE f[n - 1] \o <<0>> \o readings[order[n]].text]
           f    == CHOOSE g : g = F(g)
<1>0. Combined(order) = f[N]
    BY DEF Combined
<1>1. N \in Nat /\ N \in Int /\ 0 \in Int /\ 0 <= N
    BY OrderIs
<1>2. base \in Seq(Nat)
    OBVIOUS
<1>3. ASSUME NEW n \in 1..N, NEW v \in Seq(Nat) PROVE Step(n, v) \in Seq(Nat)
    <2> DEFINE t == readings[order[n]].text
    <2>1. t \in Seq(Nat)
        <3>1. order[n] \in DOMAIN readings
            BY OrderIs
        <3> QED BY <3>1, ResultIs
    <2> HIDE DEF t
    <2>2. <<0>> \in Seq(Nat)
        OBVIOUS
    <2>3. v \o <<0>> \in Seq(Nat)
        BY <2>2, ConcatElements
    <2>4. (v \o <<0>>) \o t \in Seq(Nat)
        BY <2>1, <2>3, ConcatElements
    <2> QED BY <2>1, <2>4 DEF t
<1>3a. \A g : F(g) = [n \in 0..N |-> IF n = 0 THEN base ELSE Step(n, g[n - 1])]
    OBVIOUS
<1> HIDE DEF base, Step
<1>4. step \in [(0 + 1..N) \X Seq(Nat) -> Seq(Nat)]
    <2> HIDE DEF N
    <2>1. 0 + 1..N = 1..N
        BY <1>1
    <2> QED BY <2>1, <1>3
<1>5. PICK g \in [0..N -> Seq(Nat)] : Recursion(g, 0, N, base, step)
    <2> HIDE DEF N, step, F, f
    <2> QED BY <1>1, <1>2, <1>4, RecursionExists
<1>6. g[0] = base
    BY <1>5 DEF Recursion
<1>7. ASSUME NEW n \in 1..N PROVE g[n] = Step(n, g[n - 1])
    <2>1. n \in 0 + 1..N /\ n - 1 \in 0..N
        BY <1>1
    <2>2. <<n, g[n - 1]>> \in (0 + 1..N) \X Seq(Nat) /\ g[n] = step[<<n, g[n - 1]>>]
        <3> HIDE DEF step, N
        <3> QED BY <2>1, <1>5 DEF Recursion
    <2> HIDE DEF N
    <2>3. step[<<n, g[n - 1]>>] = Step(n, g[n - 1])
        BY <2>2
    <2> HIDE DEF step
    <2> QED BY <2>2, <2>3
<1>8. g = F(g)
    <2> HIDE DEF step, N
    <2>1. \A n \in 0..N : g[n] = F(g)[n]
        <3> SUFFICES ASSUME NEW n \in 0..N PROVE g[n] = F(g)[n]
            OBVIOUS
        <3>0. F(g)[n] = IF n = 0 THEN base ELSE Step(n, g[n - 1])
            <4> HIDE DEF F
            <4> QED BY <1>3a
        <3> HIDE DEF F
        <3>1. CASE n = 0
            BY <1>6, <3>0, <3>1
        <3>2. CASE n # 0
            <4>1. n \in 1..N
                BY <1>1, <3>2
            <4> QED BY <1>7, <3>0, <3>2, <4>1
        <3> QED BY <3>1, <3>2
    <2>2. DOMAIN F(g) = 0..N /\ F(g) = [n \in 0..N |-> F(g)[n]]
        OBVIOUS
    <2> HIDE DEF F
    <2> QED BY <1>5, <2>1, <2>2
<1>9. f = F(f)
    <2> HIDE DEF F
    <2> QED BY <1>8
<1> HIDE DEF f
<1>9a. \A n \in 0..N : f[n] = IF n = 0 THEN base ELSE Step(n, f[n - 1])
    <2> SUFFICES ASSUME NEW n \in 0..N PROVE f[n] = IF n = 0 THEN base ELSE Step(n, f[n - 1])
        OBVIOUS
    <2>1. F(f)[n] = IF n = 0 THEN base ELSE Step(n, f[n - 1])
        <3> HIDE DEF F
        <3> QED BY <1>3a
    <2> HIDE DEF F
    <2> QED BY <2>1, <1>9
<1> HIDE DEF F
<1>10. f[0] = base
    <2> HIDE DEF N
    <2> QED BY <1>1, <1>9a
<1>11. ASSUME NEW n \in 1..N PROVE f[n] = Step(n, f[n - 1])
    <2>1. n \in 0..N /\ n # 0
        BY <1>1
    <2> HIDE DEF N
    <2> QED BY <1>9a, <2>1
<1>12. \A n \in 0..N : f[n] \in Seq(Nat)
    <2> DEFINE T == {n \in 0..N : f[n] \in Seq(Nat)}
    <2>1. 0 \in T
        <3> HIDE DEF N
        <3> QED BY <1>1, <1>2, <1>10
    <2>2. ASSUME NEW n \in 0..N - 1, n \in T PROVE n + 1 \in T
        <3>1. n + 1 \in 1..N /\ n + 1 \in 0..N /\ (n + 1) - 1 = n /\ f[n] \in Seq(Nat)
            BY <2>2, <1>1
        <3> HIDE DEF N
        <3>2. f[n + 1] = Step(n + 1, f[n])
            BY <3>1, <1>11
        <3> QED BY <3>1, <3>2, <1>3
    <2>3. 0..N \subseteq T
        <3> HIDE DEF T, N
        <3> QED BY <1>1, <2>1, <2>2, IntervalInduction
    <2> QED BY <2>3
<1>13. Concats(f, order)
    BY <1>0, <1>10, <1>11, <1>12 DEF Concats, JoinedSpellings, Step, base
<1> QED BY <1>13

(* What occurs in one result occurs in all of them together.               *)
LEMMA CombinedHolds ==
    ASSUME ResultsHold, NEW order \in Orders(DOMAIN readings), NEW b \in DOMAIN readings,
           NEW s \in Seq(Nat), Occurs(s, readings[b].text)
    PROVE  Occurs(s, Combined(order))
<1> DEFINE N == Len(order)
           Text(n) == readings[order[n]].text
<1>1. N \in Nat /\ N \in Int /\ 0 \in Int /\ \A n \in 1..N : order[n] \in DOMAIN readings
    BY OrderIs
<1>2. PICK f : Concats(f, order)
    BY ConcatsExist
<1>3. /\ \A n \in 0..N : f[n] \in Seq(Nat)
      /\ \A n \in 1..N : f[n] = JoinedSpellings(f[n - 1], Text(n))
      /\ Combined(order) = f[N]
    BY <1>2 DEF Concats
<1>4. \A n \in 1..N : Text(n) \in Seq(Nat)
    BY <1>1, ResultIs
<1>5. PICK m \in 1..N : order[m] = b
    BY OrderIs
<1>6. Occurs(s, Text(m)) /\ m \in Int /\ m <= N
    BY <1>1, <1>5
<1> HIDE DEF Text, N
<1> DEFINE T == {n \in m..N : Occurs(s, f[n])}
<1>7. m \in T
    <2>1. m \in 1..N /\ m - 1 \in 0..N /\ m \in m..N
        BY <1>1, <1>6
    <2> DEFINE v == f[m - 1]
               t == Text(m)
    <2>2. v \in Seq(Nat) /\ t \in Seq(Nat) /\ f[m] = JoinedSpellings(v, t) /\ Occurs(s, t)
        BY <2>1, <1>3, <1>4, <1>6
    <2> HIDE DEF v, t
    <2>3. <<0>> \in Seq(Nat)
        OBVIOUS
    <2>4. v \o <<0>> \in Seq(Nat)
        BY <2>2, <2>3, ConcatElements
    <2>5. Occurs(s, (v \o <<0>>) \o t)
        BY <2>2, <2>4, OccursWithin
    <2>6. Occurs(s, f[m])
        BY <2>2, <2>5 DEF JoinedSpellings
    <2> QED BY <2>1, <2>6
<1>8. ASSUME NEW n \in m..N - 1, n \in T PROVE n + 1 \in T
    <2>1. n + 1 \in 1..N /\ n + 1 \in m..N /\ (n + 1) - 1 = n /\ n \in 0..N
        BY <1>1, <1>6
    <2> DEFINE v == f[n]
               t == Text(n + 1)
    <2>2. v \in Seq(Nat) /\ t \in Seq(Nat) /\ f[n + 1] = JoinedSpellings(v, t) /\ Occurs(s, v)
        BY <2>1, <1>3, <1>4, <1>8
    <2> HIDE DEF v, t
    <2>3. <<0>> \in Seq(Nat)
        OBVIOUS
    <2>4. CASE v = <<>>
        <3>1. Occurs(s, t)
            BY <2>2, <2>4, OccursInNone
        <3>2. f[n + 1] = t
            BY <2>2, <2>4 DEF JoinedSpellings
        <3> QED BY <3>1, <3>2, <2>1
    <2>5. CASE v # <<>>
        <3>1. v \o <<0>> \in Seq(Nat) /\ Occurs(s, v \o <<0>>)
            BY <2>2, <2>3, ConcatElements, OccursWithin
        <3>2. Occurs(s, (v \o <<0>>) \o t)
            BY <3>1, <2>2, OccursWithin
        <3>3. f[n + 1] = (v \o <<0>>) \o t
            BY <2>2, <2>5 DEF JoinedSpellings
        <3> QED BY <3>2, <3>3, <2>1
    <2> QED BY <2>4, <2>5
<1>9. m..N \subseteq T
    <2> HIDE DEF T
    <2> QED BY <1>1, <1>6, <1>7, <1>8, IntervalInduction
<1>10. N \in T
    BY <1>1, <1>6, <1>9
<1> QED BY <1>3, <1>10

(* The sum of the confidences in an order.                                 *)
AddsReading(f, order) ==
    /\ \A n \in 0..Len(order) : f[n] \in Nat
    /\ f[0] = 0
    /\ \A n \in 1..Len(order) : f[n] = f[n - 1] + readings[order[n]].confidence
    /\ LowConfidence(order) <=> Len(order) # 0 /\ f[Len(order)] < 80 * Len(order)

LEMMA ReadingsExist ==
    ASSUME ResultsHold, NEW order \in Orders(DOMAIN readings)
    PROVE  \E f : AddsReading(f, order)
<1> DEFINE N    == Len(order)
           base == 0
           Step(n, v) == v + readings[order[n]].confidence
           step == [p \in (0 + 1..N) \X Nat |-> Step(p[1], p[2])]
           F(f) == [n \in 0..N |-> IF n = 0 THEN base ELSE Step(n, f[n - 1])]
           f    == CHOOSE g : g = F(g)
<1>0. LowConfidence(order) <=> Len(order) # 0 /\ f[N] < 80 * Len(order)
    BY DEF LowConfidence
<1>1. N \in Nat /\ N \in Int /\ 0 \in Int /\ 0 <= N
    BY OrderIs
<1>2. base \in Nat
    OBVIOUS
<1>3. ASSUME NEW n \in 1..N, NEW v \in Nat PROVE Step(n, v) \in Nat
    <2>1. order[n] \in DOMAIN readings
        BY OrderIs
    <2>2. readings[order[n]].confidence \in Nat
        BY <2>1, ResultIs
    <2> QED BY <2>2
<1> HIDE DEF base, Step
<1>4. step \in [(0 + 1..N) \X Nat -> Nat]
    <2> HIDE DEF N
    <2>1. 0 + 1..N = 1..N
        BY <1>1
    <2> QED BY <2>1, <1>3
<1>5. PICK g \in [0..N -> Nat] : Recursion(g, 0, N, base, step)
    <2> HIDE DEF N, step, F, f
    <2> QED BY <1>1, <1>2, <1>4, RecursionExists
<1>6. g[0] = base
    BY <1>5 DEF Recursion
<1>7. ASSUME NEW n \in 1..N PROVE g[n] = Step(n, g[n - 1])
    <2>1. n \in 0 + 1..N /\ n - 1 \in 0..N
        BY <1>1
    <2>2. <<n, g[n - 1]>> \in (0 + 1..N) \X Nat /\ g[n] = step[<<n, g[n - 1]>>]
        <3> HIDE DEF step, N
        <3> QED BY <2>1, <1>5 DEF Recursion
    <2> HIDE DEF N
    <2>3. step[<<n, g[n - 1]>>] = Step(n, g[n - 1])
        BY <2>2
    <2> HIDE DEF step
    <2> QED BY <2>2, <2>3
<1>8. g = F(g)
    <2> HIDE DEF step, N
    <2>1. \A n \in 0..N : g[n] = F(g)[n]
        <3> SUFFICES ASSUME NEW n \in 0..N PROVE g[n] = F(g)[n]
            OBVIOUS
        <3>1. CASE n = 0
            BY <1>6, <3>1
        <3>2. CASE n # 0
            <4>1. n \in 1..N
                BY <1>1, <3>2
            <4> QED BY <1>7, <3>2, <4>1
        <3> HIDE DEF F
        <3> QED BY <3>1, <3>2
    <2> QED BY <1>5, <2>1
<1>9. f = F(f)
    <2> HIDE DEF F
    <2> QED BY <1>8
<1> HIDE DEF f
<1>10. f[0] = base
    <2> HIDE DEF N
    <2> QED BY <1>1, <1>9
<1>11. ASSUME NEW n \in 1..N PROVE f[n] = Step(n, f[n - 1])
    <2>1. n \in 0..N /\ n # 0
        BY <1>1
    <2> HIDE DEF N
    <2> QED BY <1>9, <2>1
<1>12. \A n \in 0..N : f[n] \in Nat
    <2> DEFINE T == {n \in 0..N : f[n] \in Nat}
    <2>1. 0 \in T
        <3> HIDE DEF N
        <3> QED BY <1>1, <1>2, <1>10
    <2>2. ASSUME NEW n \in 0..N - 1, n \in T PROVE n + 1 \in T
        <3>1. n + 1 \in 1..N /\ n + 1 \in 0..N /\ (n + 1) - 1 = n /\ f[n] \in Nat
            BY <2>2, <1>1
        <3> HIDE DEF N
        <3>2. f[n + 1] = Step(n + 1, f[n])
            BY <3>1, <1>11
        <3> QED BY <3>1, <3>2, <1>3
    <2>3. 0..N \subseteq T
        <3> HIDE DEF T, N
        <3> QED BY <1>1, <2>1, <2>2, IntervalInduction
    <2> QED BY <2>3
<1>13. AddsReading(f, order)
    BY <1>0, <1>10, <1>11, <1>12 DEF AddsReading, Step, base
<1> QED BY <1>13

(* When no result is sure, their average is not.                           *)
LEMMA ConfidenceIsOfOne ==
    ASSUME ResultsHold, NEW order \in Orders(DOMAIN readings), ~LowConfidence(order)
    PROVE  readings = <<>> \/ \E b \in DOMAIN readings : readings[b].confidence >= 80
<1> SUFFICES ASSUME \A b \in DOMAIN readings : readings[b].confidence < 80
             PROVE  readings = <<>>
    <2>1. \A b \in DOMAIN readings : readings[b].confidence \in Int
        BY ResultIs
    <2> QED BY <2>1
<1> DEFINE N == Len(order)
           SureOf(n) == readings[order[n]].confidence
<1>1. N \in Nat /\ N \in Int /\ 0 \in Int
    BY OrderIs
<1>2. \A n \in 1..N : SureOf(n) \in Nat /\ SureOf(n) < 80
    <2> SUFFICES ASSUME NEW n \in 1..N PROVE SureOf(n) \in Nat /\ SureOf(n) < 80
        OBVIOUS
    <2>1. order[n] \in DOMAIN readings
        BY OrderIs
    <2> QED BY <2>1, ResultIs
<1>3. PICK f : AddsReading(f, order)
    BY ReadingsExist
<1>4. /\ \A n \in 0..N : f[n] \in Nat
      /\ f[0] = 0 /\ \A n \in 1..N : f[n] = f[n - 1] + SureOf(n)
      /\ LowConfidence(order) <=> N # 0 /\ f[N] < 80 * N
    BY <1>3 DEF AddsReading
<1> HIDE DEF SureOf, N
<1> DEFINE T == {n \in 0..N : f[n] <= 79 * n}
<1>5. 0 \in T
    BY <1>1, <1>4
<1>6. ASSUME NEW n \in 0..N - 1, n \in T PROVE n + 1 \in T
    <2>1. n + 1 \in 1..N /\ n + 1 \in 0..N /\ (n + 1) - 1 = n /\ n \in 0..N /\ n \in Nat
        BY <1>1
    <2> DEFINE x == f[n]
               y == f[n + 1]
               z == SureOf(n + 1)
    <2>2. y = x + z /\ x \in Nat /\ x <= 79 * n /\ z \in Nat /\ z < 80
        BY <2>1, <1>2, <1>4, <1>6
    <2> HIDE DEF x, y, z
    <2>3. y <= 79 * (n + 1)
        BY <2>1, <2>2
    <2> QED BY <2>1, <2>3 DEF y
<1>7. 0..N \subseteq T
    <2> HIDE DEF T
    <2> QED BY <1>1, <1>5, <1>6, IntervalInduction
<1>8. N = 0
    <2>1. N \in 0..N
        BY <1>1
    <2>2. f[N] <= 79 * N /\ f[N] \in Nat
        BY <2>1, <1>4, <1>7
    <2> QED BY <2>2, <1>1, <1>4
<1>9. DOMAIN readings = {}
    <2>1. \A b \in DOMAIN readings : \E n \in 1..N : order[n] = b
        BY OrderIs DEF N
    <2> QED BY <2>1, <1>8
<1>10. readings = [b \in {} |-> readings[b]]
    BY <1>9 DEF ResultsHold
<1>11. <<>> = [b \in {} |-> readings[b]]
    <2>1. <<>> = [b \in 1..0 |-> readings[b]]
        OBVIOUS
    <2>2. 1..0 = {}
        OBVIOUS
    <2> QED BY <2>1, <2>2
<1> QED BY <1>10, <1>11

(* The boxes of the patches: what CollectRegions has to find.              *)
PatchBoxes == {Box(k) : k \in Patches}

(* What the text phase may leave behind.                                   *)
TextShown ==
    /\ \/ \A k \in Patches : PixelsOf(k) \subseteq hidden
       \/ /\ ocrTier = "full_recognition"
          /\ \A b \in DOMAIN readings :
                \A s \in Secrets : ~Occurs(s, Spelled(readings[b].shown))
          /\ \/ readings = <<>>
             \/ \E b \in DOMAIN readings : readings[b].confidence >= 80
    /\ hidden \subseteq UNION {Around(k) : k \in Patches}

(* The invariant: the labels are those of the patches when they are used,  *)
(* the regions are their boxes, and the results are what was spelled.      *)
TextTypes ==
    /\ imageSize \in Sizes
    /\ probMap \in [Cells2D -> {"none", "faint", "clear"}]
    /\ cellLabel \in [Cells2D -> Nat] /\ parents \in Tables
    /\ \A c \in Cells2D : cellLabel[c] <= Len(parents)
    /\ textRegions \subseteq Regions
    /\ ocrTier \in {"detect_and_fill", "full_recognition"}
    /\ ocrStage \in OcrStages
    /\ DOMAIN readings \subseteq textRegions
    /\ hidden \subseteq (0..imageSize[1] - 1) \X (0..imageSize[2] - 1)
TextInv ==
    /\ TextTypes
    /\ ocrStage \in {"prefilter", "label"} =>
         cellLabel = [c \in Cells2D |-> 0] /\ parents = <<>>
    /\ ocrStage \in {"prefilter", "label", "collect", "read"} => readings = <<>>
    /\ ocrStage # "done" => hidden = {}
    /\ ocrStage = "collect" => LabelledTo([label |-> cellLabel, table |-> parents], Len(Raster))
    /\ ocrStage \in {"read", "decide", "fill", "done"} => textRegions = PatchBoxes
    /\ ocrStage \in {"read", "decide"} => ocrTier = "full_recognition"
    /\ ocrStage = "decide" => ResultsHold
    /\ ocrStage = "done" => TextShown

\* The facts of the types, one by one: cited with nothing to expand.
LEMMA TypesAre ==
    ASSUME TextInv
    PROVE  /\ imageSize \in Sizes
           /\ probMap \in [Cells2D -> {"none", "faint", "clear"}]
           /\ cellLabel \in [Cells2D -> Nat] /\ parents \in Tables
           /\ \A c \in Cells2D : cellLabel[c] <= Len(parents)
           /\ textRegions \subseteq Regions
           /\ ocrTier \in {"detect_and_fill", "full_recognition"}
           /\ ocrStage \in OcrStages
           /\ DOMAIN readings \subseteq textRegions
           /\ hidden \subseteq (0..imageSize[1] - 1) \X (0..imageSize[2] - 1)
BY DEF TextInv, TextTypes

(* Patches, their boxes, and their pixels.                                 *)
LEMMA PatchesAre ==
    /\ IsFiniteSet(Patches)
    /\ \A k \in Patches : Box(k) \in MapBoxes
    /\ PatchBoxes \subseteq Regions /\ IsFiniteSet(PatchBoxes)
<1>1. ASSUME NEW c \in Marked PROVE PatchOf(c) \in SUBSET Marked /\ PatchOf(c) # {}
    <2>1. PatchOf(c) = {d \in Marked : LinkedCells(c, d)}
        BY PatchIs
    <2>2. LinkedCells(c, c)
        BY LinkedIs
    <2> QED BY <2>1, <2>2
<1>2. Patches \in SUBSET (SUBSET Marked) /\ \A k \in Patches : k # {}
    BY <1>1 DEF Patches
<1>3. IsFiniteSet(Patches)
    <2>1. IsFiniteSet(SUBSET Marked)
        BY MarkedIs, FS_SUBSET
    <2> QED BY <2>1, <1>2, FS_Subset
<1>4. \A k \in Patches : Box(k) \in MapBoxes
    <2> SUFFICES ASSUME NEW k \in Patches PROVE Box(k) \in MapBoxes
        OBVIOUS
    <2>1. k \in SUBSET Cells2D /\ k # {}
        BY <1>2, MarkedIs
    <2> QED BY <2>1, PatchBoxIs
<1>5. PatchBoxes \subseteq Regions
    BY <1>4 DEF PatchBoxes, MapBoxes
<1>6. IsFiniteSet(PatchBoxes)
    <2> DEFINE f == [k \in Patches |-> Box(k)]
    <2>1. f \in Surjection(Patches, PatchBoxes)
        BY DEF Surjection, PatchBoxes
    <2> HIDE DEF f
    <2> QED BY <2>1, <1>3, FS_Surjection
<1> QED BY <1>3, <1>4, <1>5, <1>6

-----------------------------------------------------------------------------
LEMMA TextInit == OcrInit => TextInv
<1> SUFFICES ASSUME OcrInit PROVE TextInv
    OBVIOUS
<1>1. /\ imageSize \in Sizes
      /\ probMap \in [Cells2D -> {"none", "faint", "clear"}]
    BY DEF OcrInit
<1>2. /\ cellLabel = [c \in Cells2D |-> 0] /\ parents = <<>>
      /\ textRegions = {} /\ ocrTier \in {"detect_and_fill", "full_recognition"}
      /\ ocrStage = "prefilter" /\ readings = <<>> /\ hidden = {}
    BY DEF OcrInit
<1>3. parents \in Tables /\ Len(parents) = 0
    BY <1>2 DEF Tables
<1>4. cellLabel \in [Cells2D -> Nat] /\ \A c \in Cells2D : cellLabel[c] <= Len(parents)
    BY <1>2, <1>3
<1>5. DOMAIN readings = {}
    BY <1>2
<1>6. TextTypes
    BY <1>1, <1>2, <1>3, <1>4, <1>5 DEF TextTypes, OcrStages
<1> QED BY <1>2, <1>6 DEF TextInv

\* What is about variables that a step leaves alone stays.
LEMMA PatchesStay ==
    ASSUME probMap' = probMap
    PROVE  Marked' = Marked /\ Patches' = Patches /\ PatchBoxes' = PatchBoxes
<1>1. Marked' = Marked
    BY DEF Marked
<1>2. Patches' = Patches
    BY <1>1 DEF Patches, PatchOf, HasClear
<1> QED BY <1>1, <1>2 DEF PatchBoxes

LEMMA PixelsStay ==
    ASSUME imageSize' = imageSize
    PROVE  \A k : Around(k)' = Around(k) /\ PixelsOf(k)' = PixelsOf(k)
BY DEF Around, PixelsOf, PaddedTop, PaddedBottom

LEMMA TextStutters ==
    ASSUME TextInv, UNCHANGED ocrVars
    PROVE  TextInv'
<1>1. /\ imageSize' = imageSize /\ probMap' = probMap /\ cellLabel' = cellLabel
      /\ parents' = parents /\ textRegions' = textRegions /\ ocrTier' = ocrTier
      /\ ocrStage' = ocrStage /\ readings' = readings /\ hidden' = hidden
    BY DEF ocrVars
<1>2. TextTypes'
    BY <1>1 DEF TextInv, TextTypes
<1>3. PatchBoxes' = PatchBoxes /\ Patches' = Patches /\ Marked' = Marked
    BY <1>1, PatchesStay
<1>4. ocrStage = "collect" => LabelledTo([label |-> cellLabel, table |-> parents], Len(Raster))'
    BY <1>1, <1>3 DEF TextInv, LabelledTo, RootAt, LinkedCells, ClosedBeside
<1>5. ocrStage = "decide" => ResultsHold'
    BY <1>1 DEF TextInv, ResultsHold
<1>6. ocrStage = "done" => TextShown'
    <2> SUFFICES ASSUME ocrStage = "done" PROVE TextShown'
        OBVIOUS
    <2>1. TextShown
        BY DEF TextInv
    <2>2. UNION {Around(k) : k \in Patches}' = UNION {Around(k) : k \in Patches}
        BY <1>1, <1>3, PixelsStay
    <2>3. (\A k \in Patches : PixelsOf(k) \subseteq hidden)' <=> \A k \in Patches : PixelsOf(k) \subseteq hidden
        BY <1>1, <1>3, PixelsStay
    <2> QED BY <1>1, <2>1, <2>2, <2>3 DEF TextShown
<1> QED BY <1>1, <1>2, <1>3, <1>4, <1>5, <1>6 DEF TextInv

\* A step to a stage that asks for nothing more.
LEMMA StageOnly ==
    ASSUME TextInv, ocrStage' \in OcrStages, ocrStage # "done",
           UNCHANGED <<imageSize, probMap, cellLabel, parents, textRegions, ocrTier, readings, hidden>>,
           ocrStage' \in {"prefilter", "label"} => ocrStage \in {"prefilter", "label"},
           ocrStage' \notin {"collect", "read", "decide", "fill", "done"}
    PROVE  TextInv'
<1>1. /\ imageSize' = imageSize /\ probMap' = probMap /\ cellLabel' = cellLabel
      /\ parents' = parents /\ textRegions' = textRegions /\ ocrTier' = ocrTier
      /\ readings' = readings /\ hidden' = hidden
    OBVIOUS
<1>2. TextTypes'
    BY <1>1 DEF TextInv, TextTypes
<1>3. ocrStage' \in {"prefilter", "label"} => (cellLabel = [c \in Cells2D |-> 0] /\ parents = <<>>)' /\ readings' = <<>>
    BY <1>1 DEF TextInv
<1>4. hidden' = {}
    BY <1>1 DEF TextInv
<1> QED BY <1>2, <1>3, <1>4 DEF TextInv

LEMMA PrefilterStep == ASSUME TextInv, Prefilter PROVE TextInv'
<1>1. /\ ocrStage = "prefilter" /\ ocrStage' \in {"label", "skipped"}
      /\ UNCHANGED <<imageSize, probMap, cellLabel, parents, textRegions, ocrTier, readings, hidden>>
    BY DEF Prefilter
<1>2. ocrStage' \in OcrStages
    BY <1>1 DEF OcrStages
<1> QED BY <1>1, <1>2, StageOnly

LEMMA DetectorFailsStep == ASSUME TextInv, DetectorFails PROVE TextInv'
<1>1. /\ ocrStage = "label" /\ ocrStage' = "failed"
      /\ UNCHANGED <<imageSize, probMap, cellLabel, parents, textRegions, ocrTier, readings, hidden>>
    BY DEF DetectorFails
<1>2. ocrStage' \in OcrStages
    BY <1>1 DEF OcrStages
<1> QED BY <1>1, <1>2, StageOnly

LEMMA RecognizerFailsStep == ASSUME TextInv, RecognizerFails PROVE TextInv'
<1>1. /\ ocrStage = "read" /\ ocrStage' = "failed"
      /\ UNCHANGED <<imageSize, probMap, cellLabel, parents, textRegions, ocrTier, readings, hidden>>
    BY DEF RecognizerFails
<1>2. ocrStage' \in OcrStages
    BY <1>1 DEF OcrStages
<1> QED BY <1>1, <1>2, StageOnly

LEMMA LabelStep == ASSUME TextInv, LabelComponents PROVE TextInv'
<1> DEFINE v == Labelling
           l == cellLabel'
           t == parents'
<1>1. /\ ocrStage = "label" /\ ocrStage' = "collect" /\ l = v.label /\ t = v.table
      /\ imageSize' = imageSize /\ probMap' = probMap /\ textRegions' = textRegions
      /\ ocrTier' = ocrTier /\ readings' = readings /\ hidden' = hidden
    BY DEF LabelComponents
<1>2. v \in Boards /\ LabelledTo(v, Len(Raster))
    BY <1>1, LabellingIs DEF TextInv
<1> HIDE DEF v
<1>3. /\ v.label \in [Cells2D -> Nat] /\ v.table \in Tables
      /\ \A c \in Cells2D : v.label[c] <= Len(v.table)
    BY <1>2, BoardIs
<1>4. v = [label |-> v.label, table |-> v.table]
    BY <1>2 DEF Boards
<1>5. TextTypes'
    <2>1. l \in [Cells2D -> Nat] /\ t \in Tables /\ \A c \in Cells2D : l[c] <= Len(t)
        BY <1>1, <1>3
    <2>2. ocrStage' \in OcrStages
        BY <1>1 DEF OcrStages
    <2> QED BY <1>1, <2>1, <2>2, TypesAre DEF TextTypes
<1>6. LabelledTo([label |-> cellLabel, table |-> parents], Len(Raster))'
    <2>1. v = [label |-> l, table |-> t]
        BY <1>1, <1>4
    <2>2. LabelledTo([label |-> l, table |-> t], Len(Raster))
        BY <1>2, <2>1
    <2>3. Marked' = Marked
        BY <1>1, PatchesStay
    <2> QED BY <2>2, <2>3 DEF LabelledTo, RootAt, LinkedCells, ClosedBeside
<1>7. readings' = <<>> /\ hidden' = {}
    BY <1>1 DEF TextInv
<1> QED BY <1>1, <1>5, <1>6, <1>7 DEF TextInv

LEMMA CollectStep == ASSUME TextInv, CollectRegions PROVE TextInv'
<1> DEFINE v == [label |-> cellLabel, table |-> parents]
           rootOf == [c \in Marked |-> Root(parents, cellLabel[c])]
           classes == {{c \in Marked : rootOf[c] = r} : r \in {rootOf[c] : c \in Marked}}
           fit == {k \in classes : BigEnough(Box(k)) /\ HasClear(k)}
<1>1. /\ ocrStage = "collect" /\ ocrStage' = (IF ocrTier = "detect_and_fill" THEN "fill" ELSE "read")
      /\ imageSize' = imageSize /\ probMap' = probMap /\ cellLabel' = cellLabel /\ parents' = parents
      /\ ocrTier' = ocrTier /\ readings' = readings /\ hidden' = hidden
    BY DEF CollectRegions
<1>2. textRegions' = {Box(cells) : cells \in fit}
    BY DEF CollectRegions
<1>3. v \in Boards /\ LabelledTo(v, Len(Raster))
    <2>1. cellLabel \in [Cells2D -> Nat] /\ parents \in Tables /\ \A c \in Cells2D : cellLabel[c] <= Len(parents)
        BY TypesAre
    <2>2. v \in Boards
        BY <2>1, BoardMade
    <2> QED BY <2>2, <1>1 DEF TextInv
<1>4. classes = Classes(v)
    <2>1. v.label = cellLabel /\ v.table = parents
        OBVIOUS
    <2> HIDE DEF v
    <2>2. rootOf = [c \in Marked |-> RootAt(v, c)]
        BY <2>1 DEF RootAt
    <2> HIDE DEF rootOf
    <2> QED BY <2>2 DEF Classes
<1>5. classes = {PatchOf(c) : c \in Marked}
    <2> HIDE DEF v, classes
    <2> QED BY <1>3, <1>4, ClassesArePatches
<1>6. fit = Patches
    <2> HIDE DEF classes
    <2> QED BY <1>5 DEF Patches
<1> HIDE DEF fit
<1>7. textRegions' = PatchBoxes
    BY <1>2, <1>6 DEF PatchBoxes
<1>8. PatchBoxes' = PatchBoxes /\ PatchBoxes \subseteq Regions
    BY <1>1, PatchesStay, PatchesAre
<1>9. readings = <<>> /\ hidden = {}
    BY <1>1 DEF TextInv
<1>10. TextTypes'
    <2>1. ocrStage' \in OcrStages
        BY <1>1 DEF OcrStages
    <2>2. DOMAIN readings = {}
        BY <1>9
    <2> HIDE DEF v, rootOf, classes
    <2> QED BY <1>1, <1>7, <1>8, <2>1, <2>2, TypesAre DEF TextTypes
<1>11. ocrStage' = "read" => ocrTier' = "full_recognition"
    BY <1>1, TypesAre
<1>12. ocrStage' \in {"read", "fill"}
    BY <1>1
<1> HIDE DEF v, rootOf, classes
<1> QED BY <1>1, <1>7, <1>8, <1>9, <1>10, <1>11, <1>12 DEF TextInv

LEMMA ReadStep == ASSUME TextInv, ReadRegions PROVE TextInv'
<1>1. /\ ocrStage = "read" /\ ocrStage' = "decide"
      /\ imageSize' = imageSize /\ probMap' = probMap /\ cellLabel' = cellLabel /\ parents' = parents
      /\ textRegions' = textRegions /\ ocrTier' = ocrTier /\ hidden' = hidden
    BY DEF ReadRegions
<1> DEFINE L == {b \in textRegions : Legible(b)}
<1>2. PICK shown \in [L -> Readings] : \E sure \in [DOMAIN shown -> Confidences] :
           readings' = [b \in {r \in DOMAIN shown : CtcDecode(shown[r]) # <<>>} |->
               [text |-> CtcDecode(shown[b]), confidence |-> sure[b], shown |-> shown[b]]]
    BY DEF ReadRegions
<1>3. PICK sure \in [DOMAIN shown -> Confidences] :
           readings' = [b \in {r \in DOMAIN shown : CtcDecode(shown[r]) # <<>>} |->
               [text |-> CtcDecode(shown[b]), confidence |-> sure[b], shown |-> shown[b]]]
    BY <1>2
<1> DEFINE D == {r \in DOMAIN shown : CtcDecode(shown[r]) # <<>>}
           Entry(b) == [text |-> CtcDecode(shown[b]), confidence |-> sure[b], shown |-> shown[b]]
           R == readings'
<1>4. R = [b \in D |-> Entry(b)]
    BY <1>3
<1>5. D \subseteq textRegions
    OBVIOUS
<1>6. \A b \in D : shown[b] \in Seq(Nat) /\ sure[b] \in 0..100
    BY RegionAssumption
<1>7. \A x, y, z : /\ [text |-> x, confidence |-> y, shown |-> z].text = x
                   /\ [text |-> x, confidence |-> y, shown |-> z].confidence = y
                   /\ [text |-> x, confidence |-> y, shown |-> z].shown = z
    OBVIOUS
<1>8. \A b \in D : /\ Entry(b).text = CtcDecode(shown[b]) /\ Entry(b).confidence = sure[b]
                   /\ Entry(b).shown = shown[b]
    <2> HIDE DEF D
    <2> QED BY <1>7
<1> HIDE DEF D, Entry, R, L
<1>9. DOMAIN R = D /\ R = [b \in DOMAIN R |-> R[b]] /\ \A b \in D : R[b] = Entry(b)
    BY <1>4
<1>10. IsFiniteSet(D)
    <2>1. textRegions = PatchBoxes
        BY <1>1 DEF TextInv
    <2>2. D \in SUBSET PatchBoxes
        BY <2>1, <1>5
    <2> QED BY <2>2, PatchesAre, FS_Subset
<1>11. \A b \in DOMAIN R : /\ R[b].shown \in Seq(Nat) /\ R[b].text = CtcDecode(R[b].shown)
                           /\ R[b].confidence \in 0..100
    BY <1>6, <1>8, <1>9
<1>12. ResultsHold'
    <2>1. IsFiniteSet(DOMAIN R) /\ R = [b \in DOMAIN R |-> R[b]]
        BY <1>9, <1>10
    <2> QED BY <2>1, <1>11 DEF ResultsHold, R, CtcDecode, DecodeStep
<1>13. TextTypes'
    <2>1. ocrStage' \in OcrStages
        BY <1>1 DEF OcrStages
    <2>2. DOMAIN readings' \subseteq textRegions
        BY <1>5, <1>9 DEF R
    <2> QED BY <1>1, <2>1, <2>2, TypesAre DEF TextTypes
<1>14. /\ textRegions' = PatchBoxes' /\ hidden' = {} /\ ocrTier' = "full_recognition"
    <2>1. textRegions = PatchBoxes /\ hidden = {} /\ ocrTier = "full_recognition"
        BY <1>1 DEF TextInv
    <2> QED BY <2>1, <1>1, PatchesStay
<1> QED BY <1>1, <1>12, <1>13, <1>14 DEF TextInv

LEMMA DecideStep == ASSUME TextInv, Decide PROVE TextInv'
<1>1. /\ ocrStage = "decide"
      /\ imageSize' = imageSize /\ probMap' = probMap /\ cellLabel' = cellLabel /\ parents' = parents
      /\ textRegions' = textRegions /\ ocrTier' = ocrTier /\ readings' = readings /\ hidden' = hidden
    BY DEF Decide
<1>2. PICK order \in Orders(DOMAIN readings) :
         ocrStage' = IF LowConfidence(order) \/ HasPii(order) THEN "fill" ELSE "done"
    BY DEF Decide
<1>3. /\ textRegions = PatchBoxes /\ hidden = {} /\ ocrTier = "full_recognition" /\ ResultsHold
    BY <1>1 DEF TextInv
<1>4. PatchBoxes' = PatchBoxes /\ Patches' = Patches
    BY <1>1, PatchesStay
<1>5. TextTypes'
    <2>1. ocrStage' \in OcrStages
        BY <1>2 DEF OcrStages
    <2> QED BY <1>1, <2>1, TypesAre DEF TextTypes
<1>6. CASE ocrStage' = "fill"
    BY <1>1, <1>3, <1>4, <1>5, <1>6 DEF TextInv
<1>7. CASE ocrStage' # "fill"
    <2>1. ocrStage' = "done" /\ ~LowConfidence(order) /\ ~HasPii(order)
        BY <1>2, <1>7
    <2>2. \A b \in DOMAIN readings : \A s \in Secrets : ~Occurs(s, Spelled(readings[b].shown))
        <3> SUFFICES ASSUME NEW b \in DOMAIN readings, NEW s \in Secrets,
                            Occurs(s, Spelled(readings[b].shown))
                     PROVE  FALSE
            OBVIOUS
        <3>1. s \in Seq(Nat)
            BY RegionAssumption
        <3>2. Occurs(s, readings[b].text)
            BY <1>3, ResultIs
        <3>3. Occurs(s, Combined(order))
            BY <3>1, <3>2, <1>3, CombinedHolds
        <3> QED BY <3>3, <2>1 DEF HasPii
    <2>3. readings = <<>> \/ \E b \in DOMAIN readings : readings[b].confidence >= 80
        BY <2>1, <1>3, ConfidenceIsOfOne
    <2> DEFINE Quiet == /\ \A b \in DOMAIN readings : \A s \in Secrets : ~Occurs(s, Spelled(readings[b].shown))
                        /\ readings = <<>> \/ \E b \in DOMAIN readings : readings[b].confidence >= 80
    <2>4. Quiet
        BY <2>2, <2>3
    <2>5. TextShown'
        <3>1. Quiet'
            BY <2>4, <1>1
        <3> QED BY <3>1, <1>1, <1>3 DEF TextShown
    <2> HIDE DEF Quiet
    <2> QED BY <2>1, <2>5, <1>1, <1>3, <1>4, <1>5 DEF TextInv
<1> QED BY <1>6, <1>7

LEMMA FillStep == ASSUME TextInv, FillRegions PROVE TextInv'
<1>1. /\ ocrStage = "fill" /\ ocrStage' = "done" /\ hidden' = UNION {Filled(b) : b \in textRegions}
      /\ imageSize' = imageSize /\ probMap' = probMap /\ cellLabel' = cellLabel /\ parents' = parents
      /\ textRegions' = textRegions /\ ocrTier' = ocrTier /\ readings' = readings
    BY DEF FillRegions
<1>2. textRegions = PatchBoxes /\ imageSize \in Sizes
    BY <1>1, TypesAre DEF TextInv
<1>3. PatchBoxes' = PatchBoxes /\ Patches' = Patches
    BY <1>1, PatchesStay
<1>4. \A k \in Patches : PixelsOf(k) \subseteq Filled(Box(k)) /\ Filled(Box(k)) \subseteq Around(k)
    BY <1>2, PatchesAre, BoxFilled
<1>5. hidden' = UNION {Filled(Box(k)) : k \in Patches}
    BY <1>1, <1>2 DEF PatchBoxes
<1>6. \A k \in Patches : PixelsOf(k) \subseteq hidden'
    BY <1>4, <1>5
<1>7. hidden' \subseteq UNION {Around(k) : k \in Patches}
    BY <1>4, <1>5
<1>8. \A k : Around(k) \subseteq (0..imageSize[1] - 1) \X (0..imageSize[2] - 1)
    BY DEF Around
<1>9. hidden' \subseteq (0..imageSize[1] - 1) \X (0..imageSize[2] - 1)
    BY <1>7, <1>8
<1>10. TextTypes'
    <2>1. ocrStage' \in OcrStages
        BY <1>1 DEF OcrStages
    <2> QED BY <1>1, <2>1, <1>9, TypesAre DEF TextTypes
<1>11. \A k : Around(k)' = Around(k) /\ PixelsOf(k)' = PixelsOf(k)
    BY <1>1, PixelsStay
<1>12. TextShown'
    <2>1. (\A k \in Patches : PixelsOf(k) \subseteq hidden)'
        BY <1>3, <1>6, <1>11
    <2>2. (hidden \subseteq UNION {Around(k) : k \in Patches})'
        BY <1>3, <1>7, <1>11
    <2> QED BY <2>1, <2>2 DEF TextShown
<1> QED BY <1>1, <1>2, <1>3, <1>10, <1>12 DEF TextInv

LEMMA TextStep == TextInv /\ [OcrNext]_ocrVars => TextInv'
<1> SUFFICES ASSUME TextInv, [OcrNext]_ocrVars PROVE TextInv'
    OBVIOUS
<1>1. CASE Prefilter        BY <1>1, PrefilterStep
<1>2. CASE LabelComponents  BY <1>2, LabelStep
<1>3. CASE CollectRegions   BY <1>3, CollectStep
<1>4. CASE DetectorFails    BY <1>4, DetectorFailsStep
<1>5. CASE ReadRegions      BY <1>5, ReadStep
<1>6. CASE RecognizerFails  BY <1>6, RecognizerFailsStep
<1>7. CASE Decide           BY <1>7, DecideStep
<1>8. CASE FillRegions      BY <1>8, FillStep
<1>9. CASE UNCHANGED ocrVars  BY <1>9, TextStutters
<1> QED BY <1>1, <1>2, <1>3, <1>4, <1>5, <1>6, <1>7, <1>8, <1>9 DEF OcrNext

LEMMA TextInvHolds == TextInv => OcrTypeOK /\ TextIsHidden
<1> SUFFICES ASSUME TextInv PROVE OcrTypeOK /\ TextIsHidden
    OBVIOUS
<1>1. cellLabel \in [Cells2D -> 0..Len(parents)] /\ \A l \in DOMAIN parents : parents[l] \in 1..l
    <2>1. cellLabel \in [Cells2D -> Nat] /\ parents \in Tables /\ \A c \in Cells2D : cellLabel[c] <= Len(parents)
        BY TypesAre
    <2>2. Len(parents) \in Nat /\ DOMAIN parents = 1..Len(parents)
        BY <2>1, TableIs
    <2>3. \A c \in Cells2D : cellLabel[c] \in 0..Len(parents)
        BY <2>1, <2>2
    <2>4. \A l \in 1..Len(parents) : parents[l] \in 1..l
        BY <2>1 DEF Tables
    <2> QED BY <2>1, <2>2, <2>3, <2>4
<1>2. OcrTypeOK
    BY <1>1, TypesAre DEF OcrTypeOK
<1>3. TextIsHidden
    BY DEF TextInv, TextShown, TextIsHidden
<1> QED BY <1>2, <1>3

(* When the text phase succeeds, the patches of text that are large and    *)
(* clear enough are filled, all of them and with nothing but their         *)
(* margins, unless the image was read with confidence and shows no PII.    *)
THEOREM TextHolds == OcrSpec => [](OcrTypeOK /\ TextIsHidden)
<1> QED BY TextInit, TextStep, TextInvHolds, PTL DEF OcrSpec
-----------------------------------------------------------------------------
(* Types of the phases of an image and of the intake of media.             *)

LEMMA FaceInvTypes == FaceInv => FaceTypeOK
<1> SUFFICES ASSUME FaceInv PROVE FaceTypeOK
    OBVIOUS
<1>1. /\ frame \in Frames /\ faces \in Seq(SeenBoxes) /\ found \in Seq(SeenBoxes)
      /\ ToSet(faces) \subseteq ToSet(found)
    BY DEF FaceInv
<1>2. Range(faces) = ToSet(faces) /\ Range(found) = ToSet(found)
    BY DEF Range, ToSet
<1>3. \A b \in Range(faces) : FillOf(b) \subseteq Pixels(frame)
    <2> TAKE b \in Range(faces)
    <2>1. b \in SeenBoxes
        BY <1>1, <1>2, ToSetElements
    <2>2. Ellipse(Expanded(b)) \subseteq Pixels(frame)
        BY <1>1, <2>1, FrameIs, EllipseWithin
    <2> QED BY <2>2 DEF FillOf
<1>4. blanked \subseteq Pixels(frame)
    BY <1>3 DEF FaceInv
<1> QED BY <1>1, <1>2, <1>4 DEF FaceInv, FaceTypeOK

(* What a node may become: that of an image that was put in place of its    *)
(* URL names none.                                                         *)
PlacedNodes ==
    [kind : {"object", "array", "scalar", "null", "notice"} \cup ImageKinds \cup AudioKinds,
     form : {"none", "base64", "url"}, label : Labels2 \cup {"audio/wav"},
     url : STRING \cup {"none"}, of : Seq(STRING), clean : BOOLEAN, bytes : Labels2]

(* A node of an arriving body may stand in a changed one.                  *)
LEMMA NodesArePlaced == MediaNodes \subseteq PlacedNodes
BY DEF MediaNodes, PlacedNodes

(* A body in which nodes were put, replaced or inserted: still one of nodes,*)
(* and with all the paths it had.                                          *)
BodyOf(d) ==
    /\ d = [q \in DOMAIN d |-> d[q]] /\ \A q \in DOMAIN d : d[q] \in PlacedNodes
    /\ Paths(given) \subseteq DOMAIN d /\ DOMAIN d \subseteq Seq(PathNames)
BodyDocs == UNION {[D -> PlacedNodes] : D \in {E \in SUBSET Seq(PathNames) : Paths(given) \subseteq E}}
Walkers == [doc : BodyDocs, at : Seq(PathNames), panicked : BOOLEAN]

(* It is the bodies that MediaTypeOK speaks of.                            *)
LEMMA BodyDocIs == \A d : BodyOf(d) <=> d \in BodyDocs
<1>1. ASSUME NEW d, BodyOf(d) PROVE d \in BodyDocs
    <2>1. DOMAIN d \in {E \in SUBSET Seq(PathNames) : Paths(given) \subseteq E}
        BY <1>1 DEF BodyOf
    <2>2. d \in [DOMAIN d -> PlacedNodes]
        <3> DEFINE D == DOMAIN d
        <3>1. d = [q \in D |-> d[q]] /\ \A q \in D : d[q] \in PlacedNodes
            BY <1>1 DEF BodyOf
        <3> HIDE DEF D
        <3>2. [q \in D |-> d[q]] \in [D -> PlacedNodes]
            BY <3>1
        <3> QED BY <3>1, <3>2 DEF D
    <2> QED BY <2>1, <2>2 DEF BodyDocs
<1>2. ASSUME NEW d \in BodyDocs PROVE BodyOf(d)
    <2>1. PICK E \in SUBSET Seq(PathNames) : Paths(given) \subseteq E /\ d \in [E -> PlacedNodes]
        BY DEF BodyDocs
    <2>2. DOMAIN d = E /\ d = [q \in E |-> d[q]] /\ \A q \in E : d[q] \in PlacedNodes
        BY <2>1
    <2> QED BY <2>1, <2>2 DEF BodyOf
<1> QED BY <1>1, <1>2

(* A node put somewhere in a body.                                         *)
LEMMA NodePut ==
    ASSUME NEW d, BodyOf(d), NEW q, NEW x, q \in DOMAIN d => x \in PlacedNodes
    PROVE  BodyOf([d EXCEPT ![q] = x])
<1> DEFINE D == DOMAIN d
           e == [d EXCEPT ![q] = x]
<1>0. q \in D => x \in PlacedNodes
    OBVIOUS
<1>1. e = [r \in D |-> IF r = q THEN x ELSE d[r]]
    OBVIOUS
<1>2. \A r \in D : d[r] \in PlacedNodes
    BY DEF BodyOf
<1>3. Paths(given) \subseteq D /\ D \subseteq Seq(PathNames)
    BY DEF BodyOf
<1> HIDE DEF D, e
<1>4. DOMAIN e = D /\ \A r \in D : e[r] = IF r = q THEN x ELSE d[r]
    BY <1>1
<1>5. e = [r \in D |-> e[r]]
    BY <1>1
<1>6. \A r \in D : e[r] \in PlacedNodes
    BY <1>0, <1>2, <1>4
<1>7. BodyOf(e)
    BY <1>3, <1>4, <1>5, <1>6 DEF BodyOf
<1> QED BY <1>7 DEF e

(* The null that indexing inserts is a node.                               *)
LEMMA NullNodeIs == NullNode \in PlacedNodes
<1>1. <<>> \in Seq(STRING)
    OBVIOUS
<1> DEFINE none == <<>>
<1>2. none \in Seq(STRING)
    BY <1>1
<1> HIDE DEF none
<1>3. /\ "null" \in {"object", "array", "scalar", "null", "notice"} \cup ImageKinds \cup AudioKinds
      /\ "none" \in {"none", "base64", "url"} /\ "none" \in Labels2
    BY DEF Labels2
<1> QED BY <1>2, <1>3 DEF NullNode, PlacedNodes, none

(* Indexing by a member name, which may insert that member, leaves a body. *)
LEMMA NameIsTaken ==
    ASSUME NEW w \in Walkers, NEW name \in PathNames
    PROVE  IndexByName(w, name) \in Walkers
<1> DEFINE to   == Append(w.at, name)
           here == w.doc[w.at]
           open == IF here.kind = "null" THEN [w.doc EXCEPT ![w.at].kind = "object"] ELSE w.doc
           next == IF to \in DOMAIN open THEN open
                   ELSE [q \in DOMAIN open \cup {to} |-> IF q = to THEN NullNode ELSE open[q]]
<1>1. w.doc \in BodyDocs /\ w.at \in Seq(PathNames) /\ w.panicked \in BOOLEAN
    BY DEF Walkers
<1>2. BodyOf(w.doc)
    BY <1>1, BodyDocIs
<1>3. to \in Seq(PathNames)
    BY <1>1
<1>4. [w EXCEPT !.panicked = TRUE] \in Walkers
    BY DEF Walkers
<1>5. BodyOf(open)
    <2> DEFINE d == w.doc
               a == w.at
               x == [here EXCEPT !.kind = "object"]
    <2>1. a \in DOMAIN d => x \in PlacedNodes
        <3>1. a \in DOMAIN d => here \in PlacedNodes
            BY <1>2 DEF BodyOf
        <3> HIDE DEF here, d, a
        <3> QED BY <3>1 DEF PlacedNodes
    <2>2. [d EXCEPT ![a].kind = "object"] = [d EXCEPT ![a] = x]
        OBVIOUS
    <2> HIDE DEF x, d, a
    <2>3. BodyOf(d)
        BY <1>2 DEF d
    <2>4. BodyOf([d EXCEPT ![a] = x])
        BY <2>1, <2>3, NodePut
    <2> QED BY <2>2, <2>3, <2>4 DEF d, a
<1> HIDE DEF open
<1>6. BodyOf(next)
    <2>1. CASE to \in DOMAIN open
        BY <2>1, <1>5
    <2>2. CASE to \notin DOMAIN open
        <3> DEFINE D == DOMAIN open \cup {to}
                   e == [q \in D |-> IF q = to THEN NullNode ELSE open[q]]
        <3>1. D \subseteq Seq(PathNames) /\ Paths(given) \subseteq D
            BY <1>3, <1>5 DEF BodyOf
        <3>2. \A q \in D : (IF q = to THEN NullNode ELSE open[q]) \in PlacedNodes
            BY <1>5, NullNodeIs DEF BodyOf
        <3>3. next = e
            BY <2>2
        <3> HIDE DEF D, next, to
        <3>4. DOMAIN e = D /\ e = [q \in D |-> e[q]] /\ \A q \in D : e[q] \in PlacedNodes
            BY <3>2
        <3> QED BY <3>1, <3>3, <3>4 DEF BodyOf
    <2> QED BY <2>1, <2>2
<1> HIDE DEF next
<1>7. [doc |-> next, at |-> to, panicked |-> FALSE] \in Walkers
    <2>1. next \in BodyDocs
        BY <1>6, BodyDocIs
    <2> HIDE DEF to
    <2> QED BY <2>1, <1>3 DEF Walkers
<1>8. IndexByName(w, name) = [w EXCEPT !.panicked = TRUE]
      \/ IndexByName(w, name) = [doc |-> next, at |-> to, panicked |-> FALSE]
    BY DEF IndexByName, next, open
<1> QED BY <1>4, <1>7, <1>8

(* Indexing by a number, which inserts nothing, leaves a body.             *)
LEMMA NumberIsTaken ==
    ASSUME NEW w \in Walkers, NEW index \in STRING
    PROVE  IndexByNumber(w, index) \in Walkers
<1> DEFINE to == Append(w.at, index)
<1>1. to \in Seq(PathNames)
    <2>1. index \in PathNames /\ w.at \in Seq(PathNames)
        BY DEF PathNames, Walkers
    <2> QED BY <2>1
<1> HIDE DEF to
<1>2. [w EXCEPT !.panicked = TRUE] \in Walkers /\ [w EXCEPT !.at = to] \in Walkers
    BY <1>1 DEF Walkers
<1> QED BY <1>2 DEF IndexByNumber, to

(* So does indexing by one part of a path: a name and its numbers.         *)
LEMMA PartIsTaken ==
    ASSUME NEW w \in Walkers, NEW part \in PathRecs
    PROVE  TakePart(w, part) \in Walkers
<1>1. part.name \in PathNames /\ part.indices \in Seq(STRING)
    BY DEF PathRecs
<1>2. IndexByName(w, part.name) \in Walkers
    BY <1>1, NameIsTaken
<1> DEFINE v == IndexByName(w, part.name)
<1> HIDE DEF v
<1>3. CASE part.indices = <<>>
    BY <1>2, <1>3 DEF TakePart
<1>4. CASE part.indices # <<>> /\ Len(part.indices) = 1
    <2>1. part.indices[1] \in STRING
        BY <1>1, <1>4
    <2>2. IndexByNumber(v, part.indices[1]) \in Walkers
        BY <1>2, <2>1, NumberIsTaken DEF v
    <2> QED BY <2>2, <1>4 DEF TakePart, v
<1>5. CASE part.indices # <<>> /\ Len(part.indices) # 1
    BY <1>5 DEF TakePart
<1> QED BY <1>3, <1>4, <1>5

(* A path that was written down leads somewhere, if only to a panic.       *)
LEMMA PathLeads ==
    ASSUME given \in MediaBodies, BodyOf(doc), NEW p \in Paths(given)
    PROVE  Reached(p) \in Walkers
<1> DEFINE ps   == WrittenPath(p)
           N    == Len(ps)
           base == WalkedTo(<<>>)
           Step(n, v) == TakePart(v, ps[n])
           step == [x \in (0 + 1..N) \X Walkers |-> Step(x[1], x[2])]
           F(f) == [n \in 0..N |-> IF n = 0 THEN base ELSE Step(n, f[n - 1])]
           f    == CHOOSE g : g = F(g)
<1>0. Reached(p) = f[N]
    BY DEF Reached, WalkedTo
<1>1. ps \in Seq(PathRecs)
    <2>1. CASE p = <<>>
        <3>1. ps = <<[name |-> "", indices |-> <<>>]>>
            BY <2>1 DEF WrittenPath
        <3> DEFINE none == <<>>
                   x == [name |-> "", indices |-> none]
        <3>2. none \in Seq(STRING)
            OBVIOUS
        <3> HIDE DEF none
        <3>3. x \in PathRecs
            BY <3>2, NoNameIsOne DEF PathRecs
        <3>4. ps = <<x>>
            BY <3>1 DEF none
        <3> HIDE DEF x, ps
        <3> QED BY <3>3, <3>4
    <2>2. CASE p # <<>>
        <3>1. p \in Seq(STRING) /\ Range(p) \subseteq DOMAIN PathParts
            BY BodyIs
        <3>2. PICK g : PartsOf(g, p)
            BY <3>1, <2>2, PartsExist
        <3>3. Len(p) \in 0..Len(p)
            BY <3>1
        <3> QED BY <3>2, <3>3 DEF PartsOf
    <2> QED BY <2>1, <2>2
<1> HIDE DEF ps
<1>2. N \in Nat /\ N \in Int /\ 0 \in Int /\ 0 <= N
    BY <1>1
<1>3. base \in Walkers
    <2>1. doc \in BodyDocs
        BY BodyDocIs
    <2> DEFINE none == <<>>
    <2>2. none \in Seq(PathNames)
        OBVIOUS
    <2> HIDE DEF none
    <2>3. [doc |-> doc, at |-> none, panicked |-> FALSE] \in Walkers
        BY <2>1, <2>2 DEF Walkers
    <2> QED BY <2>3 DEF none, WalkedTo
<1>4. ASSUME NEW n \in 1..N, NEW v \in Walkers PROVE Step(n, v) \in Walkers
    <2>1. ps[n] \in PathRecs
        BY <1>1
    <2> QED BY <2>1, PartIsTaken
<1> HIDE DEF base, Step, N
<1>5. step \in [(0 + 1..N) \X Walkers -> Walkers]
    <2>1. 0 + 1..N = 1..N
        BY <1>2
    <2> QED BY <2>1, <1>4
<1>6. PICK g \in [0..N -> Walkers] : Recursion(g, 0, N, base, step)
    <2> HIDE DEF step, F, f
    <2> QED BY <1>2, <1>3, <1>5, RecursionExists
<1>7. g[0] = base
    BY <1>6 DEF Recursion
<1>8. ASSUME NEW n \in 1..N PROVE g[n] = Step(n, g[n - 1])
    <2>1. n \in 0 + 1..N /\ n - 1 \in 0..N
        BY <1>2
    <2>2. <<n, g[n - 1]>> \in (0 + 1..N) \X Walkers /\ g[n] = step[<<n, g[n - 1]>>]
        <3> HIDE DEF step
        <3> QED BY <2>1, <1>6 DEF Recursion
    <2>3. step[<<n, g[n - 1]>>] = Step(n, g[n - 1])
        BY <2>2
    <2> HIDE DEF step
    <2> QED BY <2>2, <2>3
<1>9. g = F(g)
    <2> HIDE DEF step
    <2>1. \A n \in 0..N : g[n] = F(g)[n]
        <3> SUFFICES ASSUME NEW n \in 0..N PROVE g[n] = F(g)[n]
            OBVIOUS
        <3>1. CASE n = 0
            BY <1>7, <3>1
        <3>2. CASE n # 0
            <4>1. n \in 1..N
                BY <1>2, <3>2
            <4> QED BY <1>8, <3>2, <4>1
        <3> HIDE DEF F
        <3> QED BY <3>1, <3>2
    <2> QED BY <1>6, <2>1
<1>10. f = F(f)
    <2> HIDE DEF F
    <2> QED BY <1>9
<1> HIDE DEF f
<1>11. f[0] = base /\ \A n \in 1..N : f[n] = Step(n, f[n - 1])
    <2>1. 0 \in 0..N /\ \A n \in 1..N : n \in 0..N /\ n # 0
        BY <1>2
    <2> QED BY <1>10, <2>1
<1> DEFINE T == {n \in 0..N : f[n] \in Walkers}
<1>12. 0 \in T
    BY <1>2, <1>3, <1>11
<1>13. ASSUME NEW n \in 0..N - 1, n \in T PROVE n + 1 \in T
    <2>1. n + 1 \in 1..N /\ n + 1 \in 0..N /\ (n + 1) - 1 = n /\ f[n] \in Walkers
        BY <1>13, <1>2
    <2>2. f[n + 1] = Step(n + 1, f[n])
        BY <2>1, <1>11
    <2> QED BY <2>1, <2>2, <1>4
<1>14. 0..N \subseteq T
    <2> HIDE DEF T
    <2> QED BY <1>2, <1>12, <1>13, IntervalInduction
<1>15. f[N] \in Walkers
    BY <1>2, <1>14
<1> QED BY <1>0, <1>15 DEF N

(* Between the steps: what MediaInv says, and of any body that its nodes   *)
(* are nodes, that the lists are of paths of the body, and that no more    *)
(* images are counted than were embedded or placed so far.                 *)
MediaLists ==
    /\ BodyOf(doc) /\ cursor \in Nat /\ cursor >= 1
    /\ pendingUrls \in Seq(Paths(given)) /\ blocks \in Seq(Paths(given))
    /\ Range(arrivals) \subseteq Range(pendingUrls)
MediaCounts ==
    /\ mediaStage \in {"walk", "fetch", "place", "listen", "scan", "panicked", "modified", "unmodified"}
    /\ mediaStage = "walk" =>
         /\ doc = [p \in Paths(given) |-> NodeAt(given, p)]
         /\ cursor = 1 /\ arrivals = <<>>
    /\ mediaStage = "fetch" => cursor = 1
    /\ mediaStage \in {"fetch", "place"} =>
         pendingUrls = Pending /\ imageCount + Len(Pending) + 1 <= Len(given) + cursor
    /\ mediaStage \in {"walk", "fetch", "place", "listen"} => stripped = 0
    /\ mediaStage = "scan" => stripped < cursor
    /\ imageCount \in 0..Len(given) /\ stripped \in 0..Len(blocks)
MediaTypes == MediaInv /\ MediaLists /\ MediaCounts

(* Together they say that the intake has its types.                        *)
LEMMA MediaTypesMean == MediaTypes => MediaTypeOK
<1> SUFFICES ASSUME MediaTypes PROVE MediaTypeOK
    OBVIOUS
<1>1. given \in MediaBodies /\ BodyOf(doc)
    BY DEF MediaTypes, MediaInv, MediaKnown, MediaLists
<1>2. Paths(given) \subseteq DOMAIN doc /\ \A p \in DOMAIN doc : doc[p].label \in Labels2 \cup {"audio/wav"}
    BY <1>1 DEF BodyOf, PlacedNodes
<1>3. Range(pendingUrls) \subseteq Paths(given) /\ Range(blocks) \subseteq Paths(given)
    BY DEF MediaTypes, MediaLists, Range
<1>4. cursor \in Nat /\ Range(arrivals) \subseteq Range(pendingUrls)
    BY DEF MediaTypes, MediaLists
<1>5. imageCount \in 0..Len(given) /\ stripped \in 0..Len(blocks)
    BY DEF MediaTypes, MediaCounts
<1> QED BY <1>1, <1>2, <1>3, <1>4, <1>5 DEF MediaTypeOK

(* The body is at first the one that arrived.                              *)
LEMMA GivenIsBody ==
    ASSUME given \in MediaBodies, NEW d, d = [p \in Paths(given) |-> NodeAt(given, p)]
    PROVE  BodyOf(d)
<1>1. Seq(STRING) \subseteq Seq(PathNames)
    <2>1. STRING \subseteq PathNames
        BY DEF PathNames
    <2> HIDE DEF PathNames
    <2> SUFFICES ASSUME NEW s \in Seq(STRING) PROVE s \in Seq(PathNames)
        OBVIOUS
    <2>2. \A i \in 1..Len(s) : s[i] \in PathNames
        BY <2>1, ElementsOf
    <2> QED BY <2>2, ElementsOf
<1>2. Paths(given) \subseteq Seq(PathNames)
    BY <1>1, BodyIs
<1>3. \A p \in Paths(given) : NodeAt(given, p) \in PlacedNodes
    BY BodyIs, NodesArePlaced
<1>4. DOMAIN d = Paths(given) /\ \A p \in Paths(given) : d[p] = NodeAt(given, p)
    OBVIOUS
<1>5. d = [p \in Paths(given) |-> d[p]]
    OBVIOUS
<1> QED BY <1>2, <1>3, <1>4, <1>5 DEF BodyOf

LEMMA MediaTypesInit == MediaInit => MediaTypes
<1> SUFFICES ASSUME MediaInit PROVE MediaTypes
    OBVIOUS
<1>1. MediaInv
    BY MediaInitInv
<1>2. /\ given \in MediaBodies /\ doc = [p \in Paths(given) |-> NodeAt(given, p)]
      /\ cursor = 1 /\ pendingUrls = <<>> /\ arrivals = <<>> /\ blocks = <<>> /\ imageCount = 0 /\ stripped = 0
      /\ mediaStage \in {"walk", "listen"}
    BY DEF MediaInit
<1>3. BodyOf(doc) /\ Len(given) \in Nat
    BY <1>2, GivenIsBody, BodyIs
<1>4. MediaLists
    <2>1. Range(arrivals) = {}
        BY <1>2 DEF Range
    <2>2. \A X : <<>> \in Seq(X)
        OBVIOUS
    <2>3. cursor \in Nat /\ cursor >= 1
        BY <1>2
    <2> QED BY <2>1, <2>2, <2>3, <1>2, <1>3 DEF MediaLists
<1>5. MediaCounts
    <2>1. Len(<<>>) = 0 /\ 0 \in 0..0 /\ 0 \in 0..Len(given)
        BY <1>3
    <2> QED BY <2>1, <1>2 DEF MediaCounts
<1> QED BY <1>1, <1>4, <1>5 DEF MediaTypes

(* The images a walk finds embedded and those behind a URL are no more     *)
(* than the body has nodes.                                                *)
LEMMA ImagesAreFew ==
    ASSUME given \in MediaBodies, NEW now \in SUBSET Paths(given),
           \A p \in now : ~BehindUrl(NodeAt(given, p))
    PROVE  /\ Cardinality(now) \in Nat
           /\ Cardinality(now) + Len(Pending) <= Len(given)
<1> DEFINE P == Paths(given)
           N == Len(given)
           L == Len(Pending)
           U == {Pending[i] : i \in 1..L}
           f == [i \in 1..N |-> given[i].path]
<1>1. N \in Nat /\ IsFiniteSet(P) /\ DOMAIN given = 1..N
    BY BodyIs
<1>2. L \in Nat /\ Pending \in Seq(P) /\ U \subseteq P
    BY ListsAre
<1>3. \A p \in U : BehindUrl(NodeAt(given, p))
    BY ListsAre
<1>4. Cardinality(P) <= N /\ Cardinality(P) \in Nat
    <2>1. P = {given[i].path : i \in 1..N}
        BY <1>1 DEF Paths
    <2> HIDE DEF P, N
    <2>2. f \in Surjection(1..N, P)
        BY <2>1 DEF Surjection
    <2> HIDE DEF f
    <2>3. IsFiniteSet(1..N) /\ Cardinality(1..N) = N
        BY <1>1, FS_Interval
    <2>4. Cardinality(P) <= Cardinality(1..N)
        BY <2>2, <2>3, FS_Surjection
    <2> QED BY <2>3, <2>4, <1>1, FS_CardinalityType
<1>5. Cardinality(U) = L /\ IsFiniteSet(U)
    <2> DEFINE t == Pending
    <2>1. \A i, j \in 1..L : t[i] = t[j] => i = j
        BY ListsAre
    <2>2. t = [i \in 1..L |-> t[i]]
        BY <1>2
    <2> HIDE DEF t, L
    <2> DEFINE V == {t[i] : i \in 1..L}
    <2>3. t \in [1..L -> V] /\ \A x \in V : \E i \in 1..L : t[i] = x
        BY <2>2
    <2> HIDE DEF V
    <2>4. t \in Surjection(1..L, V) /\ t \in Injection(1..L, V)
        <3>1. DOMAIN t = 1..L
            BY <2>3
        <3> QED BY <2>1, <2>3, <3>1 DEF Surjection, Injection, IsInjective
    <2>5. IsFiniteSet(1..L) /\ Cardinality(1..L) = L
        BY <1>2, FS_Interval
    <2>6. IsFiniteSet(V) /\ Cardinality(V) = Cardinality(1..L)
        BY <2>4, <2>5, FS_Surjection
    <2> QED BY <2>5, <2>6 DEF t, V
<1>6. now \cap U = {} /\ now \cup U \in SUBSET P
    BY <1>2, <1>3
<1> HIDE DEF P, U, N, L
<1>7. IsFiniteSet(now) /\ Cardinality(now) \in Nat
    <2>1. IsFiniteSet(now)
        BY <1>1, FS_Subset DEF P
    <2> QED BY <2>1, FS_CardinalityType
<1>8. Cardinality(now \cup U) = Cardinality(now) + Cardinality(U)
    <2>1. Cardinality(now \cup U) = Cardinality(now) + Cardinality(U) - Cardinality({})
        BY <1>5, <1>6, <1>7, FS_Union
    <2>2. Cardinality({}) = 0
        BY FS_EmptySet
    <2> QED BY <2>1, <2>2, <1>2, <1>5, <1>7
<1>9. Cardinality(now \cup U) <= Cardinality(P) /\ Cardinality(now \cup U) \in Nat
    <2>1. IsFiniteSet(now \cup U) /\ Cardinality(now \cup U) <= Cardinality(P)
        BY <1>1, <1>6, FS_Subset
    <2> QED BY <2>1, FS_CardinalityType
<1> QED BY <1>1, <1>2, <1>4, <1>5, <1>7, <1>8, <1>9 DEF N, L

(* A node whose picture was processed is a node.                           *)
LEMMA ProcessedIs ==
    ASSUME NEW node \in PlacedNodes, NEW p \in Seq(STRING), NEW label
    PROVE  Processed(node, p, label) \in PlacedNodes
<1>1. OutputFormat(label) \in Labels2
    BY DEF OutputFormat, Labels2
<1> DEFINE f == OutputFormat(label)
<1> HIDE DEF f
<1>2. f \in Labels2
    BY <1>1 DEF f
<1>3. [node EXCEPT !.form = "base64", !.of = p, !.clean = TRUE, !.bytes = f] \in PlacedNodes
    BY <1>2 DEF PlacedNodes
<1> QED BY <1>3 DEF Processed, f

(* So is the notice that stands for audio.                                 *)
LEMMA NoticeIs ==
    ASSUME NEW node \in PlacedNodes
    PROVE  Notice(node) \in PlacedNodes
<1>1. "none" \in Labels2
    BY DEF Labels2
<1> QED BY <1>1 DEF Notice, PlacedNodes

(* The image a fetch brought, put where its pointer leads.                 *)
LEMMA ImageIsPut ==
    ASSUME MediaKnown, BodyOf(doc), NEW p \in Paths(given), BehindUrl(NodeAt(given, p)), Fetched(p)
    PROVE  BodyOf(PutImage(p, p))
<1>1. p \in Seq(STRING) /\ fate[p].bytes \in Labels2
    <2>1. IsImage(NodeAt(given, p))
        BY DEF IsImage
    <2> QED BY <2>1, FateIs
<1>2. FetchedLabel(p) \in Labels2
    BY <1>1 DEF FetchedLabel, Fetched
<1> DEFINE t == Pointed(p)
           l == FetchedLabel(p)
           y == Processed(doc[t], p, l)
           x == [y EXCEPT !.label = l, !.url = "none"]
<1>3. PutImage(p, p) = doc \/ PutImage(p, p) = [doc EXCEPT ![t] = x]
    BY DEF PutImage
<1>4. t \in DOMAIN doc => x \in PlacedNodes
    <2>1. t \in DOMAIN doc => y \in PlacedNodes
        <3>1. t \in DOMAIN doc => doc[t] \in PlacedNodes
            BY DEF BodyOf
        <3> QED BY <3>1, <1>1, ProcessedIs
    <2> HIDE DEF y, t, l
    <2>2. l \in Labels2
        BY <1>2 DEF l
    <2> QED BY <2>1, <2>2 DEF PlacedNodes
<1> HIDE DEF t, x
<1>5. BodyOf([doc EXCEPT ![t] = x])
    BY <1>4, NodePut
<1> QED BY <1>3, <1>5

(* The walk collects paths of the body, and counts an image where it has   *)
(* put its picture.                                                        *)
LEMMA WalkTypes == MediaTypes /\ Walk => MediaLists' /\ MediaCounts'
<1> SUFFICES ASSUME MediaTypes, Walk PROVE MediaLists' /\ MediaCounts'
    OBVIOUS
<1> DEFINE now == {p \in DOMAIN fate : Embedded(doc[p]) /\ Fine(p)}
<1>1. /\ mediaStage = "walk"
      /\ doc' = [p \in DOMAIN doc |-> IF p \in now THEN Processed(doc[p], p, doc[p].label) ELSE doc[p]]
      /\ imageCount' = Cardinality(now)
      /\ pendingUrls' = Those(WalkOrder, {p \in Paths(given) : BehindUrl(doc[p])})
      /\ mediaStage' \in {"fetch", "listen"}
      /\ given' = given /\ fate' = fate /\ mediaSettings' = mediaSettings /\ cursor' = cursor
      /\ arrivals' = arrivals /\ blocks' = blocks /\ stripped' = stripped
    BY DEF Walk
<1>2. MediaKnown /\ given \in MediaBodies /\ BodyOf(doc) /\ blocks \in Seq(Paths(given))
    BY DEF MediaTypes, MediaInv, MediaKnown, MediaLists
<1>3. /\ doc = [p \in Paths(given) |-> NodeAt(given, p)]
      /\ cursor = 1 /\ arrivals = <<>> /\ stripped = 0 /\ stripped \in 0..Len(blocks)
    BY <1>1 DEF MediaTypes, MediaCounts
<1>4. /\ Pending' = Pending /\ Paths(given)' = Paths(given)
    BY <1>1, StaticKept DEF Paths
<1>5. pendingUrls' = Pending
    <2>1. {p \in Paths(given) : BehindUrl(doc[p])} = {p \in Paths(given) : BehindUrl(NodeAt(given, p))}
        BY <1>3
    <2> QED BY <2>1, <1>1 DEF Pending
<1>6. DOMAIN fate \subseteq Paths(given)
    BY <1>2 DEF MediaKnown
<1>7. Cardinality(now) \in Nat /\ Cardinality(now) + Len(Pending) <= Len(given)
    <2>1. now \in SUBSET Paths(given)
        BY <1>6
    <2>2. \A p \in now : ~BehindUrl(NodeAt(given, p))
        <3> SUFFICES ASSUME NEW p \in now PROVE ~BehindUrl(NodeAt(given, p))
            OBVIOUS
        <3>1. Embedded(NodeAt(given, p))
            BY <1>3, <1>6
        <3> QED BY <3>1, KindsApart
    <2> HIDE DEF now
    <2> QED BY <2>1, <2>2, <1>2, ImagesAreFew
<1>8. BodyOf(doc')
    <2> DEFINE New(p) == IF p \in now THEN Processed(doc[p], p, doc[p].label) ELSE doc[p]
               D == DOMAIN doc
    <2>1. \A p \in D : doc[p] \in PlacedNodes
        BY <1>2 DEF BodyOf
    <2>2. D = Paths(given) /\ D \subseteq Seq(STRING)
        BY <1>2, <1>3, BodyIs
    <2>3. \A p \in D : New(p) \in PlacedNodes
        BY <2>1, <2>2, ProcessedIs
    <2>4. doc' = [p \in D |-> New(p)]
        BY <1>1
    <2>5. Paths(given) \subseteq D /\ D \subseteq Seq(PathNames)
        BY <1>2 DEF BodyOf
    <2> HIDE DEF New, D
    <2>6. DOMAIN doc' = D /\ doc' = [p \in D |-> doc'[p]] /\ \A p \in D : doc'[p] \in PlacedNodes
        BY <2>3, <2>4
    <2> QED BY <2>5, <2>6 DEF BodyOf
<1> HIDE DEF now
<1>9. Pending \in Seq(Paths(given)) /\ Len(Pending) \in Nat /\ Len(given) \in Nat
    BY <1>2, ListsAre, BodyIs
<1>10. MediaLists'
    <2>1. BodyOf(doc)'
        BY <1>1, <1>8 DEF BodyOf, Paths
    <2>2. Range(arrivals)' = {}
        BY <1>1, <1>3 DEF Range
    <2>3. cursor' \in Nat /\ cursor' >= 1
        BY <1>1, <1>3
    <2> QED BY <2>1, <2>2, <2>3, <1>1, <1>2, <1>4, <1>5, <1>9 DEF MediaLists
<1>11. MediaCounts'
    <2> DEFINE c == Cardinality(now)
               n == Len(given)
               l == Len(Pending)
    <2>1. c \in Nat /\ l \in Nat /\ n \in Nat /\ c + l <= n
        BY <1>7, <1>9
    <2> HIDE DEF c, n, l
    <2>2. c \in 0..n /\ c + l + 1 <= n + 1
        BY <2>1
    <2>3. imageCount' \in 0..Len(given') /\ imageCount' + Len(Pending') + 1 <= Len(given') + cursor'
        BY <2>2, <1>1, <1>3, <1>4 DEF c, n, l
    <2> QED BY <2>3, <1>1, <1>3, <1>4, <1>5 DEF MediaCounts
<1> QED BY <1>10, <1>11

(* Placing what a fetch brought keeps a body and counts at most one image. *)
LEMMA PlaceNextTypes == MediaTypes /\ PlaceNext => MediaLists' /\ MediaCounts'
<1> SUFFICES ASSUME MediaTypes, PlaceNext PROVE MediaLists' /\ MediaCounts'
    OBVIOUS
<1> DEFINE p == pendingUrls[cursor]
<1>1. /\ mediaStage = "place" /\ cursor <= Len(pendingUrls) /\ cursor' = cursor + 1
      /\ \/ Fetched(p) /\ doc' = PutImage(p, p) /\ imageCount' = imageCount + 1
         \/ doc' = doc /\ imageCount' = imageCount
      /\ given' = given /\ fate' = fate /\ mediaSettings' = mediaSettings
      /\ pendingUrls' = pendingUrls /\ mediaStage' = mediaStage
      /\ arrivals' = arrivals /\ blocks' = blocks /\ stripped' = stripped
    BY DEF PlaceNext, ResultOf
<1>2. /\ MediaKnown /\ given \in MediaBodies /\ BodyOf(doc)
      /\ pendingUrls \in Seq(Paths(given)) /\ blocks \in Seq(Paths(given))
      /\ cursor \in Nat /\ cursor >= 1 /\ Range(arrivals) \subseteq Range(pendingUrls)
    BY DEF MediaTypes, MediaInv, MediaKnown, MediaLists
<1>3. /\ pendingUrls = Pending /\ imageCount + Len(Pending) + 1 <= Len(given) + cursor
      /\ imageCount \in 0..Len(given) /\ stripped = 0 /\ stripped \in 0..Len(blocks)
    BY <1>1 DEF MediaTypes, MediaCounts
<1>4. /\ Pending' = Pending /\ Paths(given)' = Paths(given)
    BY <1>1, StaticKept DEF Paths
<1>5. Len(Pending) \in Nat /\ Len(given) \in Nat
    BY <1>2, ListsAre, BodyIs
<1>6. p \in Paths(given) /\ BehindUrl(NodeAt(given, p))
    <2>1. cursor \in 1..Len(Pending)
        BY <1>1, <1>2, <1>3, <1>5
    <2> QED BY <2>1, <1>2, <1>3, ListsAre
<1> HIDE DEF p
<1>7. BodyOf(doc')
    BY <1>1, <1>2, <1>6, ImageIsPut
<1>8. MediaLists'
    <2>1. BodyOf(doc)'
        BY <1>1, <1>7 DEF BodyOf, Paths
    <2>2. cursor' \in Nat /\ cursor' >= 1
        BY <1>1, <1>2
    <2> QED BY <2>1, <2>2, <1>1, <1>2, <1>4 DEF MediaLists, Range
<1>9. MediaCounts'
    <2> DEFINE n == Len(given)
               l == Len(Pending)
    <2>1. /\ imageCount \in 0..n /\ imageCount + l + 1 <= n + cursor /\ cursor <= l /\ n \in Nat /\ l \in Nat
          /\ cursor \in Nat /\ cursor' = cursor + 1
          /\ imageCount' = imageCount + 1 \/ imageCount' = imageCount
        BY <1>1, <1>2, <1>3, <1>5
    <2> HIDE DEF n, l
    <2>2. imageCount' \in 0..n /\ imageCount' + l + 1 <= n + cursor'
        BY <2>1
    <2>3. imageCount' \in 0..Len(given') /\ imageCount' + Len(Pending') + 1 <= Len(given') + cursor'
        BY <2>2, <1>1, <1>4 DEF n, l
    <2> QED BY <2>3, <1>1, <1>3, <1>4 DEF MediaCounts
<1> QED BY <1>8, <1>9

(* Scanning an audio block keeps a body.                                   *)
LEMMA ScanAudioTypes == MediaTypes /\ ScanAudio => MediaLists' /\ MediaCounts'
<1> SUFFICES ASSUME MediaTypes, ScanAudio PROVE MediaLists' /\ MediaCounts'
    OBVIOUS
<1> DEFINE w == Reached(blocks[cursor])
           d == w.doc
           a == w.at
           x == Notice(d[a])
<1>1. /\ mediaStage = "scan" /\ cursor <= Len(blocks) /\ cursor' = cursor + 1
      /\ doc' = doc \/ doc' = d \/ doc' = [d EXCEPT ![a] = x]
      /\ stripped' = stripped \/ stripped' = stripped + 1
      /\ mediaStage' \in {"scan", "panicked"}
      /\ given' = given /\ fate' = fate /\ mediaSettings' = mediaSettings
      /\ pendingUrls' = pendingUrls /\ arrivals' = arrivals /\ blocks' = blocks /\ imageCount' = imageCount
    BY DEF ScanAudio
<1>2. /\ given \in MediaBodies /\ BodyOf(doc)
      /\ pendingUrls \in Seq(Paths(given)) /\ blocks \in Seq(Paths(given))
      /\ cursor \in Nat /\ cursor >= 1 /\ Range(arrivals) \subseteq Range(pendingUrls)
    BY DEF MediaTypes, MediaInv, MediaKnown, MediaLists
<1>3. /\ stripped < cursor /\ imageCount \in 0..Len(given) /\ stripped \in 0..Len(blocks)
    BY <1>1 DEF MediaTypes, MediaCounts
<1>4. blocks[cursor] \in Paths(given) /\ Len(blocks) \in Nat
    <2>1. cursor \in 1..Len(blocks)
        BY <1>1, <1>2
    <2> QED BY <2>1, <1>2
<1>5. w \in Walkers
    BY <1>2, <1>4, PathLeads
<1>6. BodyOf(d)
    <2>1. d \in BodyDocs
        BY <1>5 DEF Walkers
    <2> QED BY <2>1, BodyDocIs
<1> HIDE DEF d, a
<1>7. a \in DOMAIN d => x \in PlacedNodes
    BY <1>6, NoticeIs DEF BodyOf
<1> HIDE DEF x
<1>8. BodyOf(doc')
    <2>1. BodyOf([d EXCEPT ![a] = x])
        BY <1>6, <1>7, NodePut
    <2> QED BY <2>1, <1>1, <1>2, <1>6
<1>9. Paths(given)' = Paths(given)
    BY <1>1 DEF Paths
<1>10. MediaLists'
    <2>1. BodyOf(doc)'
        BY <1>1, <1>8 DEF BodyOf, Paths
    <2>2. cursor' \in Nat /\ cursor' >= 1
        BY <1>1, <1>2
    <2> QED BY <2>1, <2>2, <1>1, <1>2, <1>9 DEF MediaLists, Range
<1>11. MediaCounts'
    <2> DEFINE b == Len(blocks)
    <2>1. /\ b \in Nat /\ stripped \in 0..b /\ stripped < cursor /\ cursor <= b /\ cursor \in Nat
          /\ cursor' = cursor + 1 /\ (stripped' = stripped \/ stripped' = stripped + 1)
        BY <1>1, <1>2, <1>3, <1>4
    <2> HIDE DEF b
    <2>2. stripped' \in 0..b /\ stripped' < cursor'
        BY <2>1
    <2>3. stripped' \in 0..Len(blocks') /\ imageCount' \in 0..Len(given')
        BY <2>2, <1>1, <1>3 DEF b
    <2> QED BY <2>2, <2>3, <1>1 DEF MediaCounts
<1> QED BY <1>10, <1>11

(* The other steps leave the body alone.                                   *)
LEMMA OtherMediaTypes ==
    MediaTypes /\ (FetchEnds \/ EndPlace \/ DetectAudio \/ Conclude \/ UNCHANGED mediaVars)
      => MediaLists' /\ MediaCounts'
<1> SUFFICES ASSUME MediaTypes, FetchEnds \/ EndPlace \/ DetectAudio \/ Conclude \/ UNCHANGED mediaVars
             PROVE  MediaLists' /\ MediaCounts'
    OBVIOUS
<1>1. /\ given' = given /\ fate' = fate /\ mediaSettings' = mediaSettings /\ doc' = doc
      /\ pendingUrls' = pendingUrls /\ imageCount' = imageCount /\ stripped' = stripped
    BY DEF FetchEnds, EndPlace, DetectAudio, Conclude, mediaVars
<1>2. /\ given \in MediaBodies /\ BodyOf(doc)
      /\ pendingUrls \in Seq(Paths(given)) /\ blocks \in Seq(Paths(given))
      /\ cursor \in Nat /\ cursor >= 1 /\ Range(arrivals) \subseteq Range(pendingUrls)
    BY DEF MediaTypes, MediaInv, MediaKnown, MediaLists
<1>3. Paths(given)' = Paths(given) /\ Pending' = Pending
    BY <1>1, StaticKept DEF Paths
<1>4. BodyOf(doc)'
    BY <1>1, <1>2 DEF BodyOf, Paths
<1>6. MediaCounts
    BY DEF MediaTypes
<1>7. CASE FetchEnds
    <2>1. PICK p \in Range(pendingUrls) : arrivals' = Append(arrivals, p)
        BY <1>7 DEF FetchEnds
    <2>2. /\ mediaStage = "fetch" /\ mediaStage' \in {"fetch", "place"} /\ cursor' = cursor /\ blocks' = blocks
        BY <1>7 DEF FetchEnds
    <2>3. Range(arrivals') \subseteq Range(pendingUrls)
        BY <2>1, <1>2 DEF Range
    <2>4. MediaLists'
        BY <2>2, <2>3, <1>1, <1>2, <1>3, <1>4 DEF MediaLists, Range
    <2>5. MediaCounts'
        BY <2>2, <1>1, <1>3, <1>6 DEF MediaCounts
    <2> QED BY <2>4, <2>5
<1>8. CASE EndPlace
    <2>1. /\ mediaStage = "place" /\ mediaStage' = "listen" /\ cursor' = cursor /\ blocks' = blocks /\ arrivals' = arrivals
        BY <1>8 DEF EndPlace
    <2> QED BY <2>1, <1>1, <1>2, <1>3, <1>4, <1>6 DEF MediaLists, MediaCounts, Range
<1>9. CASE DetectAudio
    <2> DEFINE S == {p \in Paths(given) : IsAudio(doc[p])}
               r == Those(WalkOrder, S)
    <2>1. /\ mediaStage = "listen" /\ mediaStage' = "scan" /\ cursor' = 1 /\ arrivals' = arrivals
          /\ blocks' = r \/ blocks' = <<>>
        BY <1>9 DEF DetectAudio
    <2>2. r \in Seq(Paths(given))
        <3>1. WalkOrder \in Seq(Seq(STRING))
            BY <1>2, BodyIs
        <3>2. r \in Seq(Seq(STRING) \cap S)
            BY <3>1, ThoseElements
        <3> HIDE DEF r
        <3>3. \A i \in 1..Len(r) : r[i] \in Paths(given)
            BY <3>2
        <3> QED BY <3>2, <3>3, ElementsOf
    <2> HIDE DEF r
    <2>3. blocks' \in Seq(Paths(given))
        <3> DEFINE P == Paths(given)
        <3> HIDE DEF P
        <3>1. <<>> \in Seq(P)
            OBVIOUS
        <3>2. blocks' = r => blocks' \in Seq(P)
            BY <2>2 DEF P
        <3>3. blocks' = <<>> => blocks' \in Seq(P)
            BY <3>1
        <3> QED BY <2>1, <3>2, <3>3 DEF P
    <2>4. Len(blocks') \in Nat
        BY <2>3
    <2>5. MediaLists'
        <3>1. blocks' \in Seq(Paths(given)') /\ pendingUrls' \in Seq(Paths(given)')
            BY <2>3, <1>1, <1>2, <1>3
        <3>2. cursor' \in Nat /\ cursor' >= 1
            BY <2>1
        <3>3. Range(arrivals)' \subseteq Range(pendingUrls)'
            BY <2>1, <1>1, <1>2 DEF Range
        <3> QED BY <3>1, <3>2, <3>3, <1>4 DEF MediaLists
    <2>6. stripped' = 0 /\ 0 \in 0..Len(blocks') /\ 0 < 1
        BY <2>1, <2>4, <1>1, <1>6 DEF MediaCounts
    <2>7. MediaCounts'
        BY <2>1, <2>6, <1>1, <1>6 DEF MediaCounts
    <2> QED BY <2>5, <2>7
<1>10. CASE Conclude
    <2>1. /\ mediaStage' \in {"modified", "unmodified"} /\ cursor' = cursor /\ blocks' = blocks /\ arrivals' = arrivals
        BY <1>10 DEF Conclude
    <2> QED BY <2>1, <1>1, <1>2, <1>3, <1>4, <1>6 DEF MediaLists, MediaCounts, Range
<1>11. CASE UNCHANGED mediaVars
    <2>1. mediaStage' = mediaStage /\ cursor' = cursor /\ blocks' = blocks /\ arrivals' = arrivals
        BY <1>11 DEF mediaVars
    <2>2. NodeAt(given, <<>>)' = NodeAt(given, <<>>) /\ \A p : NodeAt(given, p)' = NodeAt(given, p)
        BY <1>1 DEF NodeAt
    <2> QED BY <2>1, <2>2, <1>1, <1>2, <1>3, <1>4, <1>6 DEF MediaLists, MediaCounts, Range
<1> QED BY <1>7, <1>8, <1>9, <1>10, <1>11

LEMMA MediaTypesStep == MediaTypes /\ [MediaNext]_mediaVars => MediaTypes'
<1> SUFFICES ASSUME MediaTypes, [MediaNext]_mediaVars PROVE MediaTypes'
    OBVIOUS
<1>1. MediaInv'
    BY MediaStepInv DEF MediaTypes
<1>2. MediaLists' /\ MediaCounts'
    BY WalkTypes, PlaceNextTypes, ScanAudioTypes, OtherMediaTypes DEF MediaNext
<1> QED BY <1>1, <1>2 DEF MediaTypes
=============================================================================
