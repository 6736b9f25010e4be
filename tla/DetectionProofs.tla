--------------------------- MODULE DetectionProofs ---------------------------
(***************************************************************************)
(* What the runs of MCDetection check of seven of its models, for every    *)
(* table, text and list of headers: the labels of the CRF, the evidence    *)
(* of the response integrity scan, the passthrough mode, the hybrid        *)
(* scanner with the blanking of code, the tokens of the FPE engine, the    *)
(* detectors that need no model, and the hooks of the plugin.              *)
(***************************************************************************)
EXTENDS CrfTagger, ResponseIntegrity, Forwarding, HybridScanner, FpeFormat,
        TextDetectors, PluginRedaction, DataLemmas, FiniteSetTheorems

-----------------------------------------------------------------------------
(* The labels of the CRF.                                                  *)

(* What the two passes have made so far.                                   *)
WeighedOK ==
    /\ Len(weighed) \in Nat \ {0} /\ weighed \in [1..Len(weighed) -> Weighings]
TrellisOK ==
    /\ trellis \in Seq([Labels -> Int]) /\ pointers \in Seq([Labels -> Labels])
    /\ Len(trellis) \in 1..Len(weighed) /\ Len(pointers) = Len(trellis)
    /\ trellis[1] = weighed[1]
BestStep(t, j, p) ==
    /\ p \in Labels
    /\ trellis[t][j] = trellis[t - 1][p] + Transitions[p][j] + weighed[t][j]
    /\ \A i \in Labels : trellis[t - 1][i] + Transitions[i][j]
                           <= trellis[t - 1][p] + Transitions[p][j]
PointersOK == \A t \in 2..Len(trellis), j \in Labels : BestStep(t, j, pointers[t][j])
PathOK ==
    crfStage \in {"decode", "done"} =>
      /\ labels \in [1..Len(weighed) -> Labels]
      /\ \A i \in Labels : trellis[Len(weighed)][i] <= trellis[Len(weighed)][labels[Len(weighed)]]
      /\ \A t \in 1..Len(weighed) - 1 : labels[t] = pointers[t + 1][labels[t + 1]]
StageOK ==
    /\ crfStage \in {"forward", "backward", "decode", "done"}
    /\ crfStage # "forward" => Len(trellis) = Len(weighed)
CrfInv == WeighedOK /\ TrellisOK /\ PointersOK /\ StageOK /\ PathOK

(* The labels are the numbers up to twice the types; O is one of them.     *)
LEMMA LabelsAre == Len(TagTypes) \in Nat /\ Labels = 0..2 * Len(TagTypes) /\ 0 \in Labels
    BY ModelAssumption DEF Labels

(* Weights have a first label of the largest.                              *)
LEMMA ArgMaxIs ==
    ASSUME NEW f \in [Labels -> Int]
    PROVE  ArgMax(f) \in Labels /\ \A k \in Labels : f[k] <= f[ArgMax(f)]
<1> DEFINE M == 2 * Len(TagTypes)
           Tops(m, l) == (\A k \in 0..m : f[l] >= f[k]) /\ (\A k \in 0..l - 1 : f[l] > f[k])
           S == {m \in 0..M : \E l \in 0..m : Tops(m, l)}
<1>1. M \in Nat /\ Labels = 0..M
    BY LabelsAre
<1>2. 0 \in S
    BY <1>1
<1>3. ASSUME NEW m \in 0..M - 1, m \in S PROVE m + 1 \in S
    <2>1. PICK l \in 0..m : Tops(m, l)
        BY <1>3
    <2>0. m + 1 \in 0..M /\ l \in Labels /\ m + 1 \in Labels
        BY <1>1
    <2>2. f[l] \in Int /\ f[m + 1] \in Int /\ \A k \in 0..m + 1 : f[k] \in Int
        BY <1>1, <2>0
    <2>3. CASE f[m + 1] > f[l]
        <3>1. \A k \in 0..m : f[m + 1] > f[k]
            BY <2>1, <2>2, <2>3
        <3>2. Tops(m + 1, m + 1)
            BY <2>2, <3>1
        <3> QED BY <2>0, <3>2
    <2>4. CASE f[m + 1] <= f[l]
        <3>1. Tops(m + 1, l)
            BY <2>1, <2>2, <2>4
        <3> QED BY <2>0, <3>1
    <2> QED BY <2>2, <2>3, <2>4
<1>4. 0..M \subseteq S
    <2>1. 0 \in Int /\ M \in Int
        BY <1>1
    <2> HIDE DEF S, M
    <2> QED BY <1>2, <1>3, <2>1, IntervalInduction
<1>5. \E l \in Labels : Tops(M, l)
    <2>1. M \in S
        <3> HIDE DEF S
        <3> QED BY <1>1, <1>4
    <2> QED BY <1>1, <2>1
<1>6. ArgMax(f) \in Labels /\ \A k \in Labels : f[ArgMax(f)] >= f[k]
    BY <1>1, <1>5 DEF ArgMax
<1> QED BY <1>6

-----------------------------------------------------------------------------
(* The weight of a labelling, from the front.                              *)
Sums(ls, g) ==
    /\ g \in [1..Len(weighed) -> Int]
    /\ g[1] = weighed[1][ls[1]]
    /\ \A k \in 2..Len(weighed) :
         g[k] = g[k - 1] + Transitions[ls[k - 1]][ls[k]] + weighed[k][ls[k]]

(* The weight of a labelling is the last of its sums.                      *)
LEMMA WeightIsSum ==
    ASSUME WeighedOK, NEW ls \in [1..Len(weighed) -> Labels]
    PROVE  \E g : Sums(ls, g) /\ WeightOf(ls) = g[Len(weighed)]
<1> DEFINE N    == Len(weighed)
           step == [p \in (1 + 1..N) \X Int |->
                      p[2] + Transitions[ls[p[1] - 1]][ls[p[1]]] + weighed[p[1]][ls[p[1]]]]
           F(f) == [k \in 1..N |-> IF k = 1 THEN weighed[1][ls[1]]
                      ELSE f[k - 1] + Transitions[ls[k - 1]][ls[k]] + weighed[k][ls[k]]]
           f    == CHOOSE g : g = F(g)
<1>1. N \in Nat /\ N >= 1 /\ Len(ls) = N
    BY DEF WeighedOK
<1>2. /\ \A k \in 1..N : ls[k] \in Labels /\ weighed[k] \in [Labels -> Int]
      /\ \A i, j \in Labels : Transitions[i][j] \in Int
    BY ModelAssumption DEF WeighedOK
<1>3. /\ \A k \in 1..N : weighed[k][ls[k]] \in Int
      /\ \A k \in 2..N : k - 1 \in 1..N /\ k \in 1..N /\ Transitions[ls[k - 1]][ls[k]] \in Int
    BY <1>1, <1>2
<1>4. step \in [(1 + 1..N) \X Int -> Int]
    <2>1. ASSUME NEW p \in (1 + 1..N) \X Int
          PROVE  p[2] + Transitions[ls[p[1] - 1]][ls[p[1]]] + weighed[p[1]][ls[p[1]]] \in Int
        <3>1. p[1] \in 2..N /\ p[2] \in Int
            OBVIOUS
        <3>2. weighed[p[1]][ls[p[1]]] \in Int /\ Transitions[ls[p[1] - 1]][ls[p[1]]] \in Int
            BY <1>3, <3>1
        <3> QED BY <3>1, <3>2
    <2> QED BY <2>1
<1>5. PICK g \in [1..N -> Int] : Recursion(g, 1, N, weighed[1][ls[1]], step)
    <2>1. 1 \in Int /\ N \in Int /\ 1 <= N /\ weighed[1][ls[1]] \in Int
        BY <1>1, <1>3
    <2> HIDE DEF N, step, F, f
    <2> QED BY <1>4, <2>1, RecursionExists
<1>6. g = F(g)
    <2>1. ASSUME NEW k \in 1..N PROVE g[k] = F(g)[k]
        <3>1. CASE k = 1
            BY <1>5, <3>1 DEF Recursion
        <3>2. CASE k # 1
            <4>1. k \in 1 + 1..N /\ k - 1 \in 1..N
                BY <1>1, <3>2
            <4>2. g[k] = step[<<k, g[k - 1]>>] /\ <<k, g[k - 1]>> \in (1 + 1..N) \X Int
                <5> HIDE DEF step, N, F
                <5> QED BY <1>5, <4>1 DEF Recursion
            <4>3. step[<<k, g[k - 1]>>] =
                    g[k - 1] + Transitions[ls[k - 1]][ls[k]] + weighed[k][ls[k]]
                BY <4>2
            <4> HIDE DEF step
            <4> QED BY <3>2, <4>2, <4>3
        <3> QED BY <3>1, <3>2
    <2> HIDE DEF step, N
    <2> QED BY <1>5, <2>1
<1>7. f = F(f)
    <2> HIDE DEF F
    <2> QED BY <1>6
<1>8. WeightOf(ls) = f[N]
    BY <1>1 DEF WeightOf
<1>9. /\ f = [k \in 1..N |-> f[k]]
      /\ f[1] = weighed[1][ls[1]]
      /\ \A k \in 2..N : f[k] = f[k - 1] + Transitions[ls[k - 1]][ls[k]] + weighed[k][ls[k]]
    <2>1. \A k \in 2..N : k \in 1..N /\ k # 1
        BY <1>1
    <2>2. 1 \in 1..N
        BY <1>1
    <2> HIDE DEF f, N
    <2> QED BY <1>7, <2>1, <2>2
<1>10. \A k \in 1..N : f[k] \in Int
    <2> DEFINE T == {k \in 1..N : f[k] \in Int}
    <2> HIDE DEF f
    <2>1. 1 \in T
        BY <1>1, <1>3, <1>9
    <2>2. ASSUME NEW k \in 1..N - 1, k \in T PROVE k + 1 \in T
        <3>1. k + 1 \in 2..N /\ k + 1 \in 1..N /\ (k + 1) - 1 = k /\ f[k] \in Int
            BY <1>1, <2>2
        <3>2. /\ f[k + 1] = f[k] + Transitions[ls[k]][ls[k + 1]] + weighed[k + 1][ls[k + 1]]
              /\ Transitions[ls[k]][ls[k + 1]] \in Int /\ weighed[k + 1][ls[k + 1]] \in Int
            BY <1>3, <1>9, <3>1
        <3> QED BY <3>1, <3>2
    <2>3. 1..N \subseteq T
        <3>1. 1 \in Int /\ N \in Int
            BY <1>1
        <3> HIDE DEF T, N
        <3> QED BY <2>1, <2>2, <3>1, IntervalInduction
    <2> QED BY <2>3
<1> HIDE DEF f
<1>11. Sums(ls, f)
    BY <1>9, <1>10 DEF Sums
<1> QED BY <1>8, <1>11

(* One more step keeps a sum below what bounds it.                         *)
LEMMA SumsCompare ==
    \A a, b, c, d, e, f \in Int : a <= b /\ b + c <= d + e => (a + c) + f <= (d + e) + f
    OBVIOUS

(* No labelling weighs more than the trellis says, up to any token.        *)
LEMMA TrellisBounds ==
    ASSUME CrfInv, Len(trellis) = Len(weighed), NEW ls \in [1..Len(weighed) -> Labels],
           NEW g, Sums(ls, g)
    PROVE  \A k \in 1..Len(weighed) : g[k] <= trellis[k][ls[k]]
<1> DEFINE N == Len(weighed)
           T == {k \in 1..N : g[k] <= trellis[k][ls[k]]}
<1>1. /\ N \in Nat /\ N >= 1
      /\ \A k \in 1..N : ls[k] \in Labels /\ g[k] \in Int /\ weighed[k] \in [Labels -> Int]
                         /\ trellis[k] \in [Labels -> Int]
      /\ \A i, j \in Labels : Transitions[i][j] \in Int
    <2>1. /\ N \in Nat /\ N >= 1 /\ N = Len(trellis)
          /\ g \in [1..N -> Int] /\ weighed \in [1..N -> Weighings]
          /\ trellis \in Seq([Labels -> Int])
          /\ Transitions \in [Labels -> [Labels -> Int]] /\ Weighings \subseteq [Labels -> Int]
        BY ModelAssumption DEF CrfInv, WeighedOK, TrellisOK, Sums
    <2> HIDE DEF N
    <2>2. trellis \in [1..N -> [Labels -> Int]]
        BY <2>1
    <2>3. \A k \in 1..N : trellis[k] \in [Labels -> Int]
        BY <2>2
    <2> QED BY <2>1, <2>3
<1>2. 1 \in T
    <2>1. g[1] = trellis[1][ls[1]]
        BY DEF CrfInv, TrellisOK, Sums
    <2>2. trellis[1][ls[1]] \in Int
        BY <1>1
    <2> QED BY <1>1, <2>1, <2>2
<1>3. ASSUME NEW k \in 1..N - 1, k \in T PROVE k + 1 \in T
    <2>1. k + 1 \in 2..N /\ k + 1 \in 1..N /\ (k + 1) - 1 = k /\ k \in 1..N
        BY <1>1
    <2> DEFINE i == ls[k]  j == ls[k + 1]  p == pointers[k + 1][j]
    <2>2. i \in Labels /\ j \in Labels
        BY <1>1, <2>1
    <2>3. BestStep(k + 1, j, p)
        <3> HIDE DEF j
        <3> QED BY <2>1, <2>2 DEF CrfInv, PointersOK
    <2>4. /\ trellis[k + 1][j] = trellis[k][p] + Transitions[p][j] + weighed[k + 1][j]
          /\ trellis[k][i] + Transitions[i][j] <= trellis[k][p] + Transitions[p][j]
          /\ p \in Labels
        <3> HIDE DEF i, j, p
        <3> QED BY <2>1, <2>2, <2>3 DEF BestStep
    <2>5. g[k + 1] = g[k] + Transitions[i][j] + weighed[k + 1][j] /\ g[k] <= trellis[k][i]
        BY <1>3, <2>1 DEF Sums
    <2>6. /\ g[k] \in Int /\ g[k + 1] \in Int /\ trellis[k][i] \in Int /\ trellis[k][p] \in Int
          /\ trellis[k + 1][j] \in Int /\ Transitions[i][j] \in Int /\ Transitions[p][j] \in Int
          /\ weighed[k + 1][j] \in Int
        <3> HIDE DEF i, j, p
        <3> QED BY <1>1, <2>1, <2>2, <2>4
    <2>7. g[k + 1] <= trellis[k + 1][j]
        <3> HIDE DEF i, j, p
        <3>1. g[k] <= trellis[k][i]
            BY <2>5
        <3>2. trellis[k][i] + Transitions[i][j] <= trellis[k][p] + Transitions[p][j]
            BY <2>4
        <3>3. (g[k] + Transitions[i][j]) + weighed[k + 1][j]
                <= (trellis[k][p] + Transitions[p][j]) + weighed[k + 1][j]
            BY <2>6, <3>1, <3>2, SumsCompare
        <3>4. g[k + 1] = (g[k] + Transitions[i][j]) + weighed[k + 1][j]
            BY <2>5
        <3>5. trellis[k + 1][j] = (trellis[k][p] + Transitions[p][j]) + weighed[k + 1][j]
            BY <2>4
        <3> QED BY <3>3, <3>4, <3>5
    <2> QED BY <2>1, <2>7
<1>4. 1..N \subseteq T
    <2>1. 1 \in Int /\ N \in Int
        BY <1>1
    <2> HIDE DEF T, N
    <2> QED BY <1>2, <1>3, <2>1, IntervalInduction
<1> QED BY <1>4

(* The labels chosen weigh as much as the trellis says.                    *)
LEMMA ChosenWeight ==
    ASSUME CrfInv, crfStage \in {"decode", "done"}, NEW g, Sums(labels, g)
    PROVE  \A k \in 1..Len(weighed) : g[k] = trellis[k][labels[k]]
<1> DEFINE N == Len(weighed)
           T == {k \in 1..N : g[k] = trellis[k][labels[k]]}
<1>1. /\ N \in Nat /\ N >= 1 /\ N = Len(trellis)
      /\ \A k \in 1..N : labels[k] \in Labels
      /\ \A k \in 1..N - 1 : labels[k] = pointers[k + 1][labels[k + 1]]
    BY DEF CrfInv, WeighedOK, StageOK, PathOK
<1>2. 1 \in T
    BY <1>1 DEF CrfInv, TrellisOK, Sums
<1>3. ASSUME NEW k \in 1..N - 1, k \in T PROVE k + 1 \in T
    <2>1. k + 1 \in 2..N /\ k + 1 \in 1..N /\ (k + 1) - 1 = k /\ k \in 1..N
        BY <1>1
    <2> DEFINE i == labels[k]  j == labels[k + 1]
    <2>2. i \in Labels /\ j \in Labels /\ i = pointers[k + 1][j]
        BY <1>1, <2>1
    <2>3. BestStep(k + 1, j, i)
        <3> HIDE DEF j, i
        <3> QED BY <1>1, <2>1, <2>2 DEF CrfInv, PointersOK
    <2>4. trellis[k + 1][j] = trellis[k][i] + Transitions[i][j] + weighed[k + 1][j]
        <3> HIDE DEF i, j
        <3> QED BY <2>1, <2>3 DEF BestStep
    <2>5. g[k + 1] = g[k] + Transitions[i][j] + weighed[k + 1][j] /\ g[k] = trellis[k][i]
        BY <1>3, <2>1 DEF Sums
    <2> QED BY <2>1, <2>4, <2>5
<1>4. 1..N \subseteq T
    <2>1. 1 \in Int /\ N \in Int
        BY <1>1
    <2> HIDE DEF T, N
    <2> QED BY <1>2, <1>3, <2>1, IntervalInduction
<1> QED BY <1>4

(* The path the pointers give weighs what bounds every labelling.          *)
LEMMA BestAreChosen == CrfInv => LabelsAreBest
<1> SUFFICES ASSUME CrfInv, crfStage \in {"decode", "done"},
                    NEW other \in [1..Len(weighed) -> Labels]
             PROVE  WeightOf(labels) >= WeightOf(other)
    BY DEF LabelsAreBest
<1> DEFINE N == Len(weighed)
<1>1. WeighedOK /\ labels \in [1..N -> Labels] /\ N \in Nat /\ N >= 1 /\ N = Len(trellis)
      /\ \A i \in Labels : trellis[N][i] <= trellis[N][labels[N]]
    BY DEF CrfInv, WeighedOK, StageOK, PathOK
<1>2. PICK g : Sums(labels, g) /\ WeightOf(labels) = g[N]
    BY <1>1, WeightIsSum
<1>3. PICK h : Sums(other, h) /\ WeightOf(other) = h[N]
    BY <1>1, WeightIsSum
<1>4. N \in 1..N
    BY <1>1
<1>5. h[N] <= trellis[N][other[N]]
    BY <1>1, <1>3, <1>4, TrellisBounds
<1>6. g[N] = trellis[N][labels[N]]
    BY <1>2, <1>4, ChosenWeight
<1>7. other[N] \in Labels /\ labels[N] \in Labels /\ trellis[N] \in [Labels -> Int] /\ h[N] \in Int
    BY <1>1, <1>3, <1>4 DEF Sums, CrfInv, TrellisOK
<1>8. trellis[N][other[N]] \in Int /\ trellis[N][labels[N]] \in Int
      /\ trellis[N][other[N]] <= trellis[N][labels[N]]
    BY <1>1, <1>7
<1> QED BY <1>2, <1>3, <1>5, <1>6, <1>7, <1>8

-----------------------------------------------------------------------------
(* The first row of the trellis is the first token, with no pointers.      *)
LEMMA CrfInitInv == CrfInit => CrfInv
<1> SUFFICES ASSUME CrfInit PROVE CrfInv
    OBVIOUS
<1>1. PICK n \in 1..MaxTags : weighed \in [1..n -> Weighings]
    BY DEF CrfInit
<1>2. /\ trellis = <<weighed[1]>> /\ pointers = <<[j \in Labels |-> 0]>>
      /\ crfStage = "forward"
    BY DEF CrfInit
<1>3. n \in Nat \ {0} /\ Len(weighed) = n
    BY <1>1, ModelAssumption
<1>4. weighed[1] \in [Labels -> Int] /\ [j \in Labels |-> 0] \in [Labels -> Labels]
    BY <1>1, <1>3, LabelsAre, ModelAssumption
<1>5. WeighedOK
    BY <1>1, <1>3 DEF WeighedOK
<1>6. TrellisOK
    <2> DEFINE F == [Labels -> Int]  G == [Labels -> Labels]  z == [j \in Labels |-> 0]
    <2>1. weighed[1] \in F /\ z \in G
        BY <1>4
    <2> HIDE DEF F, G, z
    <2>2. <<weighed[1]>> \in Seq(F) /\ <<z>> \in Seq(G) /\ Len(<<z>>) = 1
        BY <2>1
    <2>3. Len(trellis) = 1 /\ Len(pointers) = 1 /\ trellis[1] = weighed[1]
          /\ trellis \in Seq(F) /\ pointers \in Seq(G)
        BY <1>2, <2>2 DEF z
    <2>4. Len(trellis) \in 1..Len(weighed)
        BY <1>3, <2>3
    <2> QED BY <2>3, <2>4 DEF TrellisOK, F, G
<1>7. PointersOK
    BY <1>2 DEF PointersOK
<1>8. StageOK /\ PathOK
    BY <1>2 DEF StageOK, PathOK
<1> QED BY <1>5, <1>6, <1>7, <1>8 DEF CrfInv

(* One token more: the best way into each of its labels.                   *)
LEMMA ForwardInv ==
    ASSUME CrfInv, Forward PROVE CrfInv'
<1> DEFINE t == Len(trellis)
           row == [j \in Labels |-> Arriving(t, j)[ArgMax(Arriving(t, j))] + weighed[t + 1][j]]
           ptr == [j \in Labels |-> ArgMax(Arriving(t, j))]
           F == [Labels -> Int]  G == [Labels -> Labels]
<1>1. /\ crfStage = "forward" /\ weighed' = weighed /\ labels' = labels
      /\ \/ t = Len(weighed) /\ crfStage' = "backward" /\ trellis' = trellis /\ pointers' = pointers
         \/ /\ t # Len(weighed) /\ trellis' = Append(trellis, row)
            /\ pointers' = Append(pointers, ptr) /\ crfStage' = crfStage
    BY DEF Forward
<1>2. /\ trellis \in Seq(F) /\ pointers \in Seq(G) /\ t \in 1..Len(weighed)
      /\ Len(pointers) = t /\ trellis[1] = weighed[1]
      /\ Len(weighed) \in Nat /\ weighed \in [1..Len(weighed) -> Weighings]
    BY DEF CrfInv, TrellisOK, WeighedOK
<1>3. CASE trellis' = trellis /\ pointers' = pointers
    <2>1. WeighedOK' /\ TrellisOK' /\ PointersOK'
        BY <1>1, <1>3 DEF CrfInv, WeighedOK, TrellisOK, PointersOK, BestStep
    <2>2. crfStage' \in {"forward", "backward"} /\ (crfStage' = "backward" => t = Len(weighed))
        BY <1>1
    <2>3. StageOK' /\ PathOK'
        BY <1>1, <1>3, <2>2 DEF StageOK, PathOK
    <2> QED BY <2>1, <2>3 DEF CrfInv
<1>4. CASE /\ t # Len(weighed) /\ trellis' = Append(trellis, row)
           /\ pointers' = Append(pointers, ptr) /\ crfStage' = crfStage
    <2>1. t + 1 \in 1..Len(weighed) /\ t \in Nat
        BY <1>2, <1>4
    <2>2. trellis[t] \in F /\ weighed[t + 1] \in F
        BY <1>2, <2>1, ModelAssumption
    <2>3. \A i, j \in Labels : Transitions[i][j] \in Int
        BY ModelAssumption
    <2>4. ASSUME NEW j \in Labels
          PROVE  /\ Arriving(t, j) \in F /\ ptr[j] \in Labels
                 /\ ptr[j] = ArgMax(Arriving(t, j))
                 /\ row[j] = trellis[t][ptr[j]] + Transitions[ptr[j]][j] + weighed[t + 1][j]
                 /\ row[j] \in Int
                 /\ \A i \in Labels : trellis[t][i] + Transitions[i][j]
                                       <= trellis[t][ptr[j]] + Transitions[ptr[j]][j]
        <3>1. Arriving(t, j) \in F
            BY <2>2, <2>3 DEF Arriving
        <3>2. ptr[j] = ArgMax(Arriving(t, j))
              /\ row[j] = Arriving(t, j)[ArgMax(Arriving(t, j))] + weighed[t + 1][j]
            OBVIOUS
        <3> DEFINE p == ArgMax(Arriving(t, j))
        <3>3. p \in Labels /\ \A i \in Labels : Arriving(t, j)[i] <= Arriving(t, j)[p]
            BY <3>1, ArgMaxIs
        <3>4. \A i \in Labels : Arriving(t, j)[i] = trellis[t][i] + Transitions[i][j]
            BY DEF Arriving
        <3> HIDE DEF p, row, ptr, t
        <3>5. row[j] = trellis[t][p] + Transitions[p][j] + weighed[t + 1][j]
            BY <3>2, <3>3, <3>4 DEF p
        <3>6. row[j] \in Int
            <4>1. trellis[t][p] \in Int /\ Transitions[p][j] \in Int /\ weighed[t + 1][j] \in Int
                BY <2>2, <2>3, <3>3
            <4> QED BY <3>5, <4>1
        <3>7. ptr[j] = p
            BY <3>2 DEF p
        <3>8. \A i \in Labels : trellis[t][i] + Transitions[i][j] <= trellis[t][p] + Transitions[p][j]
            BY <3>3, <3>4
        <3> QED BY <3>1, <3>3, <3>5, <3>6, <3>7, <3>8 DEF p
    <2>5. row \in F /\ ptr \in G
        <3>1. row = [j \in Labels |-> row[j]] /\ ptr = [j \in Labels |-> ptr[j]]
            OBVIOUS
        <3> HIDE DEF row, ptr
        <3> QED BY <2>4, <3>1
    <2> HIDE DEF row, ptr, F, G
    <2>6. /\ trellis' \in Seq(F) /\ pointers' \in Seq(G)
          /\ Len(trellis') = t + 1 /\ Len(pointers') = t + 1
          /\ trellis'[t + 1] = row /\ pointers'[t + 1] = ptr
          /\ \A k \in 1..t : trellis'[k] = trellis[k] /\ pointers'[k] = pointers[k]
        BY <1>2, <1>4, <2>5
    <2>7. TrellisOK'
        <3>1. trellis'[1] = weighed'[1]
            BY <1>1, <1>2, <2>6
        <3> QED BY <1>1, <2>1, <2>6, <3>1 DEF TrellisOK, F, G
    <2>8. PointersOK'
        <3> SUFFICES ASSUME NEW k \in 2..t + 1, NEW j \in Labels
                     PROVE  BestStep(k, j, pointers[k][j])'
            BY <2>6 DEF PointersOK
        <3>1. CASE k \in 2..t
            <4>1. k \in 1..t /\ k - 1 \in 1..t
                BY <2>1, <3>1
            <4>2. BestStep(k, j, pointers[k][j])
                BY <3>1 DEF CrfInv, PointersOK
            <4>3. pointers'[k] = pointers[k] /\ trellis'[k] = trellis[k] /\ trellis'[k - 1] = trellis[k - 1]
                BY <2>6, <4>1
            <4> QED BY <1>1, <4>2, <4>3 DEF BestStep
        <3>2. CASE k = t + 1
            <4>1. k - 1 = t /\ t \in 1..t
                BY <1>2, <2>1, <3>2
            <4>2. pointers'[k] = ptr /\ trellis'[k] = row /\ trellis'[k - 1] = trellis[t]
                BY <2>6, <3>2, <4>1
            <4>3. weighed'[k] = weighed[t + 1]
                BY <1>1, <3>2
            <4> HIDE DEF t
            <4> QED BY <2>4, <4>2, <4>3 DEF BestStep
        <3>3. k \in 2..t \/ k = t + 1
            BY <2>1
        <3> QED BY <3>1, <3>2, <3>3
    <2>9. WeighedOK' /\ StageOK' /\ PathOK'
        BY <1>1, <1>4 DEF CrfInv, WeighedOK, StageOK, PathOK
    <2> QED BY <2>7, <2>8, <2>9 DEF CrfInv
<1> QED BY <1>1, <1>3, <1>4

(* The labels of the way back are those the pointers lead to.              *)
LEMMA BackwardInv ==
    ASSUME CrfInv, Backward PROVE CrfInv'
<1> DEFINE n == Len(weighed)
           F(f) == [t \in 1..n |-> IF t = n THEN ArgMax(trellis[n]) ELSE pointers[t + 1][f[t + 1]]]
           f == CHOOSE g : g = F(g)
           step == [p \in (1 + 1..n) \X Labels |-> pointers[n - p[1] + 2][p[2]]]
           last == ArgMax(trellis[n])
<1>1. /\ crfStage = "backward" /\ crfStage' = "decode"
      /\ weighed' = weighed /\ trellis' = trellis /\ pointers' = pointers
    BY DEF Backward
<1>2. labels' = [t \in 1..n |-> f[t]]
    BY DEF Backward
<1>3. /\ n \in Nat /\ n >= 1 /\ Len(trellis) = n /\ Len(pointers) = n
      /\ trellis \in Seq([Labels -> Int]) /\ pointers \in Seq([Labels -> Labels])
    BY <1>1 DEF CrfInv, WeighedOK, TrellisOK, StageOK
<1>4. /\ trellis[n] \in [Labels -> Int]
      /\ \A t \in 1..n : pointers[t] \in [Labels -> Labels]
    <2> DEFINE G == [Labels -> Labels]  H == [Labels -> Int]
    <2> HIDE DEF G, H, n
    <2>1. n \in 1..n
        BY <1>3
    <2>2. trellis \in Seq(H) /\ pointers \in Seq(G)
        BY <1>3 DEF G, H
    <2>3. trellis[n] \in H /\ \A t \in 1..n : pointers[t] \in G
        BY <1>3, <2>1, <2>2
    <2> QED BY <2>3 DEF G, H
<1>5. last \in Labels /\ \A k \in Labels : trellis[n][k] <= trellis[n][last]
    BY <1>4, ArgMaxIs
<1>6. step \in [(1 + 1..n) \X Labels -> Labels]
    <2>1. ASSUME NEW p \in (1 + 1..n) \X Labels PROVE pointers[n - p[1] + 2][p[2]] \in Labels
        <3>1. n - p[1] + 2 \in 1..n /\ p[2] \in Labels
            BY <1>3
        <3> HIDE DEF n
        <3> QED BY <1>4, <3>1
    <2> QED BY <2>1
<1>7. PICK g \in [1..n -> Labels] : Recursion(g, 1, n, last, step)
    <2>1. 1 \in Int /\ n \in Int /\ 1 <= n
        BY <1>3
    <2> HIDE DEF n, step, last, F, f
    <2> QED BY <1>5, <1>6, <2>1, RecursionExists
<1>8. PICK h : h = [t \in 1..n |-> g[n - t + 1]]
    OBVIOUS
<1>9. \A t \in 1..n : h[t] \in Labels
    <2>1. ASSUME NEW t \in 1..n PROVE h[t] \in Labels
        <3>1. n - t + 1 \in 1..n /\ h[t] = g[n - t + 1]
            BY <1>3, <1>8
        <3> HIDE DEF n
        <3> QED BY <1>7, <3>1
    <2> QED BY <2>1
<1>10. h = F(h)
    <2>1. ASSUME NEW t \in 1..n PROVE h[t] = F(h)[t]
        <3>1. CASE t = n
            <4>1. n - t + 1 = 1
                BY <1>3, <3>1
            <4>2. h[t] = g[n - t + 1] /\ g[1] = last
                BY <1>7, <1>8 DEF Recursion
            <4>3. h[t] = last
                <5> HIDE DEF n, last
                <5> QED BY <4>1, <4>2
            <4> QED BY <3>1, <4>3
        <3>2. CASE t # n
            <4> DEFINE m == n - t + 1
            <4>1. m \in 1 + 1..n /\ m - 1 \in 1..n /\ t + 1 \in 1..n /\ n - (t + 1) + 1 = m - 1
                  /\ n - m + 2 = t + 1
                BY <1>3, <3>2
            <4>2. h[t] = g[m] /\ h[t + 1] = g[n - (t + 1) + 1]
                BY <1>8, <4>1
            <4>3. h[t + 1] = g[m - 1]
                <5> HIDE DEF m, n
                <5> QED BY <4>1, <4>2
            <4>4. g[m] = step[<<m, g[m - 1]>>] /\ <<m, g[m - 1]>> \in (1 + 1..n) \X Labels
                <5> HIDE DEF m, n, step, last
                <5> QED BY <1>7, <4>1 DEF Recursion
            <4>5. step[<<m, g[m - 1]>>] = pointers[n - m + 2][g[m - 1]]
                <5> HIDE DEF m, n
                <5> QED BY <4>4
            <4>6. h[t] = pointers[t + 1][h[t + 1]]
                <5> HIDE DEF m, n, step
                <5> QED BY <4>1, <4>2, <4>3, <4>4, <4>5
            <4> QED BY <3>2, <4>6
        <3> QED BY <3>1, <3>2
    <2>2. h = [t \in 1..n |-> h[t]]
        BY <1>8
    <2> HIDE DEF n
    <2> QED BY <2>1, <2>2
<1>11. f = F(f)
    <2> HIDE DEF F
    <2> QED BY <1>10
<1>12. /\ f[n] = last
       /\ \A t \in 1..n - 1 : f[t] = pointers[t + 1][f[t + 1]]
    <2>1. n \in 1..n /\ \A t \in 1..n - 1 : t \in 1..n /\ t # n
        BY <1>3
    <2> HIDE DEF f, n
    <2> QED BY <1>11, <2>1
<1> HIDE DEF f
<1>13. \A t \in 1..n : f[t] \in Labels
    <2> DEFINE T == {t \in 1..n : f[t] \in Labels}
    <2>1. n \in T
        BY <1>3, <1>5, <1>12
    <2>2. ASSUME NEW t \in 1 + 1..n, t \in T PROVE t - 1 \in T
        <3>1. t - 1 \in 1..n - 1 /\ t - 1 \in 1..n /\ (t - 1) + 1 = t /\ f[t] \in Labels /\ t \in 1..n
            BY <1>3, <2>2
        <3>2. f[t - 1] = pointers[t][f[t]]
            <4>1. f[t - 1] = pointers[(t - 1) + 1][f[(t - 1) + 1]]
                BY <1>12, <3>1
            <4> QED BY <3>1, <4>1
        <3>3. f[t - 1] \in Labels
            <4> HIDE DEF n
            <4> QED BY <1>4, <3>1, <3>2
        <3> QED BY <3>1, <3>3
    <2>3. 1 \in Int /\ n \in Int
        BY <1>3
    <2>4. 1..n \subseteq T
        <3> HIDE DEF T, n
        <3> QED BY <2>1, <2>2, <2>3, DownwardInduction
    <2> QED BY <2>4
<1>14. /\ labels' \in [1..n -> Labels] /\ labels'[n] = last
       /\ \A t \in 1..n - 1 : labels'[t] = pointers[t + 1][labels'[t + 1]]
    <2>1. n \in 1..n /\ \A t \in 1..n - 1 : t \in 1..n /\ t + 1 \in 1..n
        BY <1>3
    <2> HIDE DEF n, last
    <2> QED BY <1>2, <1>12, <1>13, <2>1
<1>15. PathOK'
    <2> HIDE DEF last
    <2> QED BY <1>1, <1>5, <1>14 DEF PathOK
<1>16. WeighedOK' /\ TrellisOK' /\ PointersOK' /\ StageOK'
    BY <1>1 DEF CrfInv, WeighedOK, TrellisOK, PointersOK, BestStep, StageOK
<1> QED BY <1>15, <1>16 DEF CrfInv

LEMMA CrfStepInv == CrfInv /\ [CrfNext]_crfVars => CrfInv'
<1> SUFFICES ASSUME CrfInv, [CrfNext]_crfVars PROVE CrfInv'
    OBVIOUS
<1>1. CASE DecodeEntities \/ UNCHANGED crfVars
    <2>1. /\ UNCHANGED <<weighed, trellis, pointers, labels>>
          /\ (crfStage' = crfStage \/ (crfStage = "decode" /\ crfStage' = "done"))
        BY <1>1 DEF DecodeEntities, crfVars
    <2> QED BY <2>1 DEF CrfInv, WeighedOK, TrellisOK, PointersOK, BestStep, StageOK, PathOK
<1> QED BY <1>1, ForwardInv, BackwardInv DEF CrfNext

(* The decoder of compute_state_scores to decode_entities, for any number  *)
(* of types, any weights and any length of text: of all labellings none    *)
(* weighs more than the one it chooses.                                    *)
THEOREM BestLabelsChosen == CrfSpec => []LabelsAreBest
BY CrfInitInv, CrfStepInv, BestAreChosen, PTL DEF CrfSpec

-----------------------------------------------------------------------------
(* The evidence of a response.                                             *)

(* The sets found up to each word, by a pass over the words of a text of n *)
(* words: of W what starts there and, unless k is 3, overlaps none.        *)
FittingAt(Y, W, i, k) == {f \in W : f.start = i /\ (k = 3 \/ \A g \in Y : ~Overlaps(f, g))}
Walked(F, n, found, W, k) ==
    /\ F[0] = found
    /\ \A i \in 1..n :
         F[i] = F[i - 1] \cup FittingAt(F[i - 1], W, i, k)

(* Such a pass exists, as a function that is its own recursion.            *)
LEMMA WalkExists ==
    ASSUME NEW n \in Nat, NEW found, NEW W, NEW k
    PROVE  \E F : /\ F = [i \in 0..n |-> F[i]]
                  /\ Walked(F, n, found, W, k)
<1> DEFINE X == SUBSET (found \cup W)
           step == [p \in (0 + 1..n) \X X |->
                      p[2] \cup {f \in W : f.start = p[1] /\ (k = 3 \/ \A g \in p[2] : ~Overlaps(f, g))}]
<1>1. step \in [(0 + 1..n) \X X -> X]
    OBVIOUS
<1>2. 0 \in Int /\ n \in Int /\ 0 <= n /\ found \in X
    OBVIOUS
<1>3. PICK F \in [0..n -> X] : Recursion(F, 0, n, found, step)
    <2> HIDE DEF X, step
    <2> QED BY <1>1, <1>2, RecursionExists
<1>4. ASSUME NEW i \in 1..n
      PROVE  F[i] = F[i - 1] \cup {f \in W : f.start = i /\ (k = 3 \/ \A g \in F[i - 1] : ~Overlaps(f, g))}
    <2>1. i \in 0 + 1..n /\ i - 1 \in 0..n
        OBVIOUS
    <2>2. F[i - 1] \in X /\ F[i] = step[<<i, F[i - 1]>>] /\ <<i, F[i - 1]>> \in (0 + 1..n) \X X
        <3> HIDE DEF X, step
        <3> QED BY <1>3, <2>1 DEF Recursion
    <2> HIDE DEF X
    <2> QED BY <2>2
<1>5. F[0] = found
    BY <1>3 DEF Recursion
<1>6. F = [i \in 0..n |-> F[i]]
    <2> HIDE DEF X
    <2> QED BY <1>3
<1> QED BY <1>4, <1>5, <1>6 DEF Walked, FittingAt

(* What starts behind the i-th word is not there yet; what is there stays. *)
LEMMA WalkGrows ==
    ASSUME NEW n \in Nat, NEW found, NEW W, NEW k, NEW F, Walked(F, n, found, W, k)
    PROVE  \A i \in 0..n :
             /\ found \subseteq F[i] /\ F[i] \subseteq F[n]
             /\ F[i] \subseteq found \cup {f \in W : f.start \in 1..i}
<1> DEFINE S == {i \in 0..n : /\ found \subseteq F[i]
                              /\ F[i] \subseteq found \cup {f \in W : f.start \in 1..i}}
           T == {i \in 0..n : F[i] \subseteq F[n]}
<1>1. 0 \in Int /\ n \in Int
    OBVIOUS
<1>2. 0 \in S
    BY DEF Walked, FittingAt
<1>3. ASSUME NEW i \in 0..n - 1, i \in S PROVE i + 1 \in S
    <2>1. i + 1 \in 1..n /\ (i + 1) - 1 = i
        OBVIOUS
    <2>2. F[i] \subseteq F[i + 1] /\ F[i + 1] \subseteq F[i] \cup {f \in W : f.start = i + 1}
        BY <2>1 DEF Walked, FittingAt
    <2>3. \A x : x \in 1..i \/ x = i + 1 => x \in 1..i + 1
        OBVIOUS
    <2>4. found \subseteq F[i] /\ F[i] \subseteq found \cup {f \in W : f.start \in 1..i}
        BY <1>3
    <2>5. F[i + 1] \subseteq found \cup {f \in W : f.start \in 1..i + 1}
        BY <2>2, <2>3, <2>4
    <2> QED BY <2>1, <2>2, <2>4, <2>5
<1>4. 0..n \subseteq S
    <2> HIDE DEF S
    <2> QED BY <1>1, <1>2, <1>3, IntervalInduction
<1>5. n \in T
    OBVIOUS
<1>6. ASSUME NEW i \in 0 + 1..n, i \in T PROVE i - 1 \in T
    <2>1. i \in 1..n /\ i - 1 \in 0..n
        OBVIOUS
    <2>2. F[i - 1] \subseteq F[i]
        BY <2>1 DEF Walked, FittingAt
    <2> QED BY <1>6, <2>1, <2>2
<1>7. 0..n \subseteq T
    <2> HIDE DEF T
    <2> QED BY <1>1, <1>5, <1>6, DownwardInduction
<1> QED BY <1>4, <1>7

(* The pass of a LET in the code of the models is such a pass.             *)
LEMMA TwoIsWalk ==
    ASSUME NEW n \in Nat, NEW found, NEW W,
           NEW two, two = CHOOSE F : F = [i \in 0..n |->
              IF i = 0 THEN found
              ELSE F[i - 1] \cup {f \in W : f.start = i /\ \A g \in F[i - 1] : ~Overlaps(f, g)}]
    PROVE  Walked(two, n, found, W, 2)
<1> DEFINE G(F) == [i \in 0..n |->
              IF i = 0 THEN found
              ELSE F[i - 1] \cup {f \in W : f.start = i /\ \A g \in F[i - 1] : ~Overlaps(f, g)}]
<1>0. \A Y, i : {f \in W : f.start = i /\ \A g \in Y : ~Overlaps(f, g)} = FittingAt(Y, W, i, 2)
    BY DEF FittingAt
<1>1. PICK F : F = [i \in 0..n |-> F[i]] /\ Walked(F, n, found, W, 2)
    BY WalkExists
<1>2. F = G(F)
    <2>1. ASSUME NEW i \in 0..n PROVE F[i] = G(F)[i]
        <3>1. CASE i = 0
            BY <1>1, <3>1 DEF Walked, FittingAt
        <3>2. CASE i # 0
            <4>1. i \in 1..n
                BY <3>2
            <4> QED BY <1>0, <1>1, <3>2, <4>1 DEF Walked
        <3> QED BY <3>1, <3>2
    <2>2. G(F) = [i \in 0..n |-> G(F)[i]]
        OBVIOUS
    <2> HIDE DEF G
    <2> QED BY <1>1, <2>1, <2>2
<1>3. two = G(two)
    <2> HIDE DEF G
    <2>1. two = CHOOSE H : H = G(H)
        BY DEF G
    <2> QED BY <1>2, <2>1
<1>4. two[0] = found
    <2>1. 0 \in 0..n
        OBVIOUS
    <2>2. two[0] = G(two)[0]
        <3> HIDE DEF G
        <3> QED BY <1>3
    <2> QED BY <2>1, <2>2
<1>5. ASSUME NEW i \in 1..n
      PROVE  two[i] = two[i - 1] \cup {f \in W : f.start = i /\ \A g \in two[i - 1] : ~Overlaps(f, g)}
    <2>1. i \in 0..n /\ i # 0
        OBVIOUS
    <2>2. two[i] = G(two)[i]
        <3> HIDE DEF G
        <3> QED BY <1>3
    <2> QED BY <2>1, <2>2
<1> QED BY <1>0, <1>4, <1>5 DEF Walked

(* The same of the plugin.                                                 *)
LEMMA PassIsWalk ==
    ASSUME NEW n \in Nat, NEW found, NEW W, NEW k,
           NEW spot, spot = CHOOSE F : F = [i \in 0..n |->
              IF i = 0 THEN found
              ELSE F[i - 1] \cup {f \in W : f.start = i /\ (k = 3 \/ \A g \in F[i - 1] : ~Overlaps(f, g))}]
    PROVE  Walked(spot, n, found, W, k)
<1> DEFINE G(F) == [i \in 0..n |->
              IF i = 0 THEN found
              ELSE F[i - 1] \cup {f \in W : f.start = i /\ (k = 3 \/ \A g \in F[i - 1] : ~Overlaps(f, g))}]
<1>1. PICK F : F = [i \in 0..n |-> F[i]] /\ Walked(F, n, found, W, k)
    BY WalkExists
<1>2. F = G(F)
    <2>1. ASSUME NEW i \in 0..n PROVE F[i] = G(F)[i]
        <3>1. CASE i = 0
            BY <1>1, <3>1 DEF Walked, FittingAt
        <3>2. CASE i # 0
            <4>1. i \in 1..n
                BY <3>2
            <4> QED BY <1>1, <3>2, <4>1 DEF Walked, FittingAt
        <3> QED BY <3>1, <3>2
    <2>2. G(F) = [i \in 0..n |-> G(F)[i]]
        OBVIOUS
    <2> HIDE DEF G
    <2> QED BY <1>1, <2>1, <2>2
<1>3. spot = G(spot)
    <2> HIDE DEF G
    <2>1. spot = CHOOSE H : H = G(H)
        BY DEF G
    <2> QED BY <1>2, <2>1
<1>4. spot[0] = found
    <2>1. 0 \in 0..n
        OBVIOUS
    <2>2. spot[0] = G(spot)[0]
        <3> HIDE DEF G
        <3> QED BY <1>3
    <2> QED BY <2>1, <2>2
<1>5. ASSUME NEW i \in 1..n
      PROVE  spot[i] = spot[i - 1] \cup {f \in W : f.start = i /\ (k = 3 \/ \A g \in spot[i - 1] : ~Overlaps(f, g))}
    <2>1. i \in 0..n /\ i # 0
        OBVIOUS
    <2>2. spot[i] = G(spot)[i]
        <3> HIDE DEF G
        <3> QED BY <1>3
    <2> QED BY <2>1, <2>2
<1> QED BY <1>4, <1>5 DEF Walked, FittingAt

(* There is only one.                                                      *)
LEMMA WalkUnique ==
    ASSUME NEW n \in Nat, NEW found, NEW W, NEW k,
           NEW F, Walked(F, n, found, W, k), NEW G, Walked(G, n, found, W, k)
    PROVE  \A i \in 0..n : F[i] = G[i]
<1> DEFINE S == {i \in 0..n : F[i] = G[i]}
<1>1. 0 \in Int /\ n \in Int
    OBVIOUS
<1>2. 0 \in S
    BY DEF Walked
<1>3. ASSUME NEW i \in 0..n - 1, i \in S PROVE i + 1 \in S
    <2>1. i + 1 \in 1..n /\ (i + 1) - 1 = i /\ i + 1 \in 0..n /\ F[i] = G[i]
        BY <1>3
    <2> DEFINE j == i + 1
    <2>2. j \in 1..n /\ F[j - 1] = G[j - 1]
        BY <2>1
    <2> HIDE DEF j
    <2>3. F[j] = G[j]
        BY <2>2 DEF Walked
    <2> QED BY <2>1, <2>3 DEF j
<1>4. 0..n \subseteq S
    <2> HIDE DEF S
    <2> QED BY <1>1, <1>2, <1>3, IntervalInduction
<1> QED BY <1>4

-----------------------------------------------------------------------------
CategoryNames == DOMAIN Lengths

(* The seven categories, each with its place in the report.                *)
LEMMA CategoriesAre ==
    /\ CategoryNames = {"Urgency", "Scarcity", "SocialProof", "Fear", "Authority", "Commercial", "Flattery"}
    /\ IsFiniteSet(CategoryNames)
    /\ \A c \in CategoryNames : Order[c] \in 1..7
<1>1. CategoryNames = {"Urgency", "Scarcity", "SocialProof", "Fear", "Authority", "Commercial", "Flattery"}
    BY DEF CategoryNames, Lengths
<1>2. \A c \in CategoryNames : Order[c] \in 1..7
    BY <1>1 DEF Order
<1>3. IsFiniteSet(CategoryNames)
    <2>1. IsFiniteSet({"Urgency"})
        BY FS_Singleton
    <2>2. IsFiniteSet({"Urgency"} \cup {"Scarcity"})
        BY <2>1, FS_AddElement
    <2>3. IsFiniteSet({"Urgency"} \cup {"Scarcity"} \cup {"SocialProof"})
        BY <2>2, FS_AddElement
    <2>4. IsFiniteSet({"Urgency"} \cup {"Scarcity"} \cup {"SocialProof"} \cup {"Fear"})
        BY <2>3, FS_AddElement
    <2>5. IsFiniteSet({"Urgency"} \cup {"Scarcity"} \cup {"SocialProof"} \cup {"Fear"}
                      \cup {"Authority"})
        BY <2>4, FS_AddElement
    <2>6. IsFiniteSet({"Urgency"} \cup {"Scarcity"} \cup {"SocialProof"} \cup {"Fear"}
                      \cup {"Authority"} \cup {"Commercial"})
        BY <2>5, FS_AddElement
    <2>7. IsFiniteSet({"Urgency"} \cup {"Scarcity"} \cup {"SocialProof"} \cup {"Fear"}
                      \cup {"Authority"} \cup {"Commercial"} \cup {"Flattery"})
        BY <2>6, FS_AddElement
    <2>8. CategoryNames = {"Urgency"} \cup {"Scarcity"} \cup {"SocialProof"} \cup {"Fear"}
                      \cup {"Authority"} \cup {"Commercial"} \cup {"Flattery"}
        BY <1>1
    <2> QED BY <2>7, <2>8
<1> QED BY <1>1, <1>2, <1>3

(* Lookup gives categories.                                                *)
LEMMA LookupType ==
    ASSUME NEW words PROVE Lookup(words) \subseteq CategoryNames
<1> DEFINE has == {p.category : p \in {q \in Phrases : q.words = words}}
           U   == {Order[c] : c \in has}
<1>1. has \subseteq CategoryNames
    BY DictionaryAssumption DEF CategoryNames
<1>2. CASE has = {}
    BY <1>2 DEF Lookup
<1>3. CASE has # {}
    <2>1. U \in SUBSET (1..7) /\ U # {} /\ 7 \in Nat
        <3> HIDE DEF has
        <3> QED BY <1>1, <1>3, CategoriesAre
    <2>2. PICK m \in U : \A x \in U : m <= x
        <3> HIDE DEF U
        <3> QED BY <2>1, LeastExists
    <2> HIDE DEF has
    <2>3. PICK c \in has : m = Order[c]
        BY <2>2
    <2>4. \A d \in has : Order[c] <= Order[d]
        BY <2>2, <2>3
    <2>5. (CHOOSE e \in has : \A d \in has : Order[e] <= Order[d]) \in has
        BY <2>4
    <2>6. Lookup(words) = {CHOOSE e \in has : \A d \in has : Order[e] <= Order[d]}
        BY <1>3 DEF Lookup, has
    <2> QED BY <1>1, <2>5, <2>6
<1> QED BY <1>2, <1>3

(* A match of a window of n words.                                         *)
LEMMA WindowElements ==
    ASSUME NEW t \in Seq(Vocabulary), NEW n \in 1..3, NEW f \in Window(t, n)
    PROVE  /\ f.category \in CategoryNames /\ f.start \in 1..Len(t) - n + 1 /\ f.start \in 1..Len(t)
           /\ f.end = f.start + n /\ f.start \in Int /\ f.end \in Int /\ f.end <= Len(t) + 1
<1>0. PICK i \in 1..(Len(t) - n + 1) : \E c \in Lookup(SubSeq(t, i, i + n - 1)) :
        f = [category |-> c, start |-> i, end |-> i + n]
    BY DEF Window
<1>1. PICK c \in Lookup(SubSeq(t, i, i + n - 1)) : f = [category |-> c, start |-> i, end |-> i + n]
    BY <1>0
<1>2. c \in CategoryNames
    BY <1>1, LookupType
<1>3. f.category = c /\ f.start = i /\ f.end = i + n /\ Len(t) \in Nat
    BY <1>1
<1> QED BY <1>1, <1>2, <1>3

(* The scan in its three passes.                                           *)
More(t, two) == two[Len(t)]
Singles(t, two) == {f \in Window(t, 1) : \A g \in More(t, two) : ~Overlaps(f, g)}

(* scan_dictionary is a walk for two words and a look at single ones.      *)
LEMMA ScanIs ==
    ASSUME NEW t \in Seq(Vocabulary)
    PROVE  \E two : /\ Walked(two, Len(t), Window(t, 3), Window(t, 2), 2)
                    /\ ScanDictionary(t) = More(t, two) \cup Singles(t, two)
<1> DEFINE n == Len(t)
           found == Window(t, 3)
           W == Window(t, 2)
           two == CHOOSE F : F = [i \in 0..n |->
              IF i = 0 THEN found
              ELSE F[i - 1] \cup {f \in W : f.start = i /\ \A g \in F[i - 1] : ~Overlaps(f, g)}]
<1>1. ScanDictionary(t) = two[n] \cup {f \in Window(t, 1) : \A g \in two[n] : ~Overlaps(f, g)}
    BY DEF ScanDictionary
<1>2. n \in Nat
    OBVIOUS
<1>3. Walked(two, n, found, W, 2)
    <2> HIDE DEF n, found, W
    <2> QED BY <1>2, TwoIsWalk
<1> HIDE DEF two
<1> QED BY <1>1, <1>3 DEF More, Singles

(* What the two longer passes find has two words or three.                 *)
LEMMA MoreElements ==
    ASSUME NEW t \in Seq(Vocabulary), NEW two, Walked(two, Len(t), Window(t, 3), Window(t, 2), 2),
           NEW i \in 0..Len(t), NEW g \in two[i]
    PROVE  /\ g \in Window(t, 3) \cup Window(t, 2) /\ g \in More(t, two)
           /\ g.end - g.start \in {2, 3} /\ g.start \in Int /\ g.end \in Int
           /\ g.category \in CategoryNames
<1>1. Len(t) \in Nat
    OBVIOUS
<1>2. /\ two[i] \subseteq Window(t, 3) \cup {f \in Window(t, 2) : f.start \in 1..i}
      /\ two[i] \subseteq two[Len(t)]
    BY <1>1, WalkGrows
<1>3. g \in Window(t, 3) \/ g \in Window(t, 2)
    BY <1>2
<1> QED BY <1>2, <1>3, WindowElements DEF More

(* Nothing in the dictionary is passed over for something shorter.         *)
LEMMA LongestWins ==
    ASSUME NEW t \in Seq(Vocabulary), NEW n \in 1..3, NEW f \in Window(t, n)
    PROVE  \/ f \in ScanDictionary(t)
           \/ \E g \in ScanDictionary(t) : Overlaps(f, g) /\ g.end - g.start >= n
<1>1. PICK two : /\ Walked(two, Len(t), Window(t, 3), Window(t, 2), 2)
                 /\ ScanDictionary(t) = More(t, two) \cup Singles(t, two)
    BY ScanIs
<1>2. Len(t) \in Nat
    OBVIOUS
<1>3. CASE n = 3
    <2>1. Window(t, 3) \subseteq two[Len(t)]
        BY <1>1, <1>2, WalkGrows
    <2> QED BY <1>1, <1>3, <2>1 DEF More
<1>4. CASE n = 2
    <2> DEFINE i == f.start
    <2>1. i \in 1..Len(t) /\ i - 1 \in 0..Len(t) /\ i \in 0..Len(t)
        BY WindowElements
    <2>2. CASE \A g \in two[i - 1] : ~Overlaps(f, g)
        <3>1. f \in two[i]
            BY <1>1, <1>4, <2>1, <2>2 DEF Walked, FittingAt
        <3>2. f \in More(t, two)
            BY <1>1, <2>1, <3>1, MoreElements
        <3> QED BY <1>1, <3>2
    <2>3. CASE \E g \in two[i - 1] : Overlaps(f, g)
        <3>1. PICK g \in two[i - 1] : Overlaps(f, g)
            BY <2>3
        <3>2. g \in More(t, two) /\ g.end - g.start \in {2, 3}
            BY <1>1, <2>1, <3>1, MoreElements
        <3> QED BY <1>1, <1>4, <3>1, <3>2
    <2> QED BY <2>2, <2>3
<1>5. CASE n = 1
    <2>1. CASE f \in Singles(t, two)
        BY <1>1, <2>1
    <2>2. CASE f \notin Singles(t, two)
        <3>1. PICK g \in More(t, two) : Overlaps(f, g)
            BY <1>5, <2>2 DEF Singles
        <3>2. g.end - g.start \in {2, 3}
            BY <1>1, <1>2, <3>1, MoreElements DEF More
        <3> QED BY <1>1, <1>5, <3>1, <3>2
    <2> QED BY <2>1, <2>2
<1> QED BY <1>3, <1>4, <1>5

(* What is found is of the seven categories.                               *)
LEMMA ScanCategories ==
    ASSUME NEW t \in Seq(Vocabulary)
    PROVE  Categories(ScanDictionary(t)) \subseteq CategoryNames
<1>1. PICK two : /\ Walked(two, Len(t), Window(t, 3), Window(t, 2), 2)
                 /\ ScanDictionary(t) = More(t, two) \cup Singles(t, two)
    BY ScanIs
<1>2. ASSUME NEW f \in ScanDictionary(t) PROVE f.category \in CategoryNames
    <2>1. CASE f \in More(t, two)
        <3>1. Len(t) \in 0..Len(t)
            OBVIOUS
        <3> QED BY <1>1, <2>1, <3>1, MoreElements DEF More
    <2>2. CASE f \in Singles(t, two)
        <3>1. f \in Window(t, 1)
            BY <2>2 DEF Singles
        <3> QED BY <3>1, WindowElements
    <2> QED BY <1>1, <1>2, <2>1, <2>2
<1> QED BY <1>2 DEF Categories

(* The three passes of the plugin find the same.                           *)
LEMMA PluginFindsTheSame ==
    ASSUME NEW t \in Seq(Vocabulary) PROVE PluginScan(t) = ScanDictionary(t)
<1> DEFINE N == Len(t)
           pass(found, n) ==
             LET spot[i \in 0..Len(t)] ==
                   IF i = 0 THEN found
                   ELSE spot[i - 1] \cup {f \in Window(t, n) :
                          /\ f.start = i
                          /\ n = 3 \/ \A g \in spot[i - 1] : ~Overlaps(f, g)}
             IN  spot[Len(t)]
<1>1. PluginScan(t) = pass(pass(pass({}, 3), 2), 1)
    BY DEF PluginScan
<1>2. N \in Nat
    OBVIOUS
<1>3. ASSUME NEW found, NEW n
      PROVE  \E spot : Walked(spot, N, found, Window(t, n), n) /\ pass(found, n) = spot[N]
    <2> DEFINE W == Window(t, n)
               spot == CHOOSE F : F = [i \in 0..N |->
                  IF i = 0 THEN found
                  ELSE F[i - 1] \cup {f \in W : f.start = i /\ (n = 3 \/ \A g \in F[i - 1] : ~Overlaps(f, g))}]
    <2>1. pass(found, n) = spot[N]
        OBVIOUS
    <2>3. Walked(spot, N, found, W, n)
        <3> HIDE DEF N, W
        <3> QED BY <1>2, PassIsWalk
    <2> HIDE DEF spot, pass
    <2> QED BY <2>1, <2>3
<1> HIDE DEF pass, N
<1>4. pass({}, 3) = Window(t, 3)
    <2>1. PICK spot : Walked(spot, N, {}, Window(t, 3), 3) /\ pass({}, 3) = spot[N]
        BY <1>3
    <2>2. Walked(spot, N, {}, Window(t, 3), 3)
        BY <2>1
    <2>3. spot[N] \subseteq Window(t, 3)
        BY <1>2, <2>2, WalkGrows
    <2>4. ASSUME NEW f \in Window(t, 3) PROVE f \in spot[N]
        <3> DEFINE i == f.start
        <3>1. i \in 1..N /\ i \in 0..N
            BY WindowElements DEF N
        <3>2. f \in spot[i]
            BY <2>2, <3>1 DEF Walked, FittingAt
        <3> QED BY <1>2, <2>2, <3>1, <3>2, WalkGrows
    <2> QED BY <2>1, <2>3, <2>4
<1>5. PICK two : /\ Walked(two, N, Window(t, 3), Window(t, 2), 2)
                 /\ ScanDictionary(t) = More(t, two) \cup Singles(t, two)
    BY ScanIs DEF N
<1>6. pass(Window(t, 3), 2) = More(t, two)
    <2>1. PICK spot : Walked(spot, N, Window(t, 3), Window(t, 2), 2) /\ pass(Window(t, 3), 2) = spot[N]
        BY <1>3
    <2>2. Walked(spot, N, Window(t, 3), Window(t, 2), 2)
        BY <2>1
    <2>3. N \in 0..N
        BY <1>2
    <2>4. spot[N] = two[N]
        BY <1>2, <1>5, <2>2, <2>3, WalkUnique
    <2> QED BY <2>1, <2>4 DEF More, N
<1>7. pass(More(t, two), 1) = More(t, two) \cup Singles(t, two)
    <2> DEFINE M == More(t, two)
               W == Window(t, 1)
    <2>1. PICK spot : Walked(spot, N, M, W, 1) /\ pass(M, 1) = spot[N]
        BY <1>3
    <2>2. Walked(spot, N, M, W, 1)
        BY <2>1
    <2>3. \A i \in 0..N : M \subseteq spot[i] /\ spot[i] \subseteq spot[N]
                          /\ spot[i] \subseteq M \cup {f \in W : f.start \in 1..i}
        <3> HIDE DEF M, W
        <3> QED BY <1>2, <2>2, WalkGrows
    <2>4. \A f \in W : f.start \in 1..N /\ f.end = f.start + 1
        BY WindowElements DEF N
    <2>5. ASSUME NEW f \in W
          PROVE  f \in spot[f.start] <=> f \in M \/ \A g \in M : ~Overlaps(f, g)
        <3> DEFINE i == f.start
        <3>1. i \in 1..N /\ i - 1 \in 0..N /\ i \in 0..N
            BY <2>4, <1>2
        <3>2. f \in spot[i] <=> f \in spot[i - 1] \/ \A g \in spot[i - 1] : ~Overlaps(f, g)
            <4> HIDE DEF M, W
            <4> QED BY <2>2, <3>1 DEF Walked, FittingAt
        <3>3. f \in spot[i - 1] => f \in M
            BY <2>3, <3>1
        <3>4. \A g \in spot[i - 1] : g \in M \/ ~Overlaps(f, g)
            <4> SUFFICES ASSUME NEW g \in spot[i - 1], g \notin M PROVE ~Overlaps(f, g)
                OBVIOUS
            <4>1. g \in W /\ g.start \in 1..i - 1
                BY <2>3, <3>1
            <4>2. g.end = g.start + 1
                BY <2>4, <4>1
            <4>3. g.end <= f.start /\ g.end \in Int /\ f.start \in Int
                BY <3>1, <4>1, <4>2
            <4> QED BY <4>3 DEF Overlaps
        <3>5. M \subseteq spot[i - 1] /\ M \subseteq spot[i]
            BY <2>3, <3>1
        <3> HIDE DEF M, W, i
        <3> QED BY <3>2, <3>3, <3>4, <3>5 DEF i
    <2>6. ASSUME NEW f \in W, f \in spot[N] PROVE f \in spot[f.start]
        <3> DEFINE S == {i \in 0..N : f \notin spot[i]}
        <3> SUFFICES ASSUME f \notin spot[f.start] PROVE FALSE
            OBVIOUS
        <3>1. f.start \in S /\ f.start \in Int /\ f.start \in 0..N /\ N \in Int
            BY <1>2, <2>4
        <3>2. ASSUME NEW i \in f.start..N - 1, i \in S PROVE i + 1 \in S
            <4>0. f.start \in 1..N
                BY <2>4
            <4>1. i + 1 \in 1..N /\ (i + 1) - 1 = i /\ f.start # i + 1 /\ i + 1 \in 0..N /\ f \notin spot[i]
                <5> HIDE DEF M, W
                <5> QED BY <1>2, <4>0, <3>2
            <4>2. spot[i + 1] = spot[i] \cup {h \in W : h.start = i + 1 /\ (1 = 3 \/ \A g \in spot[i] : ~Overlaps(h, g))}
                <5> HIDE DEF M, W
                <5> QED BY <2>2, <4>1 DEF Walked, FittingAt
            <4> QED BY <4>1, <4>2
        <3>3. f.start..N \subseteq S
            <4> HIDE DEF S, M, W
            <4> QED BY <3>1, <3>2, IntervalInduction
        <3>4. N \in f.start..N
            BY <3>1
        <3> QED BY <2>6, <3>3, <3>4
    <2>7. N \in 0..N
        BY <1>2
    <2>8. ASSUME NEW f PROVE f \in spot[N] <=> f \in M \cup Singles(t, two)
        <3>1. CASE f \in M
            BY <2>3, <2>7, <3>1
        <3>2. CASE f \notin M /\ f \notin W
            BY <2>3, <2>7, <3>2 DEF Singles
        <3>3. CASE f \notin M /\ f \in W
            <4>1. f.start \in 0..N
                BY <1>2, <2>4, <3>3
            <4>2. f \in spot[N] <=> f \in spot[f.start]
                BY <2>3, <2>6, <3>3, <4>1
            <4> QED BY <2>5, <3>3, <4>2 DEF Singles
        <3> QED BY <3>1, <3>2, <3>3
    <2> HIDE DEF M
    <2> QED BY <2>1, <2>8 DEF M
<1> QED BY <1>1, <1>4, <1>5, <1>6, <1>7

-----------------------------------------------------------------------------
(* A scan has finitely many categories.                                    *)
LEMMA CategoriesCount ==
    ASSUME NEW fs, Categories(fs) \subseteq CategoryNames
    PROVE  /\ Cardinality(Categories(fs)) \in Nat
           /\ Categories(fs) = {} => Cardinality(Categories(fs)) = 0
<1>1. IsFiniteSet(Categories(fs))
    BY CategoriesAre, FS_Subset
<1> QED BY <1>1, FS_CardinalityType, FS_EmptySet

(* Two categories are severe, whatever the model found.                    *)
LEMMA TwoAreSevere ==
    ASSUME NEW fs, Categories(fs) \subseteq CategoryNames, Cardinality(Categories(fs)) >= 2,
           NEW found, found \subseteq Articles, NEW scores
    PROVE  Severity(fs, found, scores) \in {2, 3}
<1>1. Cardinality(found) \in Nat
    BY DictionaryAssumption, FS_Subset, FS_CardinalityType
<1>2. Cardinality(Categories(fs)) + Cardinality(found) >= 2
    BY <1>1, CategoriesCount
<1> DEFINE total == Cardinality(Categories(fs)) + Cardinality(found)
<1> HIDE DEF total
<1>3. Severity(fs, found, scores) \in {1, 2, 3}
    BY DEF Severity
<1>4. total >= 2
    BY <1>2 DEF total
<1> QED BY <1>4 DEF Severity, total

(* The plugin weighs as the core does without a model.                     *)
LEMMA PluginWeighsTheSame ==
    ASSUME NEW fs, Categories(fs) \subseteq CategoryNames, fs # {}, NEW scores
    PROVE  PluginSeverity(fs) = Severity(fs, {}, scores)
<1>1. Cardinality({}) = 0
    BY FS_EmptySet
<1>2. Cardinality(Categories(fs)) \in Nat
    BY CategoriesCount
<1>3. Categories(fs) # {}
    BY DEF Categories
<1> DEFINE cs == Categories(fs)
           n == Cardinality(cs)
           m == Cardinality({})
           fear == "Commercial" \in cs /\ cs \cap {"Fear", "Urgency"} # {}
           many == Cardinality(fs) >= 3
<1>4. n + m = n /\ n \in Nat /\ ~(m >= 2)
    BY <1>1, <1>2
<1>5. Severity(fs, {}, scores) = IF n + m >= 4 \/ fear THEN 3
                                 ELSE IF n + m >= 2 \/ many THEN 2 ELSE 1
    <2>1. Severity(fs, {}, scores) =
            IF n + m >= 4 \/ fear \/ (m >= 2 /\ \E a \in Articles : scores[a] > 90) THEN 3
            ELSE IF n + m >= 2 \/ many \/ (cs = {} /\ {} # {}) THEN 2 ELSE 1
        BY DEF Severity
    <2> HIDE DEF n, m, fear, many
    <2> QED BY <1>4, <2>1
<1>6. PluginSeverity(fs) = IF n >= 4 THEN 3 ELSE IF fear THEN 3 ELSE IF n >= 2 \/ many THEN 2 ELSE 1
    BY DEF PluginSeverity
<1> HIDE DEF n, m, fear, many
<1> QED BY <1>4, <1>5, <1>6

-----------------------------------------------------------------------------
(* What the words of a scan are found to be, before the model speaks and   *)
(* after; two categories of it are never suppressed and get a report.      *)
RiInv ==
    /\ prose \in Seq(Vocabulary)
    /\ Categories(flags) \subseteq CategoryNames
    /\ stage \in {"received", "extracted"} => flags = {}
    /\ stage = "flagged" => flags = ScanDictionary(prose)
    /\ stage \in {"received", "extracted", "flagged", "window"} => role = "not_used"
    /\ prediction.found \subseteq Articles
    /\ role = "suppress" => ~(Cardinality(Categories(flags)) >= 2)
    /\ stage \in {"reported", "done"} /\ Cardinality(Categories(flags)) >= 2 => report.tier >= 2

(* Before the scan nothing is found.                                       *)
LEMMA RiInitInv == RiInit => RiInv
<1> SUFFICES ASSUME RiInit PROVE RiInv
    OBVIOUS
<1>1. /\ prose = <<>> /\ stage = "received" /\ flags = {} /\ prediction = NoScores
      /\ role = "not_used"
    BY DEF RiInit
<1>2. Categories(flags) = {} /\ prediction.found = {}
    BY <1>1 DEF Categories, NoScores
<1> QED BY <1>1, <1>2 DEF RiInv

(* What the model's labels make of the flags is no suppression of two.     *)
LEMMA RoleOfTwo ==
    \A found : RoleOf(found) = "suppress" => ~(Cardinality(Categories(flags)) >= 2)
BY DEF RoleOf

(* Each step of the response integrity scan keeps the invariant.           *)
LEMMA RiStepInv == RiInv /\ [RiNext]_riVars => RiInv'
<1> SUFFICES ASSUME RiInv, [RiNext]_riVars PROVE RiInv'
    OBVIOUS
<1>inv. /\ prose \in Seq(Vocabulary)
        /\ Categories(flags) \subseteq CategoryNames
        /\ stage \in {"received", "extracted"} => flags = {}
        /\ stage = "flagged" => flags = ScanDictionary(prose)
        /\ stage \in {"received", "extracted", "flagged", "window"} => role = "not_used"
        /\ prediction.found \subseteq Articles
        /\ role = "suppress" => ~(Cardinality(Categories(flags)) >= 2)
        /\ stage \in {"reported", "done"} /\ Cardinality(Categories(flags)) >= 2 => report.tier >= 2
    BY DEF RiInv
<1>none. Cardinality(Categories({})) = 0 /\ Categories({}) = {}
    BY FS_EmptySet DEF Categories
<1>1. CASE Extract
    <2>1. /\ stage = "received" /\ stage' \in {"extracted", "done"}
          /\ UNCHANGED <<flags, prediction, role, report, label>>
        BY <1>1 DEF Extract
    <2>2. prose' \in Seq(Vocabulary)
        <3>1. prose' = prose \/ \E n \in 1..MaxWords : prose' \in [1..n -> Vocabulary]
            BY <1>1 DEF Extract
        <3>2. \A n \in 1..MaxWords : n \in Nat
            BY DictionaryAssumption
        <3> QED BY <1>inv, <3>1, <3>2
    <2>3. flags' = {} /\ role' = "not_used"
        BY <1>inv, <2>1
    <2>4. Categories(flags') = {} /\ ~(Cardinality(Categories(flags')) >= 2)
        BY <1>none, <2>3
    <2> QED BY <1>inv, <2>1, <2>2, <2>3, <2>4 DEF RiInv
<1>2. CASE ScanR1
    <2>1. /\ stage = "extracted" /\ flags' = ScanDictionary(prose) /\ stage' = "flagged"
          /\ UNCHANGED <<prose, prediction, role, report, label>>
        BY <1>2 DEF ScanR1
    <2>2. Categories(flags') \subseteq CategoryNames
        BY <1>inv, <2>1, ScanCategories
    <2> QED BY <1>inv, <2>1, <2>2 DEF RiInv
<1>3. CASE SkipR2 \/ R2Fails
    <2>1. /\ stage \in {"flagged", "window"} /\ stage' = "merged"
          /\ UNCHANGED <<prose, flags, prediction, role, report, label>>
        BY <1>3 DEF SkipR2, R2Fails
    <2> QED BY <1>inv, <2>1 DEF RiInv
<1>4. CASE PredictWindow
    <2>1. /\ stage = "flagged" /\ stage' \in {"merged", "window"}
          /\ UNCHANGED <<prose, flags, report, label>>
          /\ \/ prediction' = prediction /\ role' = role
             \/ prediction'.found = {} /\ role' = RoleOf({}) /\ stage' = "merged"
        BY <1>4 DEF PredictWindow
    <2>2. CASE prediction' = prediction /\ role' = role
        BY <1>inv, <2>1, <2>2 DEF RiInv
    <2>3. CASE prediction'.found = {} /\ role' = RoleOf({}) /\ stage' = "merged"
        BY <1>inv, <2>1, <2>3, RoleOfTwo DEF RiInv
    <2> QED BY <2>1, <2>2, <2>3
<1>5. CASE PredictAll
    <2>1. /\ stage' = "merged" /\ UNCHANGED <<prose, flags, report, label>>
          /\ prediction'.found \subseteq Articles /\ \E found : role' = RoleOf(found)
        BY <1>5 DEF PredictAll
    <2> QED BY <1>inv, <2>1, RoleOfTwo DEF RiInv
<1>6. CASE Merge
    <2> DEFINE tier == Severity(flags, prediction.found, prediction.scores)
               none == \/ role = "suppress"
                       \/ flags = {} /\ prediction.found = {}
                       \/ sensitivity = "low" /\ tier = 1
    <2>1. /\ stage = "merged" /\ stage' \in {"done", "reported"}
          /\ UNCHANGED <<prose, flags, prediction, role>>
          /\ ~none => report'.tier = tier
        BY <1>6 DEF Merge
    <2>2. ASSUME Cardinality(Categories(flags)) >= 2 PROVE report'.tier >= 2
        <3>1. tier \in {2, 3}
            BY <1>inv, <2>2, TwoAreSevere
        <3>2. role # "suppress" /\ flags # {}
            <4>1. flags = {} => ~(Cardinality(Categories(flags)) >= 2)
                BY <1>none
            <4> QED BY <1>inv, <2>2, <4>1
        <3> HIDE DEF tier
        <3> QED BY <2>1, <3>1, <3>2
    <2> HIDE DEF none, tier
    <2> QED BY <1>inv, <2>1, <2>2 DEF RiInv
<1>7. CASE Inject
    <2>1. /\ stage = "reported" /\ stage' = "done"
          /\ UNCHANGED <<prose, flags, prediction, role, report>>
        BY <1>7 DEF Inject
    <2> QED BY <1>inv, <2>1 DEF RiInv
<1>8. CASE UNCHANGED riVars
    <2>1. UNCHANGED <<prose, stage, flags, prediction, role, report>>
        BY <1>8 DEF riVars
    <2> QED BY <1>inv, <2>1 DEF RiInv
<1> QED BY <1>1, <1>2, <1>3, <1>4, <1>5, <1>6, <1>7, <1>8 DEF RiNext

(* It gives all three.                                                     *)
LEMMA RiInvIsEnough == RiInv => EvidenceCounts
<1> SUFFICES ASSUME RiInv PROVE EvidenceCounts
    OBVIOUS
<1>1. LongestPhraseWins
    <2> SUFFICES ASSUME stage = "flagged", NEW n \in 1..3, NEW f \in Window(prose, n)
                 PROVE  \/ f \in flags
                        \/ \E g \in flags : Overlaps(f, g) /\ g.end - g.start >= n
        BY DEF LongestPhraseWins
    <2>1. prose \in Seq(Vocabulary) /\ flags = ScanDictionary(prose)
        BY DEF RiInv
    <2> QED BY <2>1, LongestWins
<1>2. StrongEvidenceStands
    BY DEF RiInv, StrongEvidenceStands
<1>3. PluginAgrees
    <2> SUFFICES ASSUME stage = "flagged"
                 PROVE  /\ PluginScan(prose) = flags
                        /\ flags # {} =>
                             PluginSeverity(flags) = Severity(flags, {}, [a \in Articles |-> 0])
        BY DEF PluginAgrees
    <2>1. prose \in Seq(Vocabulary) /\ flags = ScanDictionary(prose)
          /\ Categories(flags) \subseteq CategoryNames
        BY DEF RiInv
    <2> QED BY <2>1, PluginFindsTheSame, PluginWeighsTheSame
<1> QED BY <1>1, <1>2, <1>3 DEF EvidenceCounts

(* The dictionary misses nothing that no longer phrase covers, two         *)
(* categories are always reported, and the plugin finds and weighs the     *)
(* same, for every dictionary, vocabulary and model.                       *)
THEOREM EvidenceIsCounted == RiSpec => []EvidenceCounts
<1>1. RiInit => RiInv
    BY RiInitInv
<1>2. RiInv /\ [RiNext]_riVars => RiInv'
    BY RiStepInv
<1>3. RiInv => EvidenceCounts
    BY RiInvIsEnough
<1> QED BY <1>1, <1>2, <1>3, PTL DEF RiSpec

-----------------------------------------------------------------------------
(* The passthrough mode.                                                   *)

(* A name that a header list has is of a header of it, the last such.      *)
LEMMA LastHeader ==
    ASSUME NEW headers \in Seq(Headers), NEW n \in NamesIn(headers)
    PROVE  <<n, LastOf(headers, n)>> \in ToSet(headers)
<1> DEFINE N == Len(headers)
           T == {i \in 1..N : headers[i][1] = n}
           P(i) == headers[i][1] = n /\ \A j \in i + 1..N : headers[j][1] # n
<1>1. N \in Nat /\ DOMAIN headers = 1..N /\ \A i \in 1..N : headers[i] \in Headers
    OBVIOUS
<1>2. T \in SUBSET (1..N) /\ T # {}
    BY <1>1 DEF NamesIn, ToSet
<1>3. PICK m \in T : \A x \in T : x <= m
    <2> HIDE DEF T, N
    <2> QED BY <1>1, <1>2, GreatestExists
<1>4. P(m)
    <2> SUFFICES ASSUME NEW j \in m + 1..N, headers[j][1] = n PROVE FALSE
        OBVIOUS
    <2>1. j \in T /\ m \in 1..N /\ j > m
        BY <1>1
    <2> QED BY <1>1, <1>3, <2>1
<1> DEFINE k == CHOOSE i \in 1..N : P(i)
<1>5. k \in 1..N /\ P(k)
    <2> HIDE DEF P
    <2> QED BY <1>4
<1>6. LastOf(headers, n) = headers[k][2]
    BY <1>1 DEF LastOf
<1> HIDE DEF k
<1>7. headers[k] = <<n, headers[k][2]>>
    <2>1. headers[k] \in STRING \X STRING
        BY <1>1, <1>5 DEF Headers
    <2>2. headers[k][1] = n
        BY <1>5
    <2> QED BY <2>1, <2>2
<1> QED BY <1>1, <1>5, <1>6, <1>7 DEF ToSet

(* The names a map gets, with another inserted.                            *)
LEMMA InsertedNames ==
    ASSUME NEW headers, NEW without
    PROVE  /\ DOMAIN Inserted(headers, without) = NamesIn(headers) \ without
           /\ \A n \in NamesIn(headers) \ without : Inserted(headers, without)[n] = LastOf(headers, n)
BY DEF Inserted

(* Setting a header adds its name and leaves the others.                   *)
LEMMA WithNames ==
    ASSUME NEW map, NEW n, NEW v
    PROVE  /\ DOMAIN With(map, n, v) = DOMAIN map \cup {n}
           /\ \A k \in DOMAIN map : k # n => With(map, n, v)[k] = map[k]
BY DEF With

(* What is behind a prefix, behind the prefix, is all.                     *)
LEMMA PrefixAndRest ==
    ASSUME NEW X, NEW p \in Seq(X), NEW s \in Seq(X), IsPrefix(p, s)
    PROVE  p \o SubSeq(s, Len(p) + 1, Len(s)) = s
<1> DEFINE m == Len(p)
           r == SubSeq(s, m + 1, Len(s))
<1>1. m \in 0..Len(s) /\ Len(s) \in Nat /\ m \in Nat
    BY DEF IsPrefix
<1>2. r \in Seq(X) /\ Len(r) = Len(s) - m /\ \A i \in 1..Len(s) - m : r[i] = s[m + i]
    <2> HIDE DEF m
    <2> QED BY <1>1, SuffixElements
<1>3. \A i \in 1..m : p[i] = s[i]
    <2> TAKE i \in 1..m
    <2>1. SubSeq(p, 1, m)[i] = p[i] /\ SubSeq(s, 1, m)[i] = s[i]
        BY <1>1
    <2> QED BY <2>1 DEF IsPrefix
<1>4. p \o r \in Seq(X) /\ Len(p \o r) = Len(s)
      /\ \A i \in 1..Len(s) : (p \o r)[i] = IF i <= m THEN p[i] ELSE r[i - m]
    <2> HIDE DEF r
    <2> QED BY <1>1, <1>2
<1>5. \A i \in 1..Len(s) : (p \o r)[i] = s[i]
    <2> TAKE i \in 1..Len(s)
    <2>1. CASE i <= m
        <3>1. i \in 1..m
            BY <2>1, <1>1
        <3> HIDE DEF m, r
        <3> QED BY <1>3, <1>4, <2>1, <3>1
    <2>2. CASE i > m
        <3>1. i - m \in 1..Len(s) - m /\ m + (i - m) = i /\ ~(i <= m)
            BY <2>2, <1>1
        <3> HIDE DEF m, r
        <3>2. r[i - m] = s[i]
            BY <1>2, <3>1
        <3> QED BY <1>4, <3>1, <3>2
    <2> QED BY <1>1, <2>1, <2>2
<1> HIDE DEF r
<1>6. Len(p \o r) = Len(s) /\ \A i \in 1..Len(p \o r) : (p \o r)[i] = s[i]
    BY <1>4, <1>5
<1>7. p \o r = s
    BY <1>4, <1>6, SameSequence
<1> QED BY <1>7 DEF r

-----------------------------------------------------------------------------
(* Nothing is restored of nothing.                                         *)
LEMMA RestoredOfNone == Restored(<<>>) = <<>>
<1> DEFINE text == <<>>
           F(u) == [n \in 0..Len(text) |->
                      IF n = 0 THEN <<>>
                      ELSE IF text[n] = "k" /\ u[n - 1] # <<>> /\ Last(u[n - 1]) = "t"
                           THEN Front(u[n - 1]) \o <<"P">>
                           ELSE Append(u[n - 1], text[n])]
           upTo == CHOOSE u : u = F(u)
           none == [n \in 0..0 |-> <<>>]
<1>1. Len(text) = 0 /\ 0 \in 0..0 /\ \A n \in 0..0 : n = 0
    OBVIOUS
<1>2. \A u : F(u) = none
    BY <1>1
<1>3. upTo = F(upTo)
    <2> HIDE DEF F, none
    <2> QED BY <1>2
<1>4. upTo[0] = <<>>
    <2> HIDE DEF upTo
    <2> QED BY <1>1, <1>2, <1>3
<1>5. Restored(text) = upTo[Len(text)]
    BY DEF Restored
<1> HIDE DEF upTo
<1> QED BY <1>1, <1>4, <1>5

(* The texts of the lines of a kind.                                       *)
Texts(form, lines) == [i \in DOMAIN lines |-> ContentOfLine(form, lines[i])]

(* The texts of the lines of a kind are theirs, in their order.            *)
LEMMA TextsAre ==
    ASSUME NEW form, NEW lines \in Seq(NdjsonLine)
    PROVE  /\ Texts(form, lines) \in Seq(Seq(AnswerCells)) /\ Len(Texts(form, lines)) = Len(lines)
           /\ \A i \in 1..Len(lines) : Texts(form, lines)[i] = ContentOfLine(form, lines[i])
           /\ Fields(form, lines) = FlattenSeq(Texts(form, lines))
           /\ Len(lines) \in Nat
<1>1. Len(lines) \in Nat /\ DOMAIN lines = 1..Len(lines) /\ \A i \in 1..Len(lines) : lines[i] \in NdjsonLine
    OBVIOUS
<1>2. \A i \in 1..Len(lines) : ContentOfLine(form, lines[i]) \in Seq(AnswerCells)
    <2>1. \A i \in 1..Len(lines) : lines[i].text \in Seq(AnswerCells) /\ <<>> \in Seq(AnswerCells)
        BY <1>1 DEF NdjsonLine
    <2> QED BY <2>1 DEF ContentOfLine
<1>3. Fields(form, lines) = FlattenSeq(Texts(form, lines))
    BY DEF Fields, Texts
<1> QED BY <1>1, <1>2, <1>3 DEF Texts

(* Each line restored.                                                     *)
EachRestored(lines) == [i \in DOMAIN lines |-> [lines[i] EXCEPT !.text = Restored(@)]]

(* Each line restored has its text restored and is of its kind.            *)
LEMMA EachRestoredIs ==
    ASSUME NEW lines \in Seq(NdjsonLine)
    PROVE  /\ DOMAIN EachRestored(lines) = 1..Len(lines) /\ DOMAIN lines = 1..Len(lines)
           /\ \A i \in 1..Len(lines) : /\ EachRestored(lines)[i].text = Restored(lines[i].text)
                                       /\ EachRestored(lines)[i].kind = lines[i].kind
<1>1. DOMAIN lines = 1..Len(lines) /\ \A i \in 1..Len(lines) : lines[i] \in NdjsonLine
    OBVIOUS
<1> QED BY <1>1 DEF EachRestored, NdjsonLine

(* A single line restored is the restored text; lines without text have    *)
(* none afterwards.                                                        *)
LEMMA FewRestored ==
    ASSUME NEW lines \in Seq(NdjsonLine), NEW k, \A i \in 1..Len(lines) : lines[i].kind = k,
           Len(lines) = 1 \/ Fields(k, lines) = <<>>
    PROVE  Fields(k, EachRestored(lines)) = Restored(Fields(k, lines))
<1> DEFINE new == EachRestored(lines)
           ts == [i \in DOMAIN new |-> ContentOfLine(k, new[i])]
<1>1. Fields(k, new) = FlattenSeq(ts) /\ DOMAIN new = 1..Len(lines) /\ Len(lines) \in Nat
    BY EachRestoredIs, TextsAre DEF Fields
<1>2. \A i \in 1..Len(lines) : ts[i] = Restored(lines[i].text) /\ Texts(k, lines)[i] = lines[i].text
    <2>1. \A i \in 1..Len(lines) : new[i].text = Restored(lines[i].text) /\ new[i].kind = lines[i].kind
        BY EachRestoredIs
    <2>2. \A i \in 1..Len(lines) : ts[i] = ContentOfLine(k, new[i])
        BY <1>1
    <2>3. DOMAIN lines = 1..Len(lines)
        BY EachRestoredIs
    <2>4. \A i \in 1..Len(lines) : Texts(k, lines)[i] = lines[i].text
        BY <2>3 DEF ContentOfLine, Texts
    <2> HIDE DEF new, ts
    <2> QED BY <2>1, <2>2, <2>4 DEF ContentOfLine
<1>3. CASE Len(lines) = 1
    <2>1. 1 \in 1..1 /\ \A i \in 1..1 : i = 1
        OBVIOUS
    <2>2. ts = <<Restored(lines[1].text)>>
        <3>1. ts = [i \in 1..1 |-> ts[i]]
            BY <1>1, <1>3
        <3>2. ts[1] = Restored(lines[1].text)
            BY <1>2, <1>3, <2>1
        <3> HIDE DEF ts
        <3> QED BY <2>1, <3>1, <3>2
    <2>3. Texts(k, lines)[1] = lines[1].text
        BY <1>2, <1>3, <2>1
    <2>4. Fields(k, lines) = lines[1].text
        BY <1>3, <2>3, TextsAre, FlattenType
    <2> HIDE DEF ts
    <2> QED BY <1>1, <2>2, <2>4, FlattenOfOne DEF new
<1>4. CASE Fields(k, lines) = <<>>
    <2>1. \A i \in 1..Len(lines) : lines[i].text = <<>>
        <3>1. \A i \in 1..Len(lines) : Texts(k, lines)[i] = <<>>
            BY <1>4, TextsAre, FlattenType
        <3> HIDE DEF ts, new
        <3> QED BY <1>2, <3>1
    <2>2. \A i \in 1..Len(lines) : ts[i] = <<>>
        <3> HIDE DEF ts
        <3> QED BY <1>2, <2>1, RestoredOfNone
    <2>3. ts \in Seq(Seq(AnswerCells)) /\ Len(ts) = Len(lines)
        <3>1. ts = [i \in 1..Len(lines) |-> ts[i]]
            BY <1>1
        <3> DEFINE Y == Seq(AnswerCells)
        <3>2. <<>> \in Y
            OBVIOUS
        <3> HIDE DEF ts, Y
        <3>3. \A i \in 1..Len(lines) : ts[i] \in Y
            BY <2>2, <3>2
        <3>4. ts \in Seq(Y) /\ Len(ts) = Len(lines)
            BY <1>1, <3>1, <3>3
        <3> QED BY <3>4 DEF Y
    <2>4. FlattenSeq(ts) = <<>>
        <3> HIDE DEF ts
        <3> QED BY <2>2, <2>3, FlattenType
    <2> HIDE DEF ts
    <2> QED BY <1>1, <1>4, <2>4, RestoredOfNone DEF new
<1> QED BY <1>3, <1>4

(* The body that the client is given for lines all of a kind of Ollama's.  *)
LEMMA KindsAreRestored ==
    ASSUME NEW k \in {"chat", "generate"}, answered.lines \in Seq(NdjsonLine), Mapped, answered.utf8,
           {answered.lines[i].kind : i \in DOMAIN answered.lines} = {k}
    PROVE  Fields(k, ProcessResponseBody) = Restored(Fields(k, answered.lines))
<1> DEFINE lines == answered.lines
<1>1. /\ Len(lines) \in Nat /\ DOMAIN lines = 1..Len(lines)
      /\ \A i \in 1..Len(lines) : lines[i] \in NdjsonLine
    OBVIOUS
<1>2. (\A i \in 1..Len(lines) : lines[i].kind = k) /\ Len(lines) # 0
    <2>1. \A i \in DOMAIN lines : lines[i].kind = k
        OBVIOUS
    <2>2. PICK i \in DOMAIN lines : TRUE
        OBVIOUS
    <2> HIDE DEF lines
    <2> QED BY <1>1, <2>1, <2>2
<1>3. CASE Collapsible(lines)
    <2>1. Len(lines) >= 2 /\ 1 \in 1..Len(lines) /\ lines[1].kind = k
        BY <1>1, <1>2, <1>3 DEF Collapsible
    <2> DEFINE others == {l \in ToSet(lines) : l.kind # "garbage"}
               parsed == Those(lines, others)
               text == Restored(Fields(k, lines))
    <2>2. Last(parsed).kind = k
        <3>1. parsed \in Seq(NdjsonLine \cap others) /\ ToSet(parsed) = ToSet(lines) \cap others
            <4> HIDE DEF others, lines
            <4>1. lines \in Seq(NdjsonLine)
                BY DEF lines
            <4> QED BY <4>1, ThoseElements
        <3>2. ToSet(lines) \cap others # {}
            <4>1. lines[1] \in ToSet(lines) /\ lines[1].kind # "garbage"
                BY <1>1, <2>1 DEF ToSet
            <4> QED BY <4>1
        <3>3. Len(parsed) # 0
            <4> HIDE DEF parsed, others, lines
            <4> SUFFICES ASSUME Len(parsed) = 0 PROVE FALSE
                OBVIOUS
            <4>1. ToSet(parsed) # {}
                BY <3>1, <3>2
            <4>2. \A x \in ToSet(parsed) : \E i \in 1..Len(parsed) : x = parsed[i]
                BY <3>1, ToSetElements
            <4> QED BY <4>1, <4>2
        <3>4. Len(parsed) \in 1..Len(parsed)
            <4> HIDE DEF parsed, others
            <4> QED BY <3>1, <3>3
        <3>5. parsed[Len(parsed)] \in others
            <4> HIDE DEF parsed, others
            <4> QED BY <3>1, <3>4
        <3>6. \A l \in others : l.kind = k
            BY <1>1, <1>2 DEF ToSet
        <3> HIDE DEF parsed, others
        <3> QED BY <3>5, <3>6 DEF Last
    <2>3. CollapseNdjson(lines) = <<[kind |-> k, text |-> text]>>
        <3>1. CollapseNdjson(lines) = IF k = "chat" /\ Last(parsed).kind # "chat" THEN <<Last(parsed)>>
                                      ELSE <<[kind |-> k, text |-> text]>>
            BY <2>1 DEF CollapseNdjson
        <3> HIDE DEF parsed, text
        <3> QED BY <2>2, <3>1
    <2>4. ProcessResponseBody = CollapseNdjson(lines)
        BY <1>3 DEF ProcessResponseBody
    <2> HIDE DEF text
    <2>5. Fields(k, <<[kind |-> k, text |-> text]>>) = text
        <3> DEFINE new == <<[kind |-> k, text |-> text]>>
                   ts == [i \in DOMAIN new |-> ContentOfLine(k, new[i])]
        <3>1. DOMAIN new = {1} /\ new[1].kind = k /\ new[1].text = text
            OBVIOUS
        <3>2. ts = <<text>>
            <4>1. \A i \in {1} : ContentOfLine(k, new[i]) = text
                <5> HIDE DEF new
                <5> QED BY <3>1 DEF ContentOfLine
            <4>2. ts = [i \in {1} |-> text]
                <5> HIDE DEF new
                <5> QED BY <3>1, <4>1
            <4>3. <<text>> = [i \in {1} |-> text]
                OBVIOUS
            <4> HIDE DEF ts
            <4> QED BY <4>2, <4>3
        <3>3. Fields(k, new) = FlattenSeq(ts)
            BY DEF Fields
        <3> HIDE DEF ts, new
        <3>4. Fields(k, new) = text
            BY <3>2, <3>3, FlattenOfOne
        <3> QED BY <3>4 DEF new
    <2> QED BY <2>3, <2>4, <2>5 DEF text
<1>4. CASE ~Collapsible(lines)
    <2>1. ProcessResponseBody = EachRestored(lines)
        BY <1>4 DEF ProcessResponseBody, EachRestored
    <2>2. Len(lines) = 1 \/ Fields(k, lines) = <<>>
        <3>1. 1 \in 1..Len(lines) /\ lines[1].kind = k
            BY <1>1, <1>2
        <3> HIDE DEF lines
        <3> QED BY <1>1, <1>2, <1>4, <3>1 DEF Collapsible
    <2>3. lines \in Seq(NdjsonLine)
        OBVIOUS
    <2> HIDE DEF lines
    <2>4. Fields(k, EachRestored(lines)) = Restored(Fields(k, lines))
        BY <1>2, <2>2, <2>3, FewRestored
    <2> QED BY <2>1, <2>4 DEF lines
<1> QED BY <1>3, <1>4

(* And for lines of other kinds.                                           *)
LEMMA OthersAreRestored ==
    ASSUME answered.lines \in Seq(NdjsonLine), Mapped,
           {answered.lines[i].kind : i \in DOMAIN answered.lines} \cap {"chat", "generate"} = {}
    PROVE  \A i \in DOMAIN answered.lines :
              ProcessResponseBody[i].text = Restored(answered.lines[i].text)
<1>1. ~Collapsible(answered.lines)
    <2> SUFFICES ASSUME Collapsible(answered.lines) PROVE FALSE
        OBVIOUS
    <2>1. 1 \in DOMAIN answered.lines
        BY DEF Collapsible
    <2> QED BY <2>1 DEF Collapsible
<1>2. ProcessResponseBody = EachRestored(answered.lines)
    BY <1>1 DEF ProcessResponseBody, EachRestored
<1> QED BY <1>2, EachRestoredIs

-----------------------------------------------------------------------------
(* What request and answer are while they are on their way.                *)
FwdTypes ==
    /\ fwd.mode \in {"proxy", "passthrough"}
    /\ exposed \in 0..1
    /\ call.path \in Seq(STRING) /\ call.headers \in Seq(Headers)
    /\ fwdStep \notin {"route", "refused"} =>
         \E p \in ResolveProvider(call.path) : chosen = <<p>>
    /\ fwdStep = "mask" => fwd.mode = "proxy"
    /\ fwd.mode = "passthrough" => exposed = 0
    /\ outgoing = [path |-> outgoing.path, headers |-> outgoing.headers,
                   declared |-> outgoing.declared, text |-> outgoing.text]
FwdAnswer ==
    /\ answered.headers \in Seq(Headers) /\ Unprotected \notin NamesIn(answered.headers)
    /\ answered.lines \in Seq(NdjsonLine)
    /\ answered.declared \in {Undeclared, BodySize(answered.lines)}
FwdInv == FwdTypes /\ FwdAnswer /\ ForwardedWhole

(* No request has been sent and none answered.                             *)
LEMMA FwdInitInv == ForwardInit => FwdInv
<1> SUFFICES ASSUME ForwardInit PROVE FwdInv
    OBVIOUS
<1>1. /\ fwd.mode \in {"proxy", "passthrough"} /\ exposed = 0 /\ fwdStep = "route"
      /\ call.path \in CallPaths /\ call.headers \in HeaderLists
      /\ answered = [headers |-> <<>>, lines |-> <<>>, utf8 |-> TRUE, declared |-> Undeclared]
    BY DEF ForwardInit
<1>2. FwdTypes
    <2>1. outgoing = [path |-> outgoing.path, headers |-> outgoing.headers,
                      declared |-> outgoing.declared, text |-> outgoing.text]
        BY DEF ForwardInit, NoCall
    <2> QED BY <1>1, <2>1, ForwardAssumption DEF FwdTypes
<1>3. FwdAnswer
    <2>1. NamesIn(<<>>) = {}
        BY DEF NamesIn, ToSet
    <2>2. <<>> \in Seq(Headers) /\ <<>> \in Seq(NdjsonLine)
        OBVIOUS
    <2> QED BY <1>1, <2>1, <2>2 DEF FwdAnswer
<1>4. ForwardedWhole
    BY <1>1 DEF ForwardedWhole, LengthsAreTrue, HeadersArrive, RouteIsClosest, AnswerIsRestored
<1> QED BY <1>2, <1>3, <1>4 DEF FwdInv

(* Before the request is sent and before the answer is given back the      *)
(* properties ask for nothing.                                             *)
LEMMA QuietSteps ==
    fwdStep' \notin {"await", "replied"} => ForwardedWhole'
BY DEF ForwardedWhole, LengthsAreTrue, HeadersArrive, RouteIsClosest, AnswerIsRestored

(* The request that is sent.                                               *)
LEMMA SendIsWhole ==
    ASSUME FwdTypes, SendUpstream PROVE ForwardedWhole'
<1>1. /\ fwdStep = "send" /\ fwdStep' = "await"
      /\ outgoing' = IF fwd.mode = "proxy" THEN BuildUpstreamRequest ELSE PassthroughRequest
      /\ UNCHANGED <<fwd, call, chosen, exposed, answered, replied>>
    BY DEF SendUpstream
<1>2. PICK p \in ResolveProvider(call.path) : chosen = <<p>>
    BY <1>1 DEF FwdTypes
<1>3. /\ p \in Providers /\ IsPrefix(p.prefix, call.path) /\ p.prefix \in Seq(STRING)
      /\ \A q \in Providers : IsPrefix(q.prefix, call.path) => Len(q.prefix) <= Len(p.prefix)
      /\ chosen[1] = p /\ call.path \in Seq(STRING) /\ call.headers \in Seq(Headers)
    BY <1>2, ForwardAssumption DEF ResolveProvider, FwdTypes
<1> DEFINE given == NamesIn(call.headers)
           hops == HopByHopHeaders \cup PassthroughHops
           passed == Inserted(call.headers, HopByHopHeaders \cup p.strip)
<1>4. /\ outgoing'.path = SubSeq(call.path, Len(p.prefix) + 1, Len(call.path))
      /\ outgoing'.declared = Len(outgoing'.text)
      /\ \/ /\ outgoing'.headers \in {passed, With(passed, "content-type", "application/json")}
            /\ "content-type" \in DOMAIN passed => outgoing'.headers = passed
         \/ outgoing'.headers = Inserted(call.headers, PassthroughHops \cup p.strip)
    <2>1. outgoing = [path |-> outgoing.path, headers |-> outgoing.headers,
                      declared |-> outgoing.declared, text |-> outgoing.text]
        BY DEF FwdTypes
    <2>2. CASE fwd.mode = "proxy"
        <3> HIDE DEF passed
        <3>1. outgoing' = [path |-> UpstreamPath,
                           headers |-> IF outgoing.text = <<>> \/ "content-type" \in DOMAIN passed THEN passed
                                       ELSE With(passed, "content-type", "application/json"),
                           declared |-> Len(outgoing.text), text |-> outgoing.text]
            BY <1>1, <1>3, <2>1, <2>2 DEF BuildUpstreamRequest, passed
        <3> QED BY <1>3, <3>1 DEF UpstreamPath
    <2>3. CASE fwd.mode # "proxy"
        <3>1. outgoing' = [path |-> UpstreamPath, text |-> call.text, declared |-> Len(call.text),
                           headers |-> Inserted(call.headers, PassthroughHops \cup p.strip)]
            BY <1>1, <1>3, <2>1, <2>3 DEF PassthroughRequest
        <3> HIDE DEF passed
        <3> QED BY <1>3, <3>1 DEF UpstreamPath
    <2> QED BY <2>2, <2>3
<1>5. "content-type" \notin hops
    BY DEF HopByHopHeaders, PassthroughHops
<1>6. /\ DOMAIN passed = given \ (HopByHopHeaders \cup p.strip)
      /\ \A n \in DOMAIN passed : <<n, passed[n]>> \in ToSet(call.headers)
    <2>1. DOMAIN passed = given \ (HopByHopHeaders \cup p.strip)
          /\ \A n \in DOMAIN passed : passed[n] = LastOf(call.headers, n)
        BY InsertedNames
    <2> QED BY <1>3, <2>1, LastHeader
<1>7. LengthsAreTrue'
    BY <1>1, <1>4 DEF LengthsAreTrue
<1>8. RouteIsClosest'
    <2>1. p.prefix \o outgoing'.path = call.path
        <3>1. p.prefix \o SubSeq(call.path, Len(p.prefix) + 1, Len(call.path)) = call.path
            BY <1>3, PrefixAndRest
        <3> HIDE DEF passed
        <3> QED BY <1>4, <3>1
    <2>2. ~\E q \in Providers : Len(q.prefix) > Len(p.prefix) /\ IsPrefix(q.prefix, call.path)
        <3>1. \A q \in Providers : Len(q.prefix) \in Nat
            BY ForwardAssumption
        <3> QED BY <1>3, <3>1
    <2> QED BY <1>1, <1>3, <2>1, <2>2 DEF RouteIsClosest
<1> DEFINE new == outgoing'.headers
           sent == DOMAIN new
<1>9. /\ given \ (hops \cup p.strip) \subseteq sent
      /\ sent \cap p.strip \subseteq {"content-type"}
      /\ sent \cap HopByHopHeaders \cap PassthroughHops = {}
      /\ \A n \in (sent \cap given) \ p.strip : <<n, new[n]>> \in ToSet(call.headers)
    <2> HIDE DEF passed, new, given
    <2>1. CASE new = passed
        BY <1>6, <2>1
    <2>2. CASE new = With(passed, "content-type", "application/json") /\ "content-type" \notin DOMAIN passed
        <3>1. sent = DOMAIN passed \cup {"content-type"} /\ \A k \in DOMAIN passed : k # "content-type" => new[k] = passed[k]
            <4> DEFINE w == With(passed, "content-type", "application/json")
            <4>1. DOMAIN w = DOMAIN passed \cup {"content-type"} /\ \A k \in DOMAIN passed : k # "content-type" => w[k] = passed[k]
                BY DEF With
            <4> HIDE DEF w
            <4> QED BY <2>2, <4>1 DEF w
        <3>2. "content-type" \notin given \ p.strip
            BY <1>5, <1>6, <2>2
        <3> QED BY <1>5, <1>6, <3>1, <3>2
    <2>3. CASE new = Inserted(call.headers, PassthroughHops \cup p.strip)
        <3>1. /\ sent = given \ (PassthroughHops \cup p.strip)
              /\ \A n \in sent : new[n] = LastOf(call.headers, n)
            <4> DEFINE without == PassthroughHops \cup p.strip
            <4> HIDE DEF without
            <4>1. /\ DOMAIN Inserted(call.headers, without) = NamesIn(call.headers) \ without
                  /\ \A n \in NamesIn(call.headers) \ without :
                       Inserted(call.headers, without)[n] = LastOf(call.headers, n)
                BY InsertedNames
            <4>2. new = Inserted(call.headers, without)
                BY <2>3 DEF without
            <4> HIDE DEF new
            <4> QED BY <4>1, <4>2 DEF without, given
        <3>2. \A n \in sent : <<n, new[n]>> \in ToSet(call.headers)
            BY <1>3, <3>1, LastHeader DEF given
        <3> QED BY <3>1, <3>2
    <2> QED BY <1>4, <2>1, <2>2, <2>3 DEF new
<1>10. HeadersArrive'
    <2> HIDE DEF new, given, passed
    <2>1. outgoing'.headers = new /\ NamesIn(call.headers) = given
        BY DEF new, given
    <2> QED BY <1>1, <1>3, <1>9, <2>1 DEF HeadersArrive
<1>11. AnswerIsRestored'
    BY <1>1 DEF AnswerIsRestored
<1> QED BY <1>7, <1>8, <1>10, <1>11 DEF ForwardedWhole

(* The answer that is given back: its headers, of those of the provider and*)
(* of the proxy, and its lines.                                            *)
LEMMA ReplyIsWhole ==
    ASSUME FwdTypes, FwdAnswer, StreamReply \/ BufferedReply \/ PassthroughReply
    PROVE  ForwardedWhole'
<1>1. fwdStep = "reply" /\ fwdStep' = "replied"
      /\ UNCHANGED <<fwd, call, chosen, outgoing, exposed, answered>>
    BY DEF StreamReply, BufferedReply, PassthroughReply
<1>2. /\ answered.headers \in Seq(Headers) /\ Unprotected \notin NamesIn(answered.headers)
      /\ answered.lines \in Seq(NdjsonLine)
      /\ answered.declared \in {Undeclared, BodySize(answered.lines)}
      /\ exposed \in 0..1
      /\ fwd.mode = "passthrough" => exposed = 0
    BY DEF FwdTypes, FwdAnswer
<1> DEFINE given == NamesIn(answered.headers)
           bare(without) == Inserted(answered.headers, without)
<1>3. ASSUME NEW without \in {{}, {"transfer-encoding"}}
      PROVE  LET m == Announced(bare(without)) IN
             /\ given \ {"transfer-encoding"} \subseteq DOMAIN m
             /\ Unprotected \in DOMAIN m <=> exposed > 0
             /\ "transfer-encoding" \in DOMAIN m => without = {}
    <2>1. DOMAIN bare(without) = given \ without
        BY InsertedNames
    <2>2. DOMAIN InjectTimingHeaders(bare(without)) = (given \ without) \cup {"x-oo-total-us"}
        <3> DEFINE m == bare(without)
        <3> HIDE DEF m
        <3>1. DOMAIN InjectTimingHeaders(m) = DOMAIN m \cup {"x-oo-total-us"}
            BY WithNames DEF InjectTimingHeaders
        <3> QED BY <2>1, <3>1 DEF m
    <2>3. DOMAIN Announced(bare(without)) =
            (given \ without) \cup {"x-oo-total-us"} \cup (IF exposed > 0 THEN {Unprotected} ELSE {})
        <3> DEFINE timed == InjectTimingHeaders(bare(without))
        <3>1. DOMAIN With(timed, Unprotected, "some") = DOMAIN timed \cup {Unprotected}
            BY WithNames
        <3>2. Announced(bare(without)) = IF exposed > 0 THEN With(timed, Unprotected, "some") ELSE timed
            BY DEF Announced
        <3> HIDE DEF timed
        <3>3. DOMAIN timed = (given \ without) \cup {"x-oo-total-us"}
            BY <2>2 DEF timed
        <3> HIDE DEF bare, given
        <3> QED BY <3>1, <3>2, <3>3
    <2>4. Unprotected # "x-oo-total-us" /\ Unprotected # "transfer-encoding"
        BY DEF Unprotected
    <2> HIDE DEF bare, given
    <2> QED BY <1>2, <2>3, <2>4 DEF given
<1> DEFINE headers == replied'.headers
           lines == replied'.lines
           streamed == replied'.streamed
           declared == replied'.declared
<1>4. /\ given \ {"transfer-encoding"} \subseteq DOMAIN headers
      /\ Unprotected \in DOMAIN headers <=> exposed > 0
      /\ "transfer-encoding" \in DOMAIN headers => streamed
      /\ declared # Undeclared => declared = BodySize(lines)
      /\ ~streamed => lines = ProcessResponseBody
    <2> HIDE DEF given
    <2>1. CASE StreamReply
        <3>1. headers = Announced(bare({})) /\ declared = Undeclared /\ streamed = TRUE
            BY <2>1 DEF StreamReply, Reply1
        <3> HIDE DEF bare, headers, lines, streamed, declared
        <3> QED BY <1>3, <3>1
    <2>2. CASE BufferedReply
        <3>1. /\ headers = Announced(bare({"transfer-encoding"})) /\ lines = ProcessResponseBody
              /\ declared = BodySize(ProcessResponseBody)
            BY <2>2 DEF BufferedReply, Reply1
        <3>2. {"transfer-encoding"} # {}
            OBVIOUS
        <3> HIDE DEF bare, headers, lines, streamed, declared
        <3> QED BY <1>3, <3>1, <3>2
    <2>3. CASE PassthroughReply
        <3>1. /\ headers = bare({}) /\ lines = answered.lines /\ declared = answered.declared
              /\ streamed = TRUE /\ exposed = 0
            BY <1>2, <2>3 DEF PassthroughReply, Reply1
        <3>2. DOMAIN bare({}) = given
            <4>1. DOMAIN bare({}) = NamesIn(answered.headers) \ {}
                BY InsertedNames
            <4> HIDE DEF bare
            <4> QED BY <4>1 DEF given
        <3> HIDE DEF bare, headers, lines, streamed, declared
        <3> QED BY <1>2, <3>1, <3>2 DEF given
    <2> QED BY <2>1, <2>2, <2>3
<1>5. LengthsAreTrue'
    <2> HIDE DEF given
    <2> QED BY <1>1, <1>4 DEF LengthsAreTrue
<1>6. HeadersArrive'
    <2>1. NamesIn(answered'.headers) = given /\ exposed' = exposed
        BY <1>1
    <2> HIDE DEF given
    <2> QED BY <1>1, <1>4, <2>1 DEF HeadersArrive
<1>7. RouteIsClosest'
    BY <1>1 DEF RouteIsClosest
<1>8. ASSUME ~streamed PROVE AnswerIsRestored'
    <2> DEFINE old == answered.lines
               kinds == {old[i].kind : i \in DOMAIN old}
    <2>1. lines = ProcessResponseBody
        <3> HIDE DEF given
        <3> QED BY <1>4, <1>8
    <2>2. ~Mapped => lines = old
        BY <2>1 DEF ProcessResponseBody
    <2>3. Mapped /\ answered.utf8 /\ kinds \in {{"chat"}, {"generate"}} =>
            \E k \in kinds : Fields(k, lines) = Restored(Fields(k, old))
        <3> SUFFICES ASSUME Mapped, answered.utf8, NEW k \in {"chat", "generate"}, kinds = {k}
                     PROVE  Fields(k, lines) = Restored(Fields(k, old))
            <4> HIDE DEF lines, old, kinds
            <4> QED OBVIOUS
        <3> QED BY <1>2, <2>1, KindsAreRestored
    <2>4. Mapped /\ kinds \cap {"chat", "generate"} = {} =>
            \A i \in DOMAIN old : lines[i].text = Restored(old[i].text)
        BY <1>2, <2>1, OthersAreRestored
    <2>5. answered' = answered /\ Mapped' = Mapped
        BY <1>1 DEF Mapped
    <2> HIDE DEF given
    <2> QED BY <1>1, <2>2, <2>3, <2>4, <2>5 DEF AnswerIsRestored
<1>9. ASSUME streamed PROVE AnswerIsRestored'
    BY <1>1, <1>9 DEF AnswerIsRestored
<1> QED BY <1>5, <1>6, <1>7, <1>8, <1>9 DEF ForwardedWhole

(* Each step of the passthrough mode keeps the invariant.                  *)
LEMMA FwdStepInv == FwdInv /\ [ForwardNext]_forwardVars => FwdInv'
<1> SUFFICES ASSUME FwdInv, [ForwardNext]_forwardVars PROVE FwdInv'
    OBVIOUS
<1>inv. FwdTypes /\ FwdAnswer /\ ForwardedWhole
    BY DEF FwdInv
<1>1. CASE Route
    <2>1. /\ fwdStep = "route" /\ fwdStep' \in {"refused", "mask", "send"}
          /\ fwdStep' = "mask" => fwd.mode = "proxy"
          /\ fwdStep' # "refused" => \E p \in ResolveProvider(call.path) : chosen' = <<p>>
          /\ UNCHANGED <<fwd, call, outgoing, exposed, answered, replied>>
        BY <1>1 DEF Route
    <2>2. FwdTypes'
        <3>1. ResolveProvider(call.path)' = ResolveProvider(call.path)
            BY <2>1 DEF ResolveProvider
        <3> QED BY <1>inv, <2>1, <3>1 DEF FwdTypes
    <2>3. FwdAnswer'
        BY <1>inv, <2>1 DEF FwdAnswer
    <2> QED BY <2>1, <2>2, <2>3, QuietSteps DEF FwdInv
<1>2. CASE MaskCall
    <2>1. /\ fwdStep = "mask" /\ fwdStep' \in {"send", "refused"}
          /\ exposed' \in 0..1 /\ (outgoing' = outgoing \/ \E t : outgoing' = [outgoing EXCEPT !.text = t])
          /\ UNCHANGED <<fwd, call, chosen, answered, replied>>
        BY <1>2, <1>inv DEF MaskCall, FwdTypes
    <2>2. fwd.mode = "proxy"
        BY <1>inv, <2>1 DEF FwdTypes
    <2>3. outgoing' = [path |-> outgoing'.path, headers |-> outgoing'.headers,
                       declared |-> outgoing'.declared, text |-> outgoing'.text]
        <3>1. outgoing = [path |-> outgoing.path, headers |-> outgoing.headers,
                          declared |-> outgoing.declared, text |-> outgoing.text]
            BY <1>inv DEF FwdTypes
        <3> QED BY <2>1, <3>1
    <2>4. FwdTypes'
        <3>1. ResolveProvider(call.path)' = ResolveProvider(call.path)
            BY <2>1 DEF ResolveProvider
        <3> QED BY <1>inv, <2>1, <2>2, <2>3, <3>1 DEF FwdTypes
    <2>5. FwdAnswer'
        BY <1>inv, <2>1 DEF FwdAnswer
    <2> QED BY <2>1, <2>4, <2>5, QuietSteps DEF FwdInv
<1>3. CASE SendUpstream
    <2>1. /\ fwdStep = "send" /\ fwdStep' = "await"
          /\ UNCHANGED <<fwd, call, chosen, exposed, answered, replied>>
        BY <1>3 DEF SendUpstream
    <2>2. outgoing' = [path |-> outgoing'.path, headers |-> outgoing'.headers,
                       declared |-> outgoing'.declared, text |-> outgoing'.text]
        <3>1. outgoing = [path |-> outgoing.path, headers |-> outgoing.headers,
                          declared |-> outgoing.declared, text |-> outgoing.text]
            BY <1>inv DEF FwdTypes
        <3> QED BY <1>3, <3>1 DEF SendUpstream, BuildUpstreamRequest, PassthroughRequest
    <2>3. FwdTypes'
        <3>1. ResolveProvider(call.path)' = ResolveProvider(call.path)
            BY <2>1 DEF ResolveProvider
        <3> QED BY <1>inv, <2>1, <2>2, <3>1 DEF FwdTypes
    <2>4. FwdAnswer'
        BY <1>inv, <2>1 DEF FwdAnswer
    <2> QED BY <1>3, <1>inv, <2>3, <2>4, SendIsWhole DEF FwdInv
<1>4. CASE UpstreamAnswers
    <2>1. /\ fwdStep = "await" /\ fwdStep' \in {"reply", "refused"}
          /\ UNCHANGED <<fwd, call, chosen, outgoing, exposed, replied>>
        BY <1>4 DEF UpstreamAnswers
    <2>2. FwdTypes'
        <3>1. ResolveProvider(call.path)' = ResolveProvider(call.path)
            BY <2>1 DEF ResolveProvider
        <3> QED BY <1>inv, <2>1, <3>1 DEF FwdTypes
    <2>3. FwdAnswer'
        <3>1. CASE UNCHANGED answered
            BY <1>inv, <3>1 DEF FwdAnswer
        <3>2. CASE ~UNCHANGED answered
            <4>1. PICK h \in AnswerHeads, ls \in AnswerLines, u \in BOOLEAN :
                    answered' = [headers |-> h, lines |-> ls, utf8 |-> u,
                                 declared |-> IF "transfer-encoding" \in NamesIn(h) THEN Undeclared
                                              ELSE BodySize(ls)]
                BY <1>4, <3>2 DEF UpstreamAnswers
            <4>2. /\ answered'.headers = h /\ answered'.lines = ls
                  /\ answered'.declared \in {Undeclared, BodySize(ls)}
                BY <4>1
            <4>3. h \in Seq(Headers) /\ ls \in Seq(NdjsonLine) /\ Unprotected \notin NamesIn(h)
                BY ForwardAssumption DEF NamesIn, ToSet
            <4> QED BY <4>2, <4>3 DEF FwdAnswer
        <3> QED BY <3>1, <3>2
    <2> QED BY <2>1, <2>2, <2>3, QuietSteps DEF FwdInv
<1>5. CASE StreamReply \/ BufferedReply \/ PassthroughReply
    <2>1. /\ fwdStep = "reply" /\ fwdStep' = "replied"
          /\ UNCHANGED <<fwd, call, chosen, outgoing, exposed, answered>>
        BY <1>5 DEF StreamReply, BufferedReply, PassthroughReply
    <2>2. FwdTypes'
        <3>1. ResolveProvider(call.path)' = ResolveProvider(call.path)
            BY <2>1 DEF ResolveProvider
        <3> QED BY <1>inv, <2>1, <3>1 DEF FwdTypes
    <2>3. FwdAnswer'
        BY <1>inv, <2>1 DEF FwdAnswer
    <2> QED BY <1>5, <1>inv, <2>2, <2>3, ReplyIsWhole DEF FwdInv
<1>6. CASE UNCHANGED forwardVars
    <2>1. UNCHANGED <<fwd, call, chosen, outgoing, exposed, answered, replied, fwdStep>>
        BY <1>6 DEF forwardVars
    <2>2. FwdTypes'
        <3>1. ResolveProvider(call.path)' = ResolveProvider(call.path)
            BY <2>1 DEF ResolveProvider
        <3> QED BY <1>inv, <2>1, <3>1 DEF FwdTypes
    <2>3. FwdAnswer'
        BY <1>inv, <2>1 DEF FwdAnswer
    <2>4. ForwardedWhole'
        <3>1. Mapped' = Mapped
            BY <2>1 DEF Mapped
        <3>2. LengthsAreTrue' /\ HeadersArrive'
            BY <1>inv, <2>1 DEF ForwardedWhole, LengthsAreTrue, HeadersArrive
        <3>3. RouteIsClosest' /\ AnswerIsRestored'
            BY <1>inv, <2>1, <3>1 DEF ForwardedWhole, RouteIsClosest, AnswerIsRestored
        <3> QED BY <3>2, <3>3 DEF ForwardedWhole
    <2> QED BY <2>2, <2>3, <2>4 DEF FwdInv
<1> QED BY <1>1, <1>2, <1>3, <1>4, <1>5, <1>6 DEF ForwardNext

(* Requests go where their path leads, with their headers and their length,*)
(* and answers come back with theirs and with their tokens restored, for   *)
(* all providers, headers, bodies and ways to cut an answer into lines.    *)
THEOREM RequestsAreForwarded == ForwardSpec => []ForwardedWhole
<1>1. ForwardInit => FwdInv
    BY FwdInitInv
<1>2. FwdInv /\ [ForwardNext]_forwardVars => FwdInv'
    BY FwdStepInv
<1>3. FwdInv => ForwardedWhole
    BY DEF FwdInv
<1> QED BY <1>1, <1>2, <1>3, PTL DEF ForwardSpec
-----------------------------------------------------------------------------
(* What is blanked before a scan.                                         *)

(* The lines of a text: LineEnd is the first newline from i on, or beyond  *)
(* the end; within a line it is the same.                                  *)
IsText == markdown \in Markdowns

LEMMA IsTextMeans ==
    ASSUME IsText
    PROVE  /\ Len(markdown) \in Nat /\ DOMAIN markdown = 1..Len(markdown)
           /\ \A k \in 1..Len(markdown) :
                /\ markdown[k] \in TextBytes
                /\ markdown[k] = "(" => k + 1 \in 1..Len(markdown) /\ markdown[k + 1] = ")"
                /\ markdown[k] = ")" => k - 1 \in 1..Len(markdown) /\ markdown[k - 1] = "("
<1>1. markdown \in Seq(TextBytes)
    BY MarkdownAssumption DEF IsText
<1>2. Len(markdown) \in Nat /\ DOMAIN markdown = 1..Len(markdown)
      /\ \A k \in 1..Len(markdown) : markdown[k] \in TextBytes
    BY <1>1
<1>3. \A k \in 1..Len(markdown) :
        /\ markdown[k] = "(" => k < Len(markdown) /\ markdown[k + 1] = ")"
        /\ markdown[k] = ")" => k > 1 /\ markdown[k - 1] = "("
    <2>1. ValidUtf8(markdown)
        BY MarkdownAssumption DEF IsText
    <2> QED BY <1>2, <2>1 DEF ValidUtf8
<1>4. \A k \in 1..Len(markdown) :
        /\ markdown[k] = "(" => k + 1 \in 1..Len(markdown)
        /\ markdown[k] = ")" => k - 1 \in 1..Len(markdown)
    BY <1>2, <1>3
<1> QED BY <1>2, <1>3, <1>4

LEMMA MinIs ==
    ASSUME NEW N \in Nat, NEW S \in SUBSET (1..N), S # {}
    PROVE  Min(S) \in S /\ \A x \in S : Min(S) <= x
<1>1. \E m \in S : \A x \in S : m <= x
    BY LeastExists
<1> QED BY <1>1 DEF Min

LEMMA LineEndIs ==
    ASSUME IsText, NEW i \in 1..Len(markdown) + 1
    PROVE  /\ LineEnd(i) \in i..Len(markdown) + 1
           /\ \A k \in i..LineEnd(i) - 1 : k \in 1..Len(markdown) /\ markdown[k] # "nl"
           /\ LineEnd(i) = Len(markdown) + 1 \/ markdown[LineEnd(i)] = "nl"
<1> DEFINE N == Len(markdown)
           A == {k \in i..N : markdown[k] = "nl"}
           S == A \cup {N + 1}
           e == Min(S)
<1>1. N \in Nat
    BY IsTextMeans
<1>2. S \in SUBSET (1..N + 1) /\ S # {} /\ N + 1 \in Nat
    BY <1>1
<1>3. e \in S /\ \A x \in S : e <= x
    <2> HIDE DEF S, N
    <2> QED BY <1>2, MinIs
<1>4. LineEnd(i) = e
    BY DEF LineEnd
<1> HIDE DEF e
<1>5. e \in i..N + 1
    BY <1>1, <1>3
<1>6. \A k \in i..e - 1 : k \in 1..N /\ markdown[k] # "nl"
    BY <1>1, <1>3, <1>5
<1>7. e = N + 1 \/ markdown[e] = "nl"
    BY <1>3
<1> QED BY <1>4, <1>5, <1>6, <1>7

LEMMA LineEndUnique ==
    ASSUME IsText, NEW i \in 1..Len(markdown) + 1, NEW e \in i..Len(markdown) + 1,
           \A k \in i..e - 1 : markdown[k] # "nl",
           e = Len(markdown) + 1 \/ markdown[e] = "nl"
    PROVE  LineEnd(i) = e
<1> DEFINE N == Len(markdown)
           l == LineEnd(i)
<1>1. N \in Nat
    BY IsTextMeans
<1>2. /\ l \in i..N + 1
      /\ \A k \in i..l - 1 : k \in 1..N /\ markdown[k] # "nl"
      /\ l = N + 1 \/ markdown[l] = "nl"
    BY LineEndIs
<1> HIDE DEF l
<1>3. ~(l < e)
    BY <1>1, <1>2
<1>4. ~(e < l)
    BY <1>1, <1>2
<1> QED BY <1>1, <1>2, <1>3, <1>4 DEF l

(* The bytes up to the end of a line are of that line.                     *)
LEMMA SameLine ==
    ASSUME IsText, NEW i \in 1..Len(markdown) + 1, NEW j \in i..LineEnd(i)
    PROVE  LineEnd(j) = LineEnd(i)
<1> DEFINE N == Len(markdown)
           l == LineEnd(i)
<1>1. N \in Nat
    BY IsTextMeans
<1>2. /\ l \in i..N + 1
      /\ \A k \in i..l - 1 : k \in 1..N /\ markdown[k] # "nl"
      /\ l = N + 1 \/ markdown[l] = "nl"
    BY LineEndIs
<1>3. j \in i..l
    OBVIOUS
<1> HIDE DEF l
<1>4. j \in 1..N + 1 /\ l \in j..N + 1 /\ \A k \in j..l - 1 : markdown[k] # "nl"
    BY <1>1, <1>2, <1>3
<1>5. LineEnd(j) = l
    BY <1>2, <1>4, LineEndUnique
<1> QED BY <1>5 DEF l

-----------------------------------------------------------------------------
(* The copy differs from the text by blanks, never at a newline.           *)
Copied ==
    /\ scanAt \in Nat /\ scanAt >= 1
    /\ blankedText \in Seq(TextBytes \cup {" "}) /\ Len(blankedText) = Len(markdown)
    /\ \A k \in 1..Len(markdown) :
         /\ blankedText[k] = markdown[k] \/ blankedText[k] = " "
         /\ markdown[k] = "nl" => blankedText[k] = "nl"

BlankInv == IsText /\ Copied /\ BlankedIsEnclosed

LEMMA BlankInitInv == FenceInit => BlankInv
<1> SUFFICES ASSUME FenceInit PROVE BlankInv
    OBVIOUS
<1>1. IsText /\ markdown \in Seq(TextBytes) /\ blankedText = markdown /\ scanAt = 1
    BY MarkdownAssumption DEF FenceInit, IsText
<1>2. markdown \in Seq(TextBytes \cup {" "})
    <2> DEFINE B == TextBytes \cup {" "}
    <2>1. TextBytes \subseteq B
        OBVIOUS
    <2> HIDE DEF B
    <2>2. markdown \in Seq(B)
        BY <1>1, <2>1
    <2> QED BY <2>2 DEF B
<1>3. Copied
    <2>1. \A k \in 1..Len(markdown) : blankedText[k] = markdown[k]
        BY <1>1
    <2> DEFINE B == TextBytes \cup {" "}
    <2>2. scanAt \in Nat /\ scanAt >= 1 /\ Len(blankedText) = Len(markdown)
        BY <1>1
    <2>3. blankedText \in Seq(B)
        BY <1>1, <1>2
    <2>4. \A k \in 1..Len(markdown) :
            /\ blankedText[k] = markdown[k] \/ blankedText[k] = " "
            /\ markdown[k] = "nl" => blankedText[k] = "nl"
        BY <2>1
    <2> HIDE DEF B
    <2>5. B = TextBytes \cup {" "}
        BY DEF B
    <2> QED BY <2>2, <2>3, <2>4, <2>5 DEF Copied
<1>4. BlankedIsEnclosed
    BY <1>1 DEF BlankedIsEnclosed, IsBlanked
<1> QED BY <1>1, <1>3, <1>4 DEF BlankInv

(* Blanking from a backtick to a backtick, or to the byte before one.      *)
LEMMA BlankKeeps ==
    ASSUME BlankInv, UNCHANGED markdown, NEW a \in 1..Len(markdown), NEW b \in a..Len(markdown),
           markdown[a] = "tick",
           markdown[b] = "tick" \/ (b + 1 \in 1..Len(markdown) /\ markdown[b + 1] = "tick"),
           blankedText' = Blanked(a, b), scanAt' \in Nat, scanAt' >= 1
    PROVE  /\ BlankInv'
           /\ \A k \in 1..Len(markdown) :
                IsBlanked(k)' <=> (IsBlanked(k) \/ (k \in a..b /\ markdown[k] # "nl"))
<1> DEFINE N == Len(markdown)
           B == TextBytes \cup {" "}
<1>1. N \in Nat /\ DOMAIN markdown = 1..N /\ IsText
    BY IsTextMeans DEF BlankInv
<1>2a. blankedText \in Seq(B) /\ Len(blankedText) = N
    BY DEF BlankInv, Copied
<1> HIDE DEF B
<1>2. DOMAIN blankedText = 1..N
    BY <1>2a
<1>3. \A k \in 1..N : blankedText[k] \in B
    BY <1>2a
<1>4. blankedText' = [k \in 1..N |-> IF k \in a..b /\ blankedText[k] # "nl" THEN " " ELSE blankedText[k]]
    BY <1>2 DEF Blanked
<1>5. blankedText' \in Seq(B) /\ Len(blankedText') = N /\ DOMAIN blankedText' = 1..N
    <2>1. \A k \in 1..N : (IF k \in a..b /\ blankedText[k] # "nl" THEN " " ELSE blankedText[k]) \in B
        BY <1>3 DEF B
    <2> DEFINE q == [k \in 1..N |-> IF k \in a..b /\ blankedText[k] # "nl" THEN " " ELSE blankedText[k]]
    <2>2. q \in [1..N -> B] /\ blankedText' = q
        <3> HIDE DEF N
        <3> QED BY <2>1, <1>4
    <2> HIDE DEF N, q
    <2>3. q \in Seq(B) /\ Len(q) = N /\ DOMAIN q = 1..N
        BY <1>1, <2>2
    <2> QED BY <2>2, <2>3
<1>6. ASSUME NEW k \in 1..N
      PROVE  /\ markdown[k] \in TextBytes
             /\ blankedText[k] = markdown[k] \/ blankedText[k] = " "
             /\ markdown[k] = "nl" => blankedText[k] = "nl"
             /\ markdown[k] # " "
             /\ markdown[k] # "nl" => blankedText[k] # "nl"
    <2>1. markdown[k] \in TextBytes
        BY <1>1, IsTextMeans
    <2> QED BY <2>1 DEF BlankInv, Copied, TextBytes
<1>7. ASSUME NEW k \in 1..N
      PROVE  /\ blankedText'[k] = markdown[k] \/ blankedText'[k] = " "
             /\ markdown[k] = "nl" => blankedText'[k] = "nl"
             /\ IsBlanked(k)' <=> (IsBlanked(k) \/ (k \in a..b /\ markdown[k] # "nl"))
    <2>1. blankedText'[k] = IF k \in a..b /\ blankedText[k] # "nl" THEN " " ELSE blankedText[k]
        BY <1>4
    <2> QED BY <1>6, <2>1 DEF IsBlanked
<1>8. Copied'
    BY <1>5, <1>7 DEF Copied, B
<1>9. ASSUME NEW k \in 1..N, IsBlanked(k)'
      PROVE  /\ markdown[k] # "nl"
             /\ \E x \in 1..k : markdown[x] = "tick"
             /\ \E x \in k..N : markdown[x] = "tick"
             /\ markdown[k] = "(" => IsBlanked(k + 1)'
             /\ markdown[k] = ")" => IsBlanked(k - 1)'
    <2>1. CASE IsBlanked(k)
        <3>1. /\ markdown[k] # "nl"
              /\ \E x \in 1..k : markdown[x] = "tick"
              /\ \E x \in k..N : markdown[x] = "tick"
              /\ markdown[k] = "(" => IsBlanked(k + 1)
              /\ markdown[k] = ")" => IsBlanked(k - 1)
            BY <1>1, <2>1 DEF BlankInv, BlankedIsEnclosed
        <3>2. /\ markdown[k] = "(" => k + 1 \in 1..N
              /\ markdown[k] = ")" => k - 1 \in 1..N
            BY <1>1, IsTextMeans
        <3> QED BY <1>7, <3>1, <3>2
    <2>2. CASE ~IsBlanked(k)
        <3>1. k \in a..b /\ markdown[k] # "nl"
            BY <1>7, <1>9, <2>2
        <3>2. a \in 1..k /\ markdown[a] = "tick"
            BY <3>1
        <3>3. \E x \in k..N : markdown[x] = "tick"
            BY <1>1, <3>1
        <3>4. /\ markdown[k] = "(" => k + 1 \in 1..N /\ markdown[k + 1] = ")"
              /\ markdown[k] = ")" => k - 1 \in 1..N /\ markdown[k - 1] = "("
            BY <1>1, IsTextMeans
        <3>5. ASSUME markdown[k] = "(" PROVE k + 1 \in a..b
            BY <1>1, <3>1, <3>4, <3>5
        <3>6. ASSUME markdown[k] = ")" PROVE k - 1 \in a..b
            BY <1>1, <3>1, <3>4, <3>6
        <3> QED BY <3>1, <3>2, <3>3, <3>4, <3>5, <3>6, <1>7
    <2> QED BY <2>1, <2>2
<1>10. BlankedIsEnclosed'
    BY <1>1, <1>5, <1>9 DEF BlankedIsEnclosed
<1> QED BY <1>1, <1>7, <1>8, <1>10 DEF BlankInv, IsText

(* What a step does: it passes some bytes, or blanks to a closing backtick.*)
LEMMA FenceKeeps ==
    ASSUME BlankInv, MaskFence
    PROVE  /\ TicksAt(scanAt) /\ scanAt \in 1..Len(markdown) /\ BlankInv'
           /\ scanAt' <= Len(markdown) + 1 /\ UNCHANGED markdown
<1> DEFINE N == Len(markdown)
           C == ClosingFences(scanAt)
           c == Min(C)
<1>1. /\ scanAt <= N /\ TicksAt(scanAt) /\ C # {} /\ UNCHANGED markdown
      /\ blankedText' = Blanked(scanAt, c - 1) /\ scanAt' = LineEnd(c + 3)
    BY DEF MaskFence
<1>2. N \in Nat /\ scanAt \in 1..N /\ IsText
    <2>1. IsText /\ scanAt \in Nat /\ scanAt >= 1
        BY DEF BlankInv, Copied
    <2>2. N \in Nat
        BY <2>1, IsTextMeans
    <2> HIDE DEF N
    <2> QED BY <1>1, <2>1, <2>2
<1>3. LineAfter(scanAt + 3) \in Nat /\ LineAfter(scanAt + 3) >= scanAt + 3
    <2> DEFINE e == LineEnd(scanAt + 3)
    <2>1. scanAt + 3 \in 1..N + 1
        BY <1>1, <1>2 DEF TicksAt
    <2>2. e \in scanAt + 3..N + 1
        BY <2>1, <1>2, LineEndIs
    <2>3. LineAfter(scanAt + 3) = Min({e + 1, N + 1})
        BY DEF LineAfter
    <2> HIDE DEF e
    <2>4. {e + 1, N + 1} \in SUBSET (1..N + 2) /\ N + 2 \in Nat
        BY <1>2, <2>2
    <2>5. Min({e + 1, N + 1}) \in {e + 1, N + 1}
        BY <2>4, MinIs
    <2> QED BY <1>2, <2>2, <2>3, <2>5
<1>4. C \in SUBSET (1..N)
    BY <1>2, <1>3 DEF ClosingFences
<1>5. c \in C
    <2> HIDE DEF C
    <2> QED BY <1>1, <1>2, <1>4, MinIs
<1>6. c \in 1..N /\ c >= scanAt + 3 /\ TicksAt(c)
    BY <1>2, <1>3, <1>4, <1>5 DEF ClosingFences
<1> HIDE DEF c, C
<1>7. c + 3 \in 1..N + 1 /\ markdown[c] = "tick" /\ markdown[scanAt] = "tick"
    BY <1>1, <1>2, <1>6 DEF TicksAt
<1>8. LineEnd(c + 3) \in c + 3..N + 1
    BY <1>2, <1>7, LineEndIs
<1>9. scanAt' \in Nat /\ scanAt' >= 1 /\ scanAt' <= N + 1
    BY <1>1, <1>2, <1>6, <1>8
<1>10. c - 1 \in scanAt..N /\ (c - 1) + 1 \in 1..N /\ markdown[(c - 1) + 1] = "tick"
    BY <1>2, <1>6, <1>7
<1> QED BY <1>1, <1>2, <1>7, <1>9, <1>10, BlankKeeps

(* The next backtick of a line, when there is one.                         *)
LEMMA NextTickIs ==
    ASSUME BlankInv, scanAt \in 1..Len(markdown), NextTicks(scanAt) # {}
    PROVE  LET t == Min(NextTicks(scanAt)) IN
           /\ t \in scanAt + 1..LineEnd(scanAt) - 1 /\ t \in 1..Len(markdown)
           /\ markdown[t] = "tick"
           /\ \A k \in scanAt + 1..t - 1 : markdown[k] # "tick"
<1> DEFINE N == Len(markdown)
           T == NextTicks(scanAt)
           t == Min(T)
<1>1. N \in Nat /\ IsText
    BY IsTextMeans DEF BlankInv
<1>2. LineEnd(scanAt) \in scanAt..N + 1
    BY <1>1, LineEndIs
<1>3. T \in SUBSET (1..N)
    BY <1>1, <1>2 DEF NextTicks
<1>4. t \in T /\ \A x \in T : t <= x
    <2>1. T # {}
        OBVIOUS
    <2> HIDE DEF T, N
    <2> QED BY <1>1, <1>3, <2>1, MinIs
<1> HIDE DEF t
<1>5. \A k \in scanAt + 1..t - 1 : markdown[k] # "tick"
    BY <1>1, <1>2, <1>3, <1>4 DEF NextTicks
<1>6. t \in scanAt + 1..LineEnd(scanAt) - 1 /\ t \in 1..N /\ markdown[t] = "tick"
    BY <1>1, <1>2, <1>3, <1>4 DEF NextTicks
<1> QED BY <1>5, <1>6 DEF t

LEMMA InlineKeeps ==
    ASSUME BlankInv, MaskInline, NextTicks(scanAt) # {}
    PROVE  LET t == Min(NextTicks(scanAt)) IN
           /\ BlankInv' /\ scanAt' = t + 1
           /\ \A k \in 1..Len(markdown) :
                IsBlanked(k)' <=> (IsBlanked(k) \/ (k \in scanAt..t /\ markdown[k] # "nl"))
<1> DEFINE t == Min(NextTicks(scanAt))
<1>1. /\ scanAt <= Len(markdown) /\ markdown[scanAt] = "tick" /\ UNCHANGED markdown
      /\ blankedText' = Blanked(scanAt, t) /\ scanAt' = t + 1
    BY DEF MaskInline
<1>2. Len(markdown) \in Nat /\ scanAt \in 1..Len(markdown)
    <2> DEFINE N == Len(markdown)
    <2>1. IsText /\ scanAt \in Nat /\ scanAt >= 1
        BY DEF BlankInv, Copied
    <2>2. N \in Nat /\ scanAt <= N
        BY <1>1, <2>1, IsTextMeans
    <2> HIDE DEF N
    <2>3. scanAt \in 1..N
        BY <2>1, <2>2
    <2> QED BY <2>2, <2>3 DEF N
<1>3. t \in 1..Len(markdown) /\ t >= scanAt + 1 /\ markdown[t] = "tick"
    BY <1>2, NextTickIs
<1> HIDE DEF t
<1>4. t \in scanAt..Len(markdown) /\ scanAt' \in Nat /\ scanAt' >= 1
    BY <1>1, <1>2, <1>3
<1>5. /\ BlankInv'
      /\ \A k \in 1..Len(markdown) :
           IsBlanked(k)' <=> (IsBlanked(k) \/ (k \in scanAt..t /\ markdown[k] # "nl"))
    BY <1>1, <1>2, <1>3, <1>4, BlankKeeps
<1> QED BY <1>1, <1>5 DEF t

(* A step that blanks nothing.                                             *)
LEMMA PassKeeps ==
    ASSUME BlankInv, UNCHANGED <<markdown, blankedText>>, scanAt' \in Nat, scanAt' >= 1
    PROVE  BlankInv'
BY DEF BlankInv, IsText, Copied, BlankedIsEnclosed, IsBlanked

LEMMA BlankStepInv == BlankInv /\ [FenceNext]_fenceVars => BlankInv'
<1> SUFFICES ASSUME BlankInv, [FenceNext]_fenceVars PROVE BlankInv'
    OBVIOUS
<1>1. scanAt \in Nat /\ scanAt >= 1
    BY DEF BlankInv, Copied
<1>2. CASE MaskFence
    BY <1>2, FenceKeeps
<1>3. CASE MaskInline /\ NextTicks(scanAt) # {}
    BY <1>3, InlineKeeps
<1>4. CASE MaskInline /\ NextTicks(scanAt) = {}
    BY <1>1, <1>4, PassKeeps DEF MaskInline
<1>5. CASE PassUnclosed
    BY <1>1, <1>5, PassKeeps DEF PassUnclosed
<1>6. CASE PassByte
    BY <1>1, <1>6, PassKeeps DEF PassByte
<1>7. CASE UNCHANGED fenceVars
    BY <1>1, <1>7, PassKeeps DEF fenceVars
<1> QED BY <1>2, <1>3, <1>4, <1>5, <1>6, <1>7 DEF FenceNext

(* The backticks of a line, and how many of them there are up to a byte.   *)
TicksOf(l)   == {j \in DOMAIN markdown : markdown[j] = "tick" /\ LineEnd(j) = l}
TicksUpto(l, k)   == {j \in TicksOf(l) : j <= k}
Count(l, k)  == Cardinality(TicksUpto(l, k))
Paired(l)    == Cardinality(TicksOf(l)) - (Cardinality(TicksOf(l)) % 2)

(* What InlineIsHidden says of a byte.                                     *)
Hidden(k) ==
    /\ markdown[k] # "nl"
    /\ Count(LineEnd(k), k) % 2 = 1 \/ markdown[k] = "tick"
    /\ Count(LineEnd(k), k) <= Paired(LineEnd(k))

LEMMA TicksFinite ==
    ASSUME IsText, NEW l, NEW k \in Int
    PROVE  /\ IsFiniteSet(TicksOf(l)) /\ IsFiniteSet(TicksUpto(l, k))
           /\ Cardinality(TicksOf(l)) \in Nat /\ Count(l, k) \in Nat
           /\ Count(l, k) <= Cardinality(TicksOf(l))
<1>1. IsFiniteSet(1..Len(markdown))
    <2>1. 1 \in Int /\ Len(markdown) \in Int
        BY IsTextMeans
    <2> QED BY <2>1, FS_Interval
<1>2. TicksOf(l) \subseteq 1..Len(markdown) /\ TicksUpto(l, k) \subseteq TicksOf(l)
    BY IsTextMeans DEF TicksOf, TicksUpto
<1>3. IsFiniteSet(TicksOf(l))
    BY <1>1, <1>2, FS_Subset
<1>4. IsFiniteSet(TicksUpto(l, k)) /\ Cardinality(TicksUpto(l, k)) <= Cardinality(TicksOf(l))
    BY <1>2, <1>3, FS_Subset
<1> QED BY <1>3, <1>4, FS_CardinalityType DEF Count

(* A backtick of the line counts.                                          *)
LEMMA CountTick ==
    ASSUME IsText, NEW k \in 1..Len(markdown), markdown[k] = "tick"
    PROVE  Count(LineEnd(k), k) = Count(LineEnd(k), k - 1) + 1
<1> DEFINE l == LineEnd(k)
<1>1. k \in Int /\ k - 1 \in Int /\ k \in DOMAIN markdown
    BY IsTextMeans
<1>2. TicksUpto(l, k) = TicksUpto(l, k - 1) \cup {k} /\ k \notin TicksUpto(l, k - 1)
    BY <1>1, IsTextMeans DEF TicksUpto, TicksOf
<1>3. IsFiniteSet(TicksUpto(l, k - 1))
    BY <1>1, TicksFinite
<1> HIDE DEF l
<1> QED BY <1>2, <1>3, FS_AddElement DEF Count, l

(* Where no backtick of the line stands between, nothing is counted.       *)
LEMMA CountSame ==
    ASSUME IsText, NEW l, NEW j \in Int, NEW k \in Int, j <= k,
           \A x \in TicksOf(l) : x <= k => x <= j
    PROVE  Count(l, j) = Count(l, k)
<1>1. TicksOf(l) \subseteq Int
    BY IsTextMeans DEF TicksOf
<1>2. TicksUpto(l, j) = TicksUpto(l, k)
    BY <1>1 DEF TicksUpto
<1> QED BY <1>2 DEF Count

(* All of them.                                                            *)
LEMMA CountAll ==
    ASSUME IsText, NEW l, NEW k \in Int, \A x \in TicksOf(l) : x <= k
    PROVE  Count(l, k) = Cardinality(TicksOf(l))
BY DEF Count, TicksUpto

LEMMA Parity ==
    ASSUME NEW n \in Nat
    PROVE  /\ n % 2 = 0 => (n + 1) % 2 = 1 /\ (n + 2) % 2 = 0
           /\ n % 2 = 1 => (n + 1) % 2 = 0
           /\ n % 2 \in {0, 1}
           /\ \A c \in Nat : n % 2 = 0 /\ n <= c => n <= c - (c % 2)
OBVIOUS

(* The backticks of the line of i are from i to its end or before i; those *)
(* before i are of the bytes whose lines end where that of i does.         *)
LEMMA LineSplits ==
    ASSUME IsText, NEW i \in 1..Len(markdown) + 1, NEW x \in TicksOf(LineEnd(i)), x >= i
    PROVE  x \in i..LineEnd(i) - 1 /\ x \in 1..Len(markdown) /\ markdown[x] = "tick"
<1>1. x \in 1..Len(markdown) /\ markdown[x] = "tick" /\ LineEnd(x) = LineEnd(i)
    BY IsTextMeans DEF TicksOf
<1>2. x \in 1..Len(markdown) + 1 /\ Len(markdown) \in Nat
    BY <1>1, IsTextMeans
<1>3. LineEnd(x) \in x..Len(markdown) + 1
      /\ (LineEnd(x) = Len(markdown) + 1 \/ markdown[LineEnd(x)] = "nl")
    BY <1>2, LineEndIs
<1>4. LineEnd(x) # x
    BY <1>1, <1>3
<1> DEFINE e == LineEnd(i)
<1>5. e \in x..Len(markdown) + 1 /\ e # x
    BY <1>1, <1>3, <1>4
<1> HIDE DEF e
<1>6. x \in i..e - 1
    BY <1>2, <1>5, <1>1
<1> QED BY <1>1, <1>6 DEF e

-----------------------------------------------------------------------------
NoFence == ~(\E i \in DOMAIN markdown : TicksAt(i))

TicksBefore(i) == Count(LineEnd(i), i - 1)
NoMore(i) == \A x \in TicksOf(LineEnd(i)) : x < i

(* In a text without fences: what lies behind the scan is hidden as it     *)
(* should be, what lies ahead is not, and the backticks of the line so far *)
(* have paired up, or were the last.                                       *)
Pairing ==
    NoFence =>
      /\ scanAt <= Len(markdown) + 1
      /\ \A k \in 1..Len(markdown) :
           IsBlanked(k) <=> k < scanAt /\ Hidden(k)
      /\ TicksBefore(scanAt) % 2 = 0 \/ NoMore(scanAt)

PairInv == BlankInv /\ Pairing

(* Nothing of the line is counted before its first byte.                   *)
LEMMA NewLine ==
    ASSUME IsText, NEW i \in 1..Len(markdown), markdown[i] = "nl"
    PROVE  LineEnd(i) = i /\ TicksBefore(i + 1) = 0
<1>1. Len(markdown) \in Nat /\ i \in 1..Len(markdown) + 1 /\ i + 1 \in 1..Len(markdown) + 1
    BY IsTextMeans
<1>2. LineEnd(i) = i
    BY <1>1, LineEndUnique
<1>3. LineEnd(i + 1) \in i + 1..Len(markdown) + 1
    BY <1>1, LineEndIs
<1>4. ASSUME NEW x \in TicksOf(LineEnd(i + 1)), x <= i PROVE FALSE
    <2>1. x \in 1..Len(markdown) /\ LineEnd(x) = LineEnd(i + 1)
        BY IsTextMeans DEF TicksOf
    <2>2. x \in 1..Len(markdown) + 1
        BY <1>1, <2>1
    <2> DEFINE e == LineEnd(x)
    <2>3. e \in i + 1..Len(markdown) + 1
        BY <1>3, <2>1
    <2>4. \A k \in x..e - 1 : markdown[k] # "nl"
        BY <2>2, LineEndIs
    <2> HIDE DEF e
    <2>5. i \in x..e - 1
        BY <1>1, <1>4, <2>1, <2>3
    <2> QED BY <2>4, <2>5
<1>5. TicksUpto(LineEnd(i + 1), (i + 1) - 1) = {}
    <2>1. (i + 1) - 1 = i
        BY <1>1
    <2> QED BY <1>4, <2>1 DEF TicksUpto
<1> QED BY <1>2, <1>5, FS_EmptySet DEF TicksBefore, Count

LEMMA PairInitInv == FenceInit => PairInv
<1> SUFFICES ASSUME FenceInit PROVE PairInv
    OBVIOUS
<1>1. BlankInv /\ IsText
    BY BlankInitInv DEF BlankInv
<1>2. blankedText = markdown /\ scanAt = 1 /\ Len(markdown) \in Nat
    BY <1>1, IsTextMeans DEF FenceInit
<1>3. TicksBefore(1) = 0
    <2>1. TicksUpto(LineEnd(1), 1 - 1) = {}
        BY <1>1, IsTextMeans DEF TicksUpto, TicksOf
    <2> QED BY <2>1, FS_EmptySet DEF TicksBefore, Count
<1>4. TicksBefore(scanAt) % 2 = 0
    BY <1>2, <1>3
<1> QED BY <1>1, <1>2, <1>4 DEF PairInv, Pairing, IsBlanked

(* The text stays, and with it all that is said of it alone.               *)
LEMMA TextStays ==
    ASSUME UNCHANGED markdown, NoFence =>
             /\ scanAt' <= Len(markdown) + 1
             /\ \A k \in 1..Len(markdown) : IsBlanked(k)' <=> k < scanAt' /\ Hidden(k)
             /\ TicksBefore(scanAt') % 2 = 0 \/ NoMore(scanAt')
    PROVE  Pairing'
<1>1. \A i : LineEnd(i)' = LineEnd(i)
    BY DEF LineEnd
<1>2. \A l : TicksOf(l)' = TicksOf(l)
    BY <1>1 DEF TicksOf
<1>3. \A l, k : Count(l, k)' = Count(l, k) /\ Paired(l)' = Paired(l)
    BY <1>2 DEF Count, TicksUpto, Paired
<1>4. \A k : Hidden(k)' <=> Hidden(k)
    BY <1>1, <1>3 DEF Hidden
<1>5. NoFence' <=> NoFence
    BY DEF NoFence, TicksAt
<1>6. TicksBefore(scanAt)' = TicksBefore(scanAt') /\ (NoMore(scanAt)' <=> NoMore(scanAt'))
    BY <1>1, <1>2, <1>3 DEF TicksBefore, NoMore
<1> QED BY <1>4, <1>5, <1>6 DEF Pairing

(* The next byte is of the same line.                                      *)
LEMMA Advance ==
    ASSUME IsText, NEW i \in 1..Len(markdown), markdown[i] # "nl"
    PROVE  /\ i + 1 \in 1..Len(markdown) + 1 /\ LineEnd(i + 1) = LineEnd(i)
           /\ TicksBefore(i + 1) = Count(LineEnd(i), i) /\ (i + 1) - 1 = i
<1>1. Len(markdown) \in Nat /\ i \in 1..Len(markdown) + 1 /\ i + 1 \in 1..Len(markdown) + 1
      /\ (i + 1) - 1 = i
    BY IsTextMeans
<1> DEFINE e == LineEnd(i)
<1>2. e \in i..Len(markdown) + 1 /\ (e = Len(markdown) + 1 \/ markdown[e] = "nl")
    BY <1>1, LineEndIs
<1>3. i + 1 \in i..e
    <2> HIDE DEF e
    <2> QED BY <1>1, <1>2
<1>4. LineEnd(i + 1) = LineEnd(i)
    BY <1>1, <1>3, SameLine
<1> QED BY <1>1, <1>4 DEF TicksBefore

(* The last of an odd number of backticks pairs with none.                 *)
LEMMA OddIsLast ==
    ASSUME IsText, NEW l, NEW k \in Int, Count(l, k) % 2 = 1, \A x \in TicksOf(l) : x <= k
    PROVE  ~(Count(l, k) <= Paired(l))
<1> DEFINE c == Count(l, k)
<1>1. c \in Nat /\ c % 2 = 1 /\ Paired(l) = c - (c % 2)
    BY TicksFinite, CountAll DEF Paired
<1> HIDE DEF c
<1>2. ~(c <= Paired(l))
    BY <1>1
<1> QED BY <1>2 DEF c

LEMMA PassByteStays ==
    ASSUME PairInv, PassByte
    PROVE  Pairing'
<1> DEFINE i == scanAt
           l == LineEnd(i)
<1>1. /\ IsText /\ scanAt \in 1..Len(markdown) /\ markdown[scanAt] # "tick" /\ Len(markdown) \in Nat
      /\ scanAt' = scanAt + 1 /\ UNCHANGED markdown /\ UNCHANGED blankedText
    <2>1. IsText /\ scanAt \in Nat /\ scanAt >= 1
        BY DEF PairInv, BlankInv, Copied
    <2>2. /\ scanAt <= Len(markdown) /\ markdown[scanAt] # "tick"
          /\ scanAt' = scanAt + 1 /\ UNCHANGED markdown /\ UNCHANGED blankedText
        BY DEF PassByte
    <2>3. Len(markdown) \in Nat
        BY <2>1, IsTextMeans
    <2> QED BY <2>1, <2>2, <2>3
<1>2. SUFFICES ASSUME NoFence
               PROVE  /\ scanAt' <= Len(markdown) + 1
                      /\ \A k \in 1..Len(markdown) : IsBlanked(k)' <=> k < scanAt' /\ Hidden(k)
                      /\ TicksBefore(scanAt') % 2 = 0 \/ NoMore(scanAt')
    BY <1>1, TextStays
<1>3. /\ \A k \in 1..Len(markdown) : IsBlanked(k) <=> k < scanAt /\ Hidden(k)
      /\ TicksBefore(i) % 2 = 0 \/ NoMore(i)
    BY <1>2 DEF PairInv, Pairing
<1>4. Count(l, i) = TicksBefore(i)
    <2>1. i - 1 \in Int /\ i \in Int /\ i - 1 <= i
        BY <1>1
    <2>2. \A x \in TicksOf(l) : x <= i => x <= i - 1
        BY <1>1, IsTextMeans DEF TicksOf
    <2> HIDE DEF l
    <2>3. Count(l, i - 1) = Count(l, i)
        BY <1>1, <2>1, <2>2, CountSame
    <2> QED BY <2>3 DEF TicksBefore, l
<1>5. ~Hidden(scanAt)
    <2>1. CASE TicksBefore(i) % 2 = 0
        BY <1>1, <1>4, <2>1 DEF Hidden
    <2>2. CASE TicksBefore(i) % 2 # 0 /\ NoMore(i)
        <3>1. i - 1 \in Int /\ TicksBefore(i) \in Nat
            BY <1>1, TicksFinite DEF TicksBefore
        <3>2. Count(l, i) % 2 = 1
            BY <1>4, <2>2, <3>1, Parity
        <3>3. \A x \in TicksOf(l) : x <= i
            BY <1>1, <2>2, IsTextMeans DEF NoMore, TicksOf
        <3>4. ~(Count(l, i) <= Paired(l))
            <4> HIDE DEF l
            <4> QED BY <1>1, <3>2, <3>3, OddIsLast
        <3> QED BY <3>4 DEF Hidden
    <2> QED BY <1>3, <2>1, <2>2
<1>6. TicksBefore(scanAt') % 2 = 0 \/ NoMore(scanAt')
    <2>1. CASE markdown[i] = "nl"
        BY <1>1, <2>1, NewLine
    <2>2. CASE markdown[i] # "nl"
        <3>1. LineEnd(i + 1) = l /\ TicksBefore(i + 1) = TicksBefore(i)
            BY <1>1, <1>4, <2>2, Advance
        <3>2. NoMore(i) => NoMore(i + 1)
            BY <1>1, <3>1, IsTextMeans DEF NoMore, TicksOf
        <3> QED BY <1>1, <1>3, <3>1, <3>2
    <2> QED BY <2>1, <2>2
<1>7. \A k \in 1..Len(markdown) : IsBlanked(k)' <=> k < scanAt' /\ Hidden(k)
    <2>1. \A k \in 1..Len(markdown) : IsBlanked(k)' <=> IsBlanked(k)
        BY <1>1 DEF IsBlanked
    <2>2. \A k \in 1..Len(markdown) : k < scanAt' <=> (k < scanAt \/ k = scanAt)
        BY <1>1
    <2> QED BY <1>3, <1>5, <2>1, <2>2
<1>8. scanAt' <= Len(markdown) + 1
    BY <1>1
<1> QED BY <1>6, <1>7, <1>8

LEMMA LoneTickStays ==
    ASSUME PairInv, MaskInline, NextTicks(scanAt) = {}
    PROVE  Pairing'
<1> DEFINE i == scanAt
           l == LineEnd(i)
<1>1. /\ IsText /\ scanAt \in 1..Len(markdown) /\ markdown[scanAt] = "tick" /\ Len(markdown) \in Nat
      /\ scanAt' = scanAt + 1 /\ UNCHANGED markdown /\ UNCHANGED blankedText
    <2>1. IsText /\ scanAt \in Nat /\ scanAt >= 1
        BY DEF PairInv, BlankInv, Copied
    <2>2. /\ scanAt <= Len(markdown) /\ markdown[scanAt] = "tick"
          /\ scanAt' = scanAt + 1 /\ UNCHANGED markdown /\ UNCHANGED blankedText
        BY DEF MaskInline
    <2>3. Len(markdown) \in Nat
        BY <2>1, IsTextMeans
    <2> QED BY <2>1, <2>2, <2>3
<1>2. SUFFICES ASSUME NoFence
               PROVE  /\ scanAt' <= Len(markdown) + 1
                      /\ \A k \in 1..Len(markdown) : IsBlanked(k)' <=> k < scanAt' /\ Hidden(k)
                      /\ TicksBefore(scanAt') % 2 = 0 \/ NoMore(scanAt')
    BY <1>1, TextStays
<1>3. /\ \A k \in 1..Len(markdown) : IsBlanked(k) <=> k < scanAt /\ Hidden(k)
      /\ TicksBefore(i) % 2 = 0
    <2>1. i \in TicksOf(l)
        BY <1>1, IsTextMeans DEF TicksOf
    <2>2. ~NoMore(i)
        BY <1>1, <2>1 DEF NoMore
    <2> QED BY <1>2, <2>2 DEF PairInv, Pairing
<1>4. Count(l, i) % 2 = 1
    <2>1. TicksBefore(i) \in Nat
        <3>1. i - 1 \in Int
            BY <1>1
        <3> QED BY <1>1, <3>1, TicksFinite DEF TicksBefore
    <2>2. Count(l, i) = TicksBefore(i) + 1
        BY <1>1, CountTick DEF TicksBefore
    <2> QED BY <1>3, <2>1, <2>2, Parity
<1>5. \A x \in TicksOf(l) : x <= i
    <2> SUFFICES ASSUME NEW x \in TicksOf(l), ~(x <= i) PROVE FALSE
        OBVIOUS
    <2>1. x \in 1..Len(markdown) /\ i \in 1..Len(markdown) + 1
        BY <1>1, IsTextMeans DEF TicksOf
    <2>2. x >= i
        BY <1>1, <2>1
    <2>3. x \in i..LineEnd(i) - 1 /\ markdown[x] = "tick"
        BY <1>1, <2>1, <2>2, LineSplits
    <2>4. LineEnd(i) \in i..Len(markdown) + 1
        BY <1>1, <2>1, LineEndIs
    <2>5. x \in i + 1..LineEnd(i) - 1
        <3> HIDE DEF l
        <3> QED BY <1>1, <2>1, <2>3, <2>4
    <2> QED BY <2>3, <2>5 DEF NextTicks
<1>6. ~Hidden(scanAt)
    <2>1. ~(Count(l, i) <= Paired(l))
        <3> HIDE DEF l
        <3> QED BY <1>1, <1>4, <1>5, OddIsLast
    <2> QED BY <2>1 DEF Hidden
<1>7. NoMore(scanAt')
    <2>1. LineEnd(i + 1) = l
        BY <1>1, Advance
    <2> QED BY <1>1, <1>5, <2>1, IsTextMeans DEF NoMore, TicksOf
<1>8. \A k \in 1..Len(markdown) : IsBlanked(k)' <=> k < scanAt' /\ Hidden(k)
    <2>1. \A k \in 1..Len(markdown) : IsBlanked(k)' <=> IsBlanked(k)
        BY <1>1 DEF IsBlanked
    <2>2. \A k \in 1..Len(markdown) : k < scanAt' <=> (k < scanAt \/ k = scanAt)
        BY <1>1
    <2> QED BY <1>3, <1>6, <2>1, <2>2
<1>9. scanAt' <= Len(markdown) + 1
    BY <1>1
<1> QED BY <1>7, <1>8, <1>9

LEMMA TwoTicksPair ==
    ASSUME PairInv, MaskInline, NextTicks(scanAt) # {}
    PROVE  Pairing'
<1> DEFINE i == scanAt
           l == LineEnd(i)
           t == Min(NextTicks(i))
           n == TicksBefore(i)
           N == Len(markdown)
<1>1. /\ BlankInv /\ IsText /\ i \in 1..N /\ markdown[i] = "tick" /\ N \in Nat /\ UNCHANGED markdown
    <2>1. BlankInv /\ IsText /\ scanAt \in Nat /\ scanAt >= 1
        BY DEF PairInv, BlankInv, Copied
    <2>2. scanAt <= Len(markdown) /\ markdown[scanAt] = "tick" /\ UNCHANGED markdown
        BY DEF MaskInline
    <2>3. Len(markdown) \in Nat
        BY <2>1, IsTextMeans
    <2> HIDE DEF N
    <2> QED BY <2>1, <2>2, <2>3 DEF N
<1>2. /\ t \in i + 1..l - 1 /\ t \in 1..N /\ markdown[t] = "tick"
      /\ \A k \in i + 1..t - 1 : markdown[k] # "tick"
    BY <1>1, NextTickIs
<1>3. /\ scanAt' = t + 1
      /\ \A k \in 1..N : IsBlanked(k)' <=> (IsBlanked(k) \/ (k \in i..t /\ markdown[k] # "nl"))
    BY <1>1, InlineKeeps
<1> HIDE DEF t
<1>4. SUFFICES ASSUME NoFence
               PROVE  /\ scanAt' <= N + 1
                      /\ \A k \in 1..N : IsBlanked(k)' <=> k < scanAt' /\ Hidden(k)
                      /\ TicksBefore(scanAt') % 2 = 0 \/ NoMore(scanAt')
    BY <1>1, TextStays
<1>5. /\ \A k \in 1..N : IsBlanked(k) <=> k < i /\ Hidden(k)
      /\ n % 2 = 0
    <2>1. i \in TicksOf(l)
        BY <1>1, IsTextMeans DEF TicksOf
    <2>2. ~NoMore(i)
        BY <1>1, <2>1 DEF NoMore
    <2> QED BY <1>4, <2>2 DEF PairInv, Pairing
<1>6. l \in i..N + 1 /\ \A k \in i..l - 1 : markdown[k] # "nl"
    <2>1. i \in 1..N + 1
        BY <1>1
    <2> QED BY <1>1, <2>1, LineEndIs
<1>7. ASSUME NEW k \in i..t PROVE k \in 1..N /\ LineEnd(k) = l /\ markdown[k] # "nl"
    <2>1. i \in 1..N + 1 /\ k \in 1..N /\ k \in i..l - 1 /\ k \in i..l
        <3> HIDE DEF l, N
        <3> QED BY <1>1, <1>2, <1>6
    <2> QED BY <1>1, <1>6, <2>1, SameLine
<1>8. n \in Nat
    <2>1. i - 1 \in Int
        BY <1>1
    <2> QED BY <1>1, <2>1, TicksFinite DEF TicksBefore
<1>9. Count(l, i) = n + 1
    BY <1>1, CountTick DEF TicksBefore
<1>10. ASSUME NEW k \in i..t - 1 PROVE Count(l, k) = n + 1
    <2>1. k \in Int /\ i \in Int /\ i <= k
        BY <1>1, <1>2
    <2>2. \A x \in TicksOf(l) : x <= k => x <= i
        BY <1>1, <1>2, <2>1, IsTextMeans DEF TicksOf
    <2> HIDE DEF l, n
    <2> QED BY <1>1, <1>9, <2>1, <2>2, CountSame
<1>11. Count(l, t) = n + 2
    <2>1. LineEnd(t) = l /\ t - 1 \in i..t - 1
        BY <1>1, <1>2, <1>7
    <2>2. Count(l, t) = Count(l, t - 1) + 1
        BY <1>1, <1>2, <2>1, CountTick
    <2>3. Count(l, t - 1) = n + 1
        BY <1>10, <2>1
    <2> HIDE DEF l, n
    <2> QED BY <1>8, <2>2, <2>3
<1>12. n + 2 <= Paired(l)
    <2>1. t \in Int
        BY <1>2
    <2> DEFINE c == Cardinality(TicksOf(l))
    <2>2. c \in Nat /\ n + 2 <= c
        BY <1>1, <1>11, <2>1, TicksFinite
    <2>3. Paired(l) = c - (c % 2)
        BY DEF Paired
    <2> HIDE DEF c, n
    <2> QED BY <1>5, <1>8, <2>2, <2>3, Parity
<1>13. ASSUME NEW k \in i..t PROVE Hidden(k)
    <2>1. CASE k = t
        <3>1. Count(LineEnd(k), k) = n + 2 /\ markdown[k] = "tick" /\ LineEnd(k) = l
            BY <1>2, <1>7, <1>11, <2>1
        <3> QED BY <1>7, <1>12, <3>1 DEF Hidden
    <2>2. CASE k # t
        <3>1. k \in i..t - 1
            BY <1>1, <1>2, <2>2
        <3>2. Count(LineEnd(k), k) = n + 1 /\ LineEnd(k) = l /\ markdown[k] # "nl"
            BY <1>7, <1>10, <3>1
        <3>3. (n + 1) % 2 = 1 /\ n + 1 <= Paired(l)
            <4> HIDE DEF n
            <4>1. (n + 1) % 2 = 1
                BY <1>5, <1>8, Parity
            <4>2. Paired(l) \in Int
                <5> DEFINE c == Cardinality(TicksOf(l))
                <5>1. c \in Nat /\ Paired(l) = c - (c % 2)
                    <6>1. 0 \in Int
                        OBVIOUS
                    <6> QED BY <1>1, <6>1, TicksFinite DEF Paired
                <5> HIDE DEF c
                <5> QED BY <5>1
            <4> HIDE DEF l
            <4> QED BY <1>8, <1>12, <4>1, <4>2
        <3> QED BY <3>2, <3>3 DEF Hidden
    <2> QED BY <2>1, <2>2
<1>14. TicksBefore(scanAt') % 2 = 0
    <2>1. t \in i..t
        BY <1>1, <1>2
    <2>2. TicksBefore(t + 1) = Count(l, t)
        BY <1>1, <1>2, <1>7, <2>1, Advance
    <2>3. (n + 2) % 2 = 0
        <3> HIDE DEF n
        <3> QED BY <1>5, <1>8, Parity
    <2> QED BY <1>3, <1>11, <2>2, <2>3
<1>15. ASSUME NEW k \in 1..N PROVE IsBlanked(k)' <=> k < scanAt' /\ Hidden(k)
    <2>1. k < scanAt' <=> (k < i \/ k \in i..t)
        <3> HIDE DEF N
        <3> QED BY <1>1, <1>2, <1>3
    <2>2. k \in i..t => markdown[k] # "nl" /\ Hidden(k)
        BY <1>7, <1>13
    <2> QED BY <1>3, <1>5, <2>1, <2>2
<1>16. scanAt' <= N + 1
    <2> HIDE DEF N
    <2> QED BY <1>1, <1>2, <1>3
<1> QED BY <1>14, <1>15, <1>16

LEMMA PairStepInv == PairInv /\ [FenceNext]_fenceVars => PairInv'
<1> SUFFICES ASSUME PairInv, [FenceNext]_fenceVars PROVE PairInv'
    OBVIOUS
<1>1. BlankInv /\ BlankInv'
    BY BlankStepInv DEF PairInv
<1>2. IsText /\ DOMAIN markdown = 1..Len(markdown) /\ Len(markdown) \in Nat /\ scanAt \in Nat /\ scanAt >= 1
    BY <1>1, IsTextMeans DEF BlankInv, Copied
<1>3. CASE MaskFence \/ PassUnclosed
    <2>1. TicksAt(scanAt) /\ scanAt <= Len(markdown) /\ UNCHANGED markdown
        BY <1>3 DEF MaskFence, PassUnclosed
    <2>2. ~NoFence
        <3>1. scanAt \in DOMAIN markdown
            BY <1>2, <2>1
        <3> QED BY <2>1, <3>1 DEF NoFence
    <2>3. Pairing'
        BY <2>1, <2>2, TextStays
    <2> QED BY <1>1, <2>3 DEF PairInv
<1>4. CASE MaskInline /\ NextTicks(scanAt) = {}
    BY <1>1, <1>4, LoneTickStays DEF PairInv
<1>5. CASE MaskInline /\ NextTicks(scanAt) # {}
    BY <1>1, <1>5, TwoTicksPair DEF PairInv
<1>6. CASE PassByte
    BY <1>1, <1>6, PassByteStays DEF PairInv
<1>7. CASE UNCHANGED fenceVars
    <2>1. UNCHANGED markdown /\ scanAt' = scanAt /\ \A k : IsBlanked(k)' <=> IsBlanked(k)
        BY <1>7 DEF fenceVars, IsBlanked
    <2>2. Pairing'
        BY <2>1, TextStays DEF PairInv, Pairing
    <2> QED BY <1>1, <2>2 DEF PairInv
<1> QED BY <1>3, <1>4, <1>5, <1>6, <1>7 DEF FenceNext

LEMMA PairInvIsEnough == PairInv => ProseStaysVisible
<1> SUFFICES ASSUME PairInv PROVE ProseStaysVisible
    OBVIOUS
<1>1. IsText /\ BlankedIsEnclosed /\ DOMAIN markdown = 1..Len(markdown) /\ Len(markdown) \in Nat
      /\ scanAt \in Nat
    BY IsTextMeans DEF PairInv, BlankInv, Copied
<1>2. ASSUME scanAt > Len(markdown), NoFence, NEW k \in DOMAIN markdown
      PROVE  IsBlanked(k) <=> Hidden(k)
    <2>1. k \in 1..Len(markdown) /\ k < scanAt
        BY <1>1, <1>2
    <2> QED BY <1>2, <2>1 DEF PairInv, Pairing
<1>3. InlineIsHidden
    BY <1>2 DEF InlineIsHidden, NoFence, Hidden, Count, TicksUpto, TicksOf, Paired
<1> QED BY <1>1, <1>3 DEF ProseStaysVisible

(* Only what stands between backticks is blanked (mask_code_fences).       *)
THEOREM ProseIsScanned == FenceSpec => []ProseStaysVisible
BY PairInitInv, PairStepInv, PairInvIsEnough, PTL DEF FenceSpec

-----------------------------------------------------------------------------
(* The vote of the engines, and nested JSON.                               *)

(* The matches a match overlaps, and what is reached from it.              *)
MeetsOf == [i \in Indices |-> {j \in Indices : Overlap2(tagged[i], tagged[j])}]
Reaches(f) ==
    /\ f \in [0..Len(tagged) -> [Indices -> SUBSET Indices]]
    /\ f[0] = MeetsOf
    /\ \A n \in 1..Len(tagged) : \A i \in Indices : f[n][i] = UNION {MeetsOf[j] : j \in f[n - 1][i]}
    /\ Clusters = {f[Len(tagged)][i] : i \in Indices}

TaggedOK == tagged \in Seq(Match)

LEMMA MeetsIs ==
    ASSUME TaggedOK
    PROVE  /\ Len(tagged) \in Nat /\ Indices = 1..Len(tagged)
           /\ MeetsOf \in [Indices -> SUBSET Indices]
           /\ \A i \in Indices : i \in MeetsOf[i]
           /\ \A i, j \in Indices : j \in MeetsOf[i] <=> Overlap2(tagged[i], tagged[j])
           /\ \A i, j \in Indices : j \in MeetsOf[i] <=> i \in MeetsOf[j]
<1>1. Len(tagged) \in Nat /\ Indices = 1..Len(tagged) /\ \A i \in Indices : tagged[i] \in Match
    BY DEF TaggedOK, Indices
<1>2. ASSUME NEW i \in Indices PROVE Overlap2(tagged[i], tagged[i])
    <2>1. tagged[i].span \in Spans
        BY <1>1 DEF Match
    <2>2. tagged[i].span \in Nat \X Nat /\ tagged[i].span[1] < tagged[i].span[2]
        BY <2>1, VoteAssumption
    <2> QED BY <2>2 DEF Overlap2
<1>3. \A i, j \in Indices : j \in MeetsOf[i] <=> Overlap2(tagged[i], tagged[j])
    BY DEF MeetsOf
<1>4. \A i, j \in Indices : Overlap2(tagged[i], tagged[j]) <=> Overlap2(tagged[j], tagged[i])
    BY DEF Overlap2
<1>5. MeetsOf \in [Indices -> SUBSET Indices]
    BY DEF MeetsOf
<1> QED BY <1>1, <1>2, <1>3, <1>4, <1>5

LEMMA ReachExists == ASSUME TaggedOK PROVE \E f : Reaches(f)
<1> DEFINE N    == Len(tagged)
           X    == [Indices -> SUBSET Indices]
           Wider(r) == [i \in Indices |-> UNION {MeetsOf[j] : j \in r[i]}]
           step == [p \in (0 + 1..N) \X X |-> Wider(p[2])]
           F(f) == [n \in 0..N |-> IF n = 0 THEN MeetsOf ELSE Wider(f[n - 1])]
           f    == CHOOSE g : g = F(g)
<1>1. N \in Nat /\ N \in Int /\ 0 \in Int /\ 0 <= N /\ MeetsOf \in X
    BY MeetsIs
<1>0. ASSUME NEW r \in X PROVE Wider(r) \in X
    <2>1. \A i \in Indices : \A j \in r[i] : MeetsOf[j] \subseteq Indices
        BY <1>1
    <2> QED BY <2>1
<1>2. step \in [(0 + 1..N) \X X -> X]
    <2> HIDE DEF N, X, Wider
    <2> QED BY <1>0
<1>3. PICK g \in [0..N -> X] : Recursion(g, 0, N, MeetsOf, step)
    <2> HIDE DEF N, step, F, f, X
    <2> QED BY <1>1, <1>2, RecursionExists
<1>4. g[0] = MeetsOf
    BY <1>3 DEF Recursion
<1>5. ASSUME NEW n \in 1..N PROVE g[n] = Wider(g[n - 1])
    <2>1. n \in 0 + 1..N /\ n - 1 \in 0..N
        BY <1>1
    <2>2. <<n, g[n - 1]>> \in (0 + 1..N) \X X /\ g[n] = step[<<n, g[n - 1]>>]
        <3> HIDE DEF step, N, X
        <3> QED BY <2>1, <1>3 DEF Recursion
    <2> HIDE DEF N, X, Wider
    <2>3. step[<<n, g[n - 1]>>] = Wider(g[n - 1])
        BY <2>2
    <2> HIDE DEF step
    <2> QED BY <2>2, <2>3
<1>6. g = F(g)
    <2> HIDE DEF step, N, X, Wider
    <2>1. \A n \in 0..N : g[n] = F(g)[n]
        <3> SUFFICES ASSUME NEW n \in 0..N PROVE g[n] = F(g)[n]
            OBVIOUS
        <3>1. CASE n = 0
            BY <1>4, <3>1
        <3>2. CASE n # 0
            <4>1. n \in 1..N
                BY <1>1, <3>2
            <4> QED BY <1>5, <3>2, <4>1
        <3> HIDE DEF F
        <3> QED BY <3>1, <3>2
    <2> QED BY <1>3, <2>1
<1>7. f = F(f)
    <2> HIDE DEF F
    <2> QED BY <1>6
<1>8. Clusters = {f[N][i] : i \in Indices}
    BY DEF Clusters, MeetsOf
<1> HIDE DEF f
<1>9. f[0] = MeetsOf
    <2> HIDE DEF N, Wider
    <2> QED BY <1>1, <1>7
<1>10. ASSUME NEW n \in 1..N PROVE f[n] = Wider(f[n - 1])
    <2>1. n \in 0..N /\ n # 0
        BY <1>1
    <2> HIDE DEF N, Wider
    <2> QED BY <1>7, <2>1
<1>11. \A n \in 0..N : f[n] \in X
    <2> DEFINE T == {n \in 0..N : f[n] \in X}
    <2>1. 0 \in T
        <3> HIDE DEF X, N
        <3> QED BY <1>1, <1>9
    <2>2. ASSUME NEW n \in 0..N - 1, n \in T PROVE n + 1 \in T
        <3>1. n + 1 \in 1..N /\ n + 1 \in 0..N /\ (n + 1) - 1 = n /\ f[n] \in X
            BY <2>2, <1>1
        <3> HIDE DEF X, N, Wider
        <3>2. f[n + 1] = Wider(f[n])
            BY <3>1, <1>10
        <3> QED BY <3>1, <3>2, <1>0
    <2>3. 0..N \subseteq T
        <3> HIDE DEF T, N
        <3> QED BY <1>1, <2>1, <2>2, IntervalInduction
    <2> QED BY <2>3
<1>12. f \in [0..N -> X]
    <2>1. f = [n \in 0..N |-> f[n]]
        <3> HIDE DEF N, Wider
        <3> QED BY <1>7
    <2> HIDE DEF N, X
    <2> QED BY <2>1, <1>11
<1>13. Reaches(f)
    <2>1. \A n \in 1..N : \A i \in Indices : f[n][i] = UNION {MeetsOf[j] : j \in f[n - 1][i]}
        BY <1>10
    <2> QED BY <2>1, <1>8, <1>9, <1>12 DEF Reaches
<1> QED BY <1>13

(* A set of matches that holds what its members overlap.                   *)
Closed(C) == C \subseteq Indices /\ \A j \in C : MeetsOf[j] \subseteq C

LEMMA StartIsReached ==
    ASSUME TaggedOK, NEW f, Reaches(f), NEW i \in Indices
    PROVE  \A n \in 0..Len(tagged) : i \in f[n][i] /\ f[n][i] \subseteq Indices
<1> DEFINE N == Len(tagged)
           T == {n \in 0..N : i \in f[n][i]}
<1>1. N \in Nat /\ 0 \in Int /\ N \in Int /\ 0 <= N /\ 0 \in 0..N
    BY MeetsIs
<1>2. 0 \in T
    <2>1. i \in f[0][i]
        BY MeetsIs DEF Reaches
    <2> QED BY <1>1, <2>1
<1>3. ASSUME NEW n \in 0..N - 1, n \in T PROVE n + 1 \in T
    <2>1. n + 1 \in 1..N /\ n + 1 \in 0..N /\ (n + 1) - 1 = n
        BY <1>1
    <2>2. f[n + 1][i] = UNION {MeetsOf[j] : j \in f[n][i]}
        BY <2>1 DEF Reaches
    <2>3. i \in f[n][i] /\ i \in MeetsOf[i]
        BY <1>3, MeetsIs
    <2> QED BY <2>1, <2>2, <2>3
<1>4. 0..N \subseteq T
    <2> HIDE DEF T, N
    <2> QED BY <1>1, <1>2, <1>3, IntervalInduction
<1>5. \A n \in 0..N : f[n][i] \subseteq Indices
    BY DEF Reaches
<1> QED BY <1>4, <1>5

(* As many steps as there are matches reach all that can be reached.       *)
LEMMA ReachCloses ==
    ASSUME TaggedOK, NEW f, Reaches(f), NEW i \in Indices
    PROVE  Closed(f[Len(tagged)][i])
<1> DEFINE N == Len(tagged)
           T == {n \in 0..N : Closed(f[n][i]) \/ Cardinality(f[n][i]) >= n + 1}
<1>1. N \in Nat /\ 0 \in Int /\ N \in Int /\ 0 <= N /\ 0 \in 0..N /\ N \in 0..N /\ Indices = 1..N
    BY MeetsIs
<1>2. IsFiniteSet(1..N) /\ Cardinality(1..N) = N
    <2>1. 1 \in Int /\ N \in Int
        BY <1>1
    <2>2. IsFiniteSet(1..N) /\ Cardinality(1..N) = IF 1 > N THEN 0 ELSE N - 1 + 1
        BY <2>1, FS_Interval
    <2> HIDE DEF N
    <2> QED BY <1>1, <2>2
<1>3. ASSUME NEW n \in 0..N
      PROVE  /\ IsFiniteSet(f[n][i]) /\ Cardinality(f[n][i]) \in Nat /\ Cardinality(f[n][i]) <= N
             /\ f[n][i] \subseteq Indices /\ i \in f[n][i]
    <2>1. f[n][i] \subseteq 1..N /\ i \in f[n][i]
        BY <1>1, StartIsReached
    <2>2. IsFiniteSet(f[n][i]) /\ Cardinality(f[n][i]) <= Cardinality(1..N)
        BY <2>1, <1>2, FS_Subset
    <2>3. Cardinality(f[n][i]) \in Nat
        BY <2>2, FS_CardinalityType
    <2> QED BY <1>1, <1>2, <2>1, <2>2, <2>3
<1>4. 0 \in T
    <2>1. Cardinality(f[0][i]) # 0
        BY <1>1, <1>3, FS_EmptySet
    <2> QED BY <1>1, <1>3, <2>1
<1>5. ASSUME NEW n \in 0..N - 1, n \in T PROVE n + 1 \in T
    <2> DEFINE r == f[n][i]
               q == f[n + 1][i]
    <2>1. n + 1 \in 1..N /\ n + 1 \in 0..N /\ (n + 1) - 1 = n /\ n \in 0..N
        BY <1>1
    <2>2. q = UNION {MeetsOf[j] : j \in r}
        BY <2>1 DEF Reaches
    <2>3. r \subseteq q
        <3>1. \A x \in r : x \in Indices /\ x \in MeetsOf[x]
            BY <2>1, <1>3, MeetsIs
        <3> HIDE DEF r, q
        <3> QED BY <3>1, <2>2
    <2>4. CASE Closed(r)
        <3>1. q \subseteq r
            BY <2>2, <2>4 DEF Closed
        <3>2. q = r
            BY <3>1, <2>3
        <3> QED BY <2>1, <2>4, <3>2
    <2>5. CASE ~Closed(r)
        <3>1. PICK j \in r : ~(MeetsOf[j] \subseteq r)
            BY <2>1, <2>5, <1>3 DEF Closed
        <3>2. PICK x \in MeetsOf[j] : x \notin r
            BY <3>1
        <3>3. r \cup {x} \subseteq q
            BY <3>1, <3>2, <2>2, <2>3
        <3>4. IsFiniteSet(r) /\ IsFiniteSet(q) /\ Cardinality(r) \in Nat /\ Cardinality(q) \in Nat
            BY <2>1, <1>3
        <3> HIDE DEF r, q
        <3>5. Cardinality(r \cup {x}) = Cardinality(r) + 1
            BY <3>2, <3>4, FS_AddElement
        <3>6. Cardinality(r \cup {x}) <= Cardinality(q)
            BY <3>3, <3>4, FS_Subset
        <3>7. Cardinality(r) >= n + 1
            BY <1>5, <2>5 DEF r
        <3>8. Cardinality(q) >= (n + 1) + 1
            BY <3>4, <3>5, <3>6, <3>7
        <3> QED BY <2>1, <3>8 DEF q
    <2> QED BY <2>4, <2>5
<1>6. 0..N \subseteq T
    <2> HIDE DEF T, N
    <2> QED BY <1>1, <1>4, <1>5, IntervalInduction
<1>7. Closed(f[N][i]) \/ Cardinality(f[N][i]) >= N + 1
    BY <1>1, <1>6
<1>8. ~(Cardinality(f[N][i]) >= N + 1)
    <2> DEFINE k == Cardinality(f[N][i])
    <2>1. k \in Nat /\ k <= N
        BY <1>1, <1>3
    <2> HIDE DEF k, N
    <2>2. ~(k >= N + 1)
        BY <1>1, <2>1
    <2> QED BY <2>2 DEF k
<1> QED BY <1>7, <1>8

(* What is reached from a match stays in a closed set that holds it.       *)
LEMMA ReachStays ==
    ASSUME TaggedOK, NEW f, Reaches(f), NEW C, Closed(C), NEW i \in C
    PROVE  f[Len(tagged)][i] \subseteq C
<1> DEFINE N == Len(tagged)
           T == {n \in 0..N : f[n][i] \subseteq C}
<1>1. N \in Nat /\ 0 \in Int /\ N \in Int /\ 0 <= N /\ 0 \in 0..N /\ N \in 0..N /\ i \in Indices
    BY MeetsIs DEF Closed
<1>2. 0 \in T
    BY <1>1 DEF Reaches, Closed
<1>3. ASSUME NEW n \in 0..N - 1, n \in T PROVE n + 1 \in T
    <2>1. n + 1 \in 1..N /\ n + 1 \in 0..N /\ (n + 1) - 1 = n
        BY <1>1
    <2>2. f[n + 1][i] = UNION {MeetsOf[j] : j \in f[n][i]}
        BY <1>1, <2>1 DEF Reaches
    <2>3. \A j \in f[n][i] : MeetsOf[j] \subseteq C
        BY <1>3 DEF Closed
    <2> QED BY <2>1, <2>2, <2>3
<1>4. 0..N \subseteq T
    <2> HIDE DEF T, N
    <2> QED BY <1>1, <1>2, <1>3, IntervalInduction
<1> QED BY <1>1, <1>4

(* Matches of different clusters do not overlap.                           *)
Apart ==
    /\ \A c \in Clusters : c \subseteq Indices /\ c # {}
    /\ \A c, d \in Clusters : \A i \in c, j \in d : Overlap2(tagged[i], tagged[j]) => c = d

LEMMA ClustersApart == ASSUME TaggedOK PROVE Apart
<1>1. PICK f : Reaches(f)
    BY ReachExists
<1> DEFINE R(i) == f[Len(tagged)][i]
<1>2. Clusters = {R(i) : i \in Indices}
    BY <1>1 DEF Reaches
<1>3. ASSUME NEW i \in Indices PROVE Closed(R(i)) /\ i \in R(i) /\ R(i) \subseteq Indices
    <2>1. Len(tagged) \in 0..Len(tagged)
        BY MeetsIs
    <2> QED BY <2>1, <1>1, StartIsReached, ReachCloses
<1>4. ASSUME NEW a \in Indices, NEW x \in R(a) PROVE R(a) = R(x)
    <2>1. x \in Indices /\ R(x) \subseteq R(a)
        BY <1>1, <1>3, <1>4, ReachStays
    <2>2. a \in R(x)
        <3> SUFFICES ASSUME a \notin R(x) PROVE FALSE
            OBVIOUS
        <3> DEFINE D == Indices \ R(x)
        <3>1. Closed(D)
            <4>1. ASSUME NEW j \in D, NEW y \in MeetsOf[j], y \in R(x) PROVE FALSE
                <5>1. j \in Indices /\ y \in Indices /\ j \notin R(x)
                    BY <4>1, <2>1, <1>3
                <5>2. j \in MeetsOf[y]
                    BY <4>1, <5>1, MeetsIs
                <5>3. MeetsOf[y] \subseteq R(x)
                    BY <4>1, <2>1, <1>3 DEF Closed
                <5> QED BY <5>1, <5>2, <5>3
            <4>2. \A j \in D : MeetsOf[j] \subseteq Indices
                BY MeetsIs
            <4> QED BY <4>1, <4>2 DEF Closed
        <3>2. R(a) \subseteq D
            <4>1. a \in D
                OBVIOUS
            <4> HIDE DEF D
            <4> QED BY <4>1, <3>1, <1>1, ReachStays
        <3> QED BY <3>2, <1>4, <1>3, <2>1
    <2>3. R(a) \subseteq R(x)
        BY <2>1, <2>2, <1>1, <1>3, ReachStays
    <2> QED BY <2>1, <2>3
<1>5. ASSUME NEW a \in Indices, NEW b \in Indices, NEW i \in R(a), NEW j \in R(b),
             Overlap2(tagged[i], tagged[j])
      PROVE  R(a) = R(b)
    <2>1. i \in Indices /\ j \in Indices
        BY <1>3
    <2>2. j \in MeetsOf[i]
        BY <2>1, <1>5, MeetsIs
    <2>3. j \in R(a)
        BY <2>2, <1>3 DEF Closed
    <2>4. R(a) = R(j) /\ R(b) = R(j)
        BY <2>3, <1>4
    <2> QED BY <2>4
<1> HIDE DEF R
<1> QED BY <1>2, <1>3, <1>5 DEF Apart

-----------------------------------------------------------------------------
LEMMA BestIs ==
    ASSUME TaggedOK, NEW c \in SUBSET Indices, NEW i \in c
    PROVE  LET b == BestOf(c, tagged[i].type) IN b \in c /\ tagged[i].score <= tagged[b].score
<1> DEFINE t == tagged[i].type
           O == OfType(c, t)
           S == {tagged[j].score : j \in O}
           B == {k \in O : \A j \in O : tagged[j].score <= tagged[k].score}
           N == Len(tagged)
<1>1. N \in Nat /\ Indices = 1..N /\ O \subseteq c /\ i \in O /\ O \subseteq 1..N
      /\ \A j \in O : tagged[j].score \in 1..100
    <2>1. \A j \in 1..N : tagged[j] \in Match
        BY DEF TaggedOK
    <2>2. N \in Nat /\ Indices = 1..N /\ O \subseteq c /\ i \in O /\ O \subseteq 1..N
        BY MeetsIs DEF OfType
    <2> QED BY <2>1, <2>2 DEF Match
<1> HIDE DEF O, t, N
<1>2. PICK m \in S : \A x \in S : x <= m
    <2>0. \A x \in S : x \in 1..100
        BY <1>1
    <2>0a. tagged[i].score \in S
        BY <1>1
    <2>1. S \in SUBSET (1..100) /\ S # {} /\ 100 \in Nat
        <3> HIDE DEF S
        <3> QED BY <2>0, <2>0a
    <2> HIDE DEF S
    <2> QED BY <2>1, GreatestExists
<1>3. B # {} /\ B \in SUBSET (1..N)
    <2>1. PICK k \in O : tagged[k].score = m
        BY <1>2
    <2>2. k \in B
        BY <1>2, <2>1
    <2> QED BY <2>2, <1>1
<1>4. \E x \in B : \A y \in B : x <= y
    <2> HIDE DEF B
    <2> QED BY <1>1, <1>3, LeastExists
<1>5. Min(B) \in B
    <2> HIDE DEF B
    <2> QED BY <1>4 DEF Min
<1>6. BestOf(c, t) = Min(B)
    BY DEF BestOf, O
<1> HIDE DEF S
<1> QED BY <1>1, <1>5, <1>6 DEF t

(* A winner stands where some match of its cluster does, and is at least   *)
(* as strong as every one.                                                 *)
LEMMA WinnerIs ==
    ASSUME TaggedOK, NEW c \in SUBSET Indices, NEW m \in Winners(c)
    PROVE  /\ \E j \in c : m.span = tagged[j].span
           /\ \A i \in c : tagged[i].score <= m.score
           /\ m.score \in 1..100 /\ m \in Match
<1> DEFINE best == {Adjusted(c, tagged[i].type) : i \in c}
<1>1. ASSUME NEW i \in c
      PROVE  LET a == Adjusted(c, tagged[i].type) IN
             /\ a.score \in 1..100 /\ tagged[i].score <= a.score /\ tagged[i].score \in 1..100
             /\ \E j \in c : a.span = tagged[j].span
             /\ a \in Match
    <2> DEFINE t == tagged[i].type
               b == BestOf(c, t)
               x == tagged[b].score
               y == IF Agreed(c, t) THEN Min({x + Bonus, 100}) ELSE x
    <2>1. b \in c /\ tagged[i].score <= x
        BY BestIs
    <2>2. tagged[b] \in Match /\ tagged[i] \in Match
        <3>1. \A j \in 1..Len(tagged) : tagged[j] \in Match
            BY DEF TaggedOK
        <3>2. b \in 1..Len(tagged) /\ i \in 1..Len(tagged)
            BY <2>1, MeetsIs
        <3> HIDE DEF b
        <3> QED BY <3>1, <3>2
    <2>3. x \in 1..100 /\ tagged[i].score \in 1..100
        <3> HIDE DEF b
        <3> QED BY <2>2 DEF Match
    <2>4. y \in 1..100 /\ x <= y
        <3> HIDE DEF x
        <3>1. \E k \in {x + Bonus, 100} : \A l \in {x + Bonus, 100} : k <= l
            BY <2>3, VoteAssumption
        <3>2. Min({x + Bonus, 100}) \in {x + Bonus, 100}
              /\ \A l \in {x + Bonus, 100} : Min({x + Bonus, 100}) <= l
            BY <3>1 DEF Min
        <3>3. Min({x + Bonus, 100}) = x + Bonus \/ Min({x + Bonus, 100}) = 100
            BY <3>2
        <3> QED BY <2>3, <3>2, <3>3, VoteAssumption
    <2>5. Adjusted(c, t) = [tagged[b] EXCEPT !.score = y]
        BY DEF Adjusted
    <2> HIDE DEF b, y, x
    <2>6. Adjusted(c, t).score = y /\ Adjusted(c, t).span = tagged[b].span
        BY <2>2, <2>5 DEF Match
    <2>8. Adjusted(c, t) \in Match
        BY <2>2, <2>4, <2>5 DEF Match
    <2> HIDE DEF t
    <2>7. tagged[i].score <= y
        <3> DEFINE z == tagged[i].score
        <3>1. z \in 1..100 /\ x \in 1..100 /\ z <= x
            BY <2>1, <2>3 DEF x
        <3> HIDE DEF z
        <3>2. z <= y
            BY <3>1, <2>4
        <3> QED BY <3>2 DEF z
    <2> QED BY <2>1, <2>3, <2>4, <2>6, <2>7, <2>8 DEF t
<1>2. m \in best /\ \A n \in best : n.score <= m.score
    BY DEF Winners
<1>3. PICK k \in c : m = Adjusted(c, tagged[k].type)
    BY <1>2
<1>4. m \in Match /\ m.score \in 1..100 /\ \E j \in c : m.span = tagged[j].span
    BY <1>1, <1>3
<1>5. ASSUME NEW i \in c PROVE tagged[i].score <= m.score
    <2> DEFINE a == Adjusted(c, tagged[i].type)
    <2>1. a.score <= m.score
        BY <1>2
    <2>2. a.score \in 1..100 /\ tagged[i].score <= a.score /\ tagged[i].score \in 1..100
        BY <1>1
    <2> DEFINE x == tagged[i].score
               y == a.score
               z == m.score
    <2>3. x \in 1..100 /\ y \in 1..100 /\ z \in 1..100 /\ x <= y /\ y <= z
        BY <2>1, <2>2, <1>4
    <2> HIDE DEF x, y, z
    <2>4. x <= z
        BY <2>3
    <2> QED BY <2>4 DEF x, z
<1> QED BY <1>4, <1>5

VoteInv ==
    /\ TaggedOK
    /\ engine # "voted" => results = {}
    /\ ResultsDisjoint
    /\ StrongIsAnswered

LEMMA VoteInitInv == ScanInit => VoteInv
<1> SUFFICES ASSUME ScanInit PROVE VoteInv
    OBVIOUS
<1>1. tagged \in Seq(Match) /\ results = {} /\ engine = "regex"
    BY DEF ScanInit
<1> QED BY <1>1 DEF VoteInv, TaggedOK, ResultsDisjoint, StrongIsAnswered

LEMMA EngineKeeps == ASSUME VoteInv, RunEngine PROVE VoteInv'
<1>1. engine \in {"regex", "keyword", "gazetteer", "semantic", "multilingual"} /\ UNCHANGED results
      /\ engine' = After(engine)
    BY DEF RunEngine
<1>2. engine # "voted" /\ results' = {}
    BY <1>1 DEF VoteInv
<1>3. engine' # "voted"
    <2> DEFINE i == CHOOSE i \in DOMAIN Engines : Engines[i] = engine
    <2>1. \E j \in DOMAIN Engines : Engines[j] = engine
        BY <1>1 DEF Engines
    <2>2. i \in 1..7 /\ Engines[i] = engine
        BY <2>1 DEF Engines
    <2> HIDE DEF i
    <2>3. i # 6 /\ i # 7
        BY <1>1, <2>2 DEF Engines
    <2>4. 1 + i \in 2..6
        BY <2>2, <2>3
    <2>5. engine' = Engines[1 + i]
        BY <1>1 DEF After, i
    <2> QED BY <2>4, <2>5 DEF Engines
<1>4. ASSUME NEW s \in Spans, NEW t \in PiiTypes, NEW o \in Sources, NEW c \in 1..100,
             Finds(Found(s, t, o, c))
      PROVE  TaggedOK'
    <2> DEFINE m == Found(s, t, o, c)
    <2>1. m \in Match
        BY DEF Match, Found
    <2>2. tagged' = Append(tagged, m) /\ tagged \in Seq(Match)
        BY <1>4 DEF Finds, VoteInv, TaggedOK
    <2> HIDE DEF m
    <2> QED BY <2>1, <2>2 DEF TaggedOK
<1>5. TaggedOK'
    <2>1. 100 \in 1..100 /\ 40 \in 1..100 /\ 70 \in 1..100 /\ Scores \subseteq 1..100
        BY VoteAssumption
    <2>2. {"number", "health", "person"} = PiiTypes
          /\ {"Regex", "Keyword", "Gazetteer", "Semantic"} = Sources
        BY DEF PiiTypes, Sources
    <2>3. CASE UNCHANGED tagged
        BY <2>3 DEF VoteInv, TaggedOK
    <2>4. CASE \E s \in Spans : Finds(Found(s, "number", "Regex", 100))
        BY <2>1, <2>2, <2>4, <1>4
    <2>5. CASE \E s \in Spans : Finds(Found(s, "health", "Keyword", 100))
        BY <2>1, <2>2, <2>5, <1>4
    <2>6. CASE \E s \in Spans : \E c \in {40, 70} : Finds(Found(s, "person", "Gazetteer", c))
        <3>1. PICK s \in Spans, c \in {40, 70} : Finds(Found(s, "person", "Gazetteer", c))
            BY <2>6
        <3>2. c \in 1..100
            BY <2>1
        <3> QED BY <2>2, <3>1, <3>2, <1>4
    <2>7. CASE \E s \in Spans : \E t \in {"person", "health"}, c \in Scores :
                 Finds(Found(s, t, "Semantic", c))
        <3>1. PICK s \in Spans, t \in {"person", "health"}, c \in Scores :
                 Finds(Found(s, t, "Semantic", c))
            BY <2>7
        <3>2. c \in 1..100 /\ t \in PiiTypes
            BY <2>1, <2>2
        <3> QED BY <2>2, <3>1, <3>2, <1>4
    <2> QED BY <2>3, <2>4, <2>5, <2>6, <2>7 DEF RunEngine
<1> QED BY <1>2, <1>3, <1>5 DEF VoteInv, ResultsDisjoint, StrongIsAnswered

LEMMA VoteKeeps == ASSUME VoteInv, Vote PROVE VoteInv'
<1>1. TaggedOK /\ TaggedOK' /\ UNCHANGED tagged /\ engine' = "voted"
    BY DEF VoteInv, Vote, TaggedOK
<1>2. PICK winner :
        /\ \A c \in Clusters : winner[c] \in Winners(c)
        /\ results' = {m \in {winner[c] : c \in Clusters} : m.score >= MinConfidence}
    BY DEF Vote
<1>3. Apart
    BY <1>1, ClustersApart
<1>4. ASSUME NEW c \in Clusters
      PROVE  /\ c \subseteq Indices
             /\ \E j \in c : winner[c].span = tagged[j].span
             /\ \A i \in c : tagged[i].score <= winner[c].score
             /\ winner[c].score \in 1..100
    <2>1. c \in SUBSET Indices /\ winner[c] \in Winners(c)
        BY <1>2, <1>3 DEF Apart
    <2> QED BY <2>1, <1>1, WinnerIs
<1>5. ASSUME NEW m \in results', NEW n \in results', Overlap2(m, n) PROVE m = n
    <2>1. PICK c \in Clusters, d \in Clusters : m = winner[c] /\ n = winner[d]
        BY <1>2
    <2>2. PICK i \in c : m.span = tagged[i].span
        BY <2>1, <1>4
    <2>3. PICK j \in d : n.span = tagged[j].span
        BY <2>1, <1>4
    <2>4. Overlap2(tagged[i], tagged[j])
        BY <2>2, <2>3, <1>5 DEF Overlap2
    <2>5. c = d
        BY <2>4, <1>3 DEF Apart
    <2> QED BY <2>1, <2>5
<1>6. Clusters' = Clusters
    BY <1>1 DEF Clusters, Indices
<1>7. ASSUME NEW c \in Clusters, NEW i \in c, tagged[i].score >= MinConfidence
      PROVE  \E m \in results' : m.score >= tagged[i].score /\ \E j \in c : m.span = tagged[j].span
    <2> DEFINE m == winner[c]
    <2>1. tagged[i].score <= m.score /\ m.score \in 1..100 /\ \E j \in c : m.span = tagged[j].span
        BY <1>4
    <2>2. tagged[i].score \in 1..100 /\ MinConfidence \in 0..100
        <3>1. i \in 1..Len(tagged) /\ \A k \in 1..Len(tagged) : tagged[k] \in Match
            BY <1>1, <1>4, MeetsIs DEF TaggedOK
        <3>2. tagged[i] \in Match
            BY <3>1
        <3> QED BY <3>2, VoteAssumption DEF Match
    <2> HIDE DEF m
    <2>3. m.score >= MinConfidence /\ m.score >= tagged[i].score
        <3> DEFINE x == tagged[i].score
                   y == m.score
        <3>1. x \in 1..100 /\ y \in 1..100 /\ x <= y /\ x >= MinConfidence
            BY <2>1, <2>2, <1>7
        <3> HIDE DEF x, y
        <3>2. y >= MinConfidence /\ y >= x
            BY <3>1, <2>2
        <3> QED BY <3>2 DEF x, y
    <2>4. m \in results'
        BY <2>3, <1>2 DEF m
    <2> QED BY <2>1, <2>3, <2>4
<1>8. StrongIsAnswered'
    BY <1>1, <1>6, <1>7 DEF StrongIsAnswered
<1>9. ResultsDisjoint'
    BY <1>5 DEF ResultsDisjoint, Overlap2
<1> QED BY <1>1, <1>8, <1>9 DEF VoteInv

LEMMA VoteStepInv == VoteInv /\ [ScanNext]_scanVars => VoteInv'
<1> SUFFICES ASSUME VoteInv, [ScanNext]_scanVars PROVE VoteInv'
    OBVIOUS
<1>1. CASE UNCHANGED voteVars
    <2>1. UNCHANGED <<engine, tagged, results>>
        BY <1>1 DEF voteVars
    <2>2. Clusters' = Clusters
        BY <2>1 DEF Clusters, Indices
    <2> QED BY <2>1, <2>2 DEF VoteInv, TaggedOK, ResultsDisjoint, StrongIsAnswered, Overlap2
<1>2. CASE RunEngine
    BY <1>2, EngineKeeps
<1>3. CASE Vote
    BY <1>3, VoteKeeps
<1> QED BY <1>1, <1>2, <1>3 DEF ScanNext, ScanString, scanVars, voteVars

-----------------------------------------------------------------------------
(* The strings of a body, one of them nested.                              *)
BodyStrings == [nested : BOOLEAN, cells : Seq(Cells)]

(* A hit that is where its value is.                                       *)
TrueHits(s) == {<<1, p, s.cells[p]>> : p \in 1..Len(s.cells)}

LEMMA FirstPlaceIs ==
    ASSUME NEW s \in BodyStrings, NEW i \in 1..Len(s.cells)
    PROVE  LET p == FirstPlace(s, s.cells[i]) IN p \in 1..Len(s.cells) /\ s.cells[p] = s.cells[i]
<1> DEFINE N == Len(s.cells)
           S == {k \in DOMAIN s.cells : s.cells[k] = s.cells[i]}
<1>1. N \in Nat /\ DOMAIN s.cells = 1..N
    BY DEF BodyStrings
<1>2. S \in SUBSET (1..N) /\ S # {}
    BY <1>1
<1>3. \E x \in S : \A y \in S : x <= y
    <2> HIDE DEF S, N
    <2> QED BY <1>1, <1>2, LeastExists
<1>4. Min(S) \in S
    <2> HIDE DEF S
    <2> QED BY <1>3 DEF Min
<1>5. FirstPlace(s, s.cells[i]) = Min(S)
    BY DEF FirstPlace
<1> QED BY <1>1, <1>4, <1>5

(* f has, at each place of s, the k-th string, what the vector that was v  *)
(* holds when this far: hits of H.                                         *)
Adds(f, s, k, v, H) ==
    /\ f \in [0..Len(s.cells) -> Seq(H)]
    /\ \A n \in 1..Len(s.cells) :
         f[n] = IF s.cells[n] \in Values
                THEN AddUnlessTaken(f[n - 1], k, FirstPlace(s, s.cells[n]), s.cells[n])
                ELSE f[n - 1]
    /\ HitsIn(s, k, v) = f[Len(s.cells)]

(* Every value of s where it is, is a hit of H.                            *)
HitsOf(s, k, H) == \A p \in 1..Len(s.cells) : s.cells[p] \in Values => <<k, p, s.cells[p]>> \in H

(* What the scan of the raw string adds.                                   *)
RawHits(s, k, v) ==
    LET raw == Those([i \in 1..Len(s.cells) |-> i], {i \in DOMAIN s.cells : RawSees(s, i)})
    IN  v \o [i \in 1..Len(raw) |-> <<k, raw[i], s.cells[raw[i]]>>]

LEMMA RawHitsType ==
    ASSUME NEW s \in BodyStrings, NEW k, NEW H, NEW v \in Seq(H), HitsOf(s, k, H)
    PROVE  RawHits(s, k, v) \in Seq(H)
<1> DEFINE N      == Len(s.cells)
           places == [i \in 1..N |-> i]
           S      == {i \in DOMAIN s.cells : RawSees(s, i)}
           raw    == Those(places, S)
           t      == [i \in 1..Len(raw) |-> <<k, raw[i], s.cells[raw[i]]>>]
<1>1. N \in Nat /\ RawHits(s, k, v) = v \o t
    BY DEF BodyStrings, RawHits
<1>2. raw \in Seq((1..N) \cap S)
    <2>1. places \in Seq(1..N)
        BY <1>1
    <2> HIDE DEF N, places, S
    <2> QED BY <2>1, ThoseElements
<1> HIDE DEF raw
<1>3. Len(raw) \in Nat /\ \A i \in 1..Len(raw) : raw[i] \in 1..N /\ s.cells[raw[i]] \in Values
    <2>1. Len(raw) \in Nat /\ \A i \in 1..Len(raw) : raw[i] \in (1..N) \cap S
        BY <1>2, ElementsOf
    <2>2. \A i \in S : s.cells[i] \in Values
        BY DEF RawSees
    <2> QED BY <2>1, <2>2
<1>4. \A i \in 1..Len(raw) : <<k, raw[i], s.cells[raw[i]]>> \in H
    BY <1>3 DEF HitsOf
<1>5. t \in Seq(H)
    BY <1>3, <1>4
<1> HIDE DEF t
<1> QED BY <1>1, <1>5, ConcatElements

LEMMA AddKeeps ==
    ASSUME NEW s \in BodyStrings, NEW v \in Seq(TrueHits(s)), NEW n \in 1..Len(s.cells)
    PROVE  /\ AddUnlessTaken(v, 1, FirstPlace(s, s.cells[n]), s.cells[n]) \in Seq(TrueHits(s))
           /\ ToSet(v) \subseteq ToSet(AddUnlessTaken(v, 1, FirstPlace(s, s.cells[n]), s.cells[n]))
           /\ <<1, FirstPlace(s, s.cells[n]), s.cells[n]>>
                \in ToSet(AddUnlessTaken(v, 1, FirstPlace(s, s.cells[n]), s.cells[n]))
<1> DEFINE p == FirstPlace(s, s.cells[n])
           h == <<1, p, s.cells[n]>>
           w == AddUnlessTaken(v, 1, p, s.cells[n])
           H == TrueHits(s)
<1>1. p \in 1..Len(s.cells) /\ s.cells[p] = s.cells[n]
    BY FirstPlaceIs
<1>2. h \in H /\ \A x \in H : x[2] = p => x = h
    BY <1>1 DEF TrueHits
<1>3. w = IF \E x \in ToSet(v) : x[2] = p THEN v ELSE Append(v, h)
    BY DEF AddUnlessTaken
<1> HIDE DEF p, h, w, H
<1>4. ToSet(v) \subseteq H
    BY ToSetElements DEF H
<1>5. CASE \E x \in ToSet(v) : x[2] = p
    <2>1. h \in ToSet(v) /\ w = v
        BY <1>2, <1>3, <1>4, <1>5
    <2> QED BY <2>1 DEF h, p, w, H
<1>6. CASE ~\E x \in ToSet(v) : x[2] = p
    <2>1. w = Append(v, h) /\ v \in Seq(H)
        BY <1>3, <1>6 DEF H
    <2>2. ToSet(w) = ToSet(v) \cup {h} /\ w \in Seq(H)
        BY <2>1, <1>2, ToSetAppend
    <2> QED BY <2>2 DEF h, p, w, H
<1> QED BY <1>5, <1>6

LEMMA AddsExist ==
    ASSUME NEW s \in BodyStrings, s.nested, NEW k, NEW H, NEW v \in Seq(H), HitsOf(s, k, H)
    PROVE  \E f : Adds(f, s, k, v, H)
<1> DEFINE N    == Len(s.cells)
           seen == RawHits(s, k, v)
           Step(n, w) == IF s.cells[n] \in Values
                         THEN AddUnlessTaken(w, k, FirstPlace(s, s.cells[n]), s.cells[n])
                         ELSE w
           step == [p \in (0 + 1..N) \X Seq(H) |-> Step(p[1], p[2])]
           F(f) == [n \in 0..N |-> IF n = 0 THEN seen ELSE Step(n, f[n - 1])]
           f    == CHOOSE g : g = F(g)
<1>0. HitsIn(s, k, v) = f[N]
    BY DEF HitsIn, RawHits
<1>1. N \in Nat /\ N \in Int /\ 0 \in Int /\ 0 <= N /\ DOMAIN s.cells = 1..N
    BY DEF BodyStrings
<1>2. seen \in Seq(H)
    BY RawHitsType
<1>3. ASSUME NEW n \in 1..N, NEW w \in Seq(H) PROVE Step(n, w) \in Seq(H)
    <2> DEFINE p == FirstPlace(s, s.cells[n])
               h == <<k, p, s.cells[n]>>
    <2>1. s.cells[n] \in Values => h \in H
        BY FirstPlaceIs DEF HitsOf
    <2>2. AddUnlessTaken(w, k, p, s.cells[n]) \in {w, Append(w, h)}
        BY DEF AddUnlessTaken
    <2> HIDE DEF h, p
    <2>3. h \in H => Append(w, h) \in Seq(H)
        OBVIOUS
    <2> QED BY <2>1, <2>2, <2>3 DEF p
<1> HIDE DEF seen, Step
<1>4. step \in [(0 + 1..N) \X Seq(H) -> Seq(H)]
    <2> HIDE DEF N
    <2>1. 0 + 1..N = 1..N
        BY <1>1
    <2> QED BY <2>1, <1>3
<1>5. PICK g \in [0..N -> Seq(H)] : Recursion(g, 0, N, seen, step)
    <2> HIDE DEF N, step, F, f
    <2> QED BY <1>1, <1>2, <1>4, RecursionExists
<1>6. g[0] = seen
    BY <1>5 DEF Recursion
<1>7. ASSUME NEW n \in 1..N PROVE g[n] = Step(n, g[n - 1])
    <2>1. n \in 0 + 1..N /\ n - 1 \in 0..N
        BY <1>1
    <2>2. <<n, g[n - 1]>> \in (0 + 1..N) \X Seq(H) /\ g[n] = step[<<n, g[n - 1]>>]
        <3> HIDE DEF step, N
        <3> QED BY <2>1, <1>5 DEF Recursion
    <2> HIDE DEF N
    <2>3. step[<<n, g[n - 1]>>] = Step(n, g[n - 1])
        BY <2>2
    <2> HIDE DEF step
    <2> QED BY <2>2, <2>3
<1>8. g = F(g)
    <2> HIDE DEF step, N
    <2>1. \A n \in 0..N : g[n] = F(g)[n]
        <3> SUFFICES ASSUME NEW n \in 0..N PROVE g[n] = F(g)[n]
            OBVIOUS
        <3>1. CASE n = 0
            BY <1>6, <3>1
        <3>2. CASE n # 0
            <4>1. n \in 1..N
                BY <1>1, <3>2
            <4> QED BY <1>7, <3>2, <4>1
        <3> HIDE DEF F
        <3> QED BY <3>1, <3>2
    <2> QED BY <1>5, <2>1
<1>9. f = F(f)
    <2> HIDE DEF F
    <2> QED BY <1>8
<1> HIDE DEF f
<1>10. f[0] = seen
    <2> HIDE DEF N
    <2> QED BY <1>1, <1>9
<1>11. ASSUME NEW n \in 1..N PROVE f[n] = Step(n, f[n - 1])
    <2>1. n \in 0..N /\ n # 0
        BY <1>1
    <2> HIDE DEF N
    <2> QED BY <1>9, <2>1
<1>12. \A n \in 0..N : f[n] \in Seq(H)
    <2> DEFINE T == {n \in 0..N : f[n] \in Seq(H)}
    <2>1. 0 \in T
        <3> HIDE DEF N
        <3> QED BY <1>1, <1>2, <1>10
    <2>2. ASSUME NEW n \in 0..N - 1, n \in T PROVE n + 1 \in T
        <3>1. n + 1 \in 1..N /\ n + 1 \in 0..N /\ (n + 1) - 1 = n /\ f[n] \in Seq(H)
            BY <2>2, <1>1
        <3> HIDE DEF N
        <3>2. f[n + 1] = Step(n + 1, f[n])
            BY <3>1, <1>11
        <3> QED BY <3>1, <3>2, <1>3
    <2>3. 0..N \subseteq T
        <3> HIDE DEF T, N
        <3> QED BY <1>1, <2>1, <2>2, IntervalInduction
    <2> QED BY <2>3
<1>13. f \in [0..N -> Seq(H)]
    <2>1. f = [n \in 0..N |-> f[n]]
        <3> HIDE DEF N
        <3> QED BY <1>9
    <2> HIDE DEF N
    <2> QED BY <2>1, <1>12
<1>14. Adds(f, s, k, v, H)
    BY <1>0, <1>11, <1>13 DEF Adds, Step
<1> QED BY <1>14

(* A value that a nested string holds once is among its hits, at its place.*)
LEMMA LoneIsHit ==
    ASSUME NEW s \in BodyStrings, s.nested, NEW i \in 1..Len(s.cells), s.cells[i] \in Values,
           \A j \in 1..Len(s.cells) : s.cells[j] = s.cells[i] => j = i
    PROVE  <<1, i, s.cells[i]>> \in ToSet(HitsIn(s, 1, <<>>))
<1> DEFINE N == Len(s.cells)
           H == TrueHits(s)
           h == <<1, i, s.cells[i]>>
<1>0. N \in Nat /\ N \in Int /\ i \in Int
    BY DEF BodyStrings
<1>1. PICK f : Adds(f, s, 1, <<>>, H)
    <2>1. HitsOf(s, 1, H) /\ <<>> \in Seq(H)
        BY DEF HitsOf, TrueHits
    <2> HIDE DEF H
    <2> QED BY <2>1, AddsExist
<1>2. FirstPlace(s, s.cells[i]) = i
    BY FirstPlaceIs
<1> DEFINE T == {n \in i..N : h \in ToSet(f[n])}
<1>3. i \in T
    <2>1. i - 1 \in 0..N /\ i \in i..N
        BY <1>0
    <2>2. f[i - 1] \in Seq(H) /\ f[i] = AddUnlessTaken(f[i - 1], 1, FirstPlace(s, s.cells[i]), s.cells[i])
        BY <1>1, <2>1 DEF Adds
    <2>3. h \in ToSet(f[i])
        BY <2>2, <1>2, AddKeeps
    <2> QED BY <2>1, <2>3
<1>4. ASSUME NEW n \in i..N - 1, n \in T PROVE n + 1 \in T
    <2>1. n + 1 \in 1..N /\ n + 1 \in i..N /\ (n + 1) - 1 = n /\ n \in 0..N
        BY <1>0
    <2>2. f[n] \in Seq(H) /\ f[n + 1] = IF s.cells[n + 1] \in Values
                THEN AddUnlessTaken(f[n], 1, FirstPlace(s, s.cells[n + 1]), s.cells[n + 1])
                ELSE f[n]
        BY <1>1, <2>1 DEF Adds
    <2>3. ToSet(f[n]) \subseteq ToSet(f[n + 1])
        BY <2>1, <2>2, AddKeeps
    <2> QED BY <2>1, <2>3, <1>4
<1>5. i..N \subseteq T
    <2> HIDE DEF T, N
    <2> QED BY <1>0, <1>3, <1>4, IntervalInduction
<1>6. h \in ToSet(f[N])
    <2>1. N \in i..N
        BY <1>0
    <2> QED BY <2>1, <1>5
<1> QED BY <1>1, <1>6 DEF Adds

(* An entry of one string has not been scanned, or has its hits.           *)
NestedInv ==
    /\ jsonBody \in Seq(Seq(BodyStrings))
    /\ DOMAIN at = DOMAIN jsonBody /\ DOMAIN hits = DOMAIN jsonBody
    /\ \A e \in DOMAIN jsonBody :
         \/ at[e] = 1 /\ hits[e] = <<>>
         \/ /\ at[e] \in Nat /\ at[e] > 1
            /\ Len(jsonBody[e]) = 1 => hits[e] = HitsIn(jsonBody[e][1], 1, <<>>)

LEMMA NestedInitInv == ScanInit => NestedInv
<1> SUFFICES ASSUME ScanInit PROVE NestedInv
    OBVIOUS
<1>1. jsonBody \in Seq(Seq(BodyStrings))
    BY BodyAssumption DEF ScanInit, BodyStrings
<1> QED BY <1>1 DEF ScanInit, NestedInv

LEMMA NestedStepInv == NestedInv /\ [ScanNext]_scanVars => NestedInv'
<1> SUFFICES ASSUME NestedInv, [ScanNext]_scanVars PROVE NestedInv'
    OBVIOUS
<1>1. CASE UNCHANGED walkVars
    BY <1>1 DEF walkVars, NestedInv
<1>2. ASSUME NEW e \in DOMAIN jsonBody, ScanString(e) PROVE NestedInv'
    <2>1. /\ at[e] <= Len(jsonBody[e]) /\ UNCHANGED jsonBody
          /\ at' = [at EXCEPT ![e] = at[e] + 1]
          /\ hits' = [hits EXCEPT ![e] = HitsIn(jsonBody[e][at[e]], at[e], hits[e])]
        BY <1>2 DEF ScanString
    <2>2. at[e] \in Nat /\ at[e] >= 1 /\ Len(jsonBody[e]) \in Nat
        BY DEF NestedInv
    <2>3. Len(jsonBody[e]) = 1 => at[e] = 1 /\ hits[e] = <<>>
        BY <2>1, <2>2 DEF NestedInv
    <2>4. ASSUME NEW d \in DOMAIN jsonBody
          PROVE  \/ at'[d] = 1 /\ hits'[d] = <<>>
                 \/ /\ at'[d] \in Nat /\ at'[d] > 1
                    /\ Len(jsonBody[d]) = 1 => hits'[d] = HitsIn(jsonBody[d][1], 1, <<>>)
        <3>1. CASE d = e
            <4>1. at'[d] = at[e] + 1 /\ hits'[d] = HitsIn(jsonBody[e][at[e]], at[e], hits[e])
                BY <2>1, <3>1 DEF NestedInv
            <4>2. at'[d] \in Nat /\ at'[d] > 1
                BY <4>1, <2>2
            <4> QED BY <3>1, <4>1, <4>2, <2>3
        <3>2. CASE d # e
            <4>1. at'[d] = at[d] /\ hits'[d] = hits[d]
                BY <2>1, <3>2 DEF NestedInv
            <4> QED BY <4>1 DEF NestedInv
        <3> QED BY <3>1, <3>2
    <2>5. DOMAIN at' = DOMAIN jsonBody /\ DOMAIN hits' = DOMAIN jsonBody
        BY <2>1 DEF NestedInv
    <2> QED BY <2>1, <2>4, <2>5 DEF NestedInv
<1> QED BY <1>1, <1>2 DEF ScanNext, RunEngine, Vote, scanVars, walkVars

LEMMA OnlyElement ==
    ASSUME NEW S, NEW q \in Seq(S), Len(q) = 1
    PROVE  q[1] \in S
OBVIOUS

LEMMA NestedIsFound == NestedInv => LoneNestedIsFound
<1> SUFFICES ASSUME NestedInv, NEW e \in DOMAIN jsonBody, Scanned(e), Len(jsonBody[e]) = 1,
                    jsonBody[e][1].nested, NEW i \in DOMAIN jsonBody[e][1].cells,
                    jsonBody[e][1].cells[i] \in Values,
                    \A j \in DOMAIN jsonBody[e][1].cells :
                        jsonBody[e][1].cells[j] = jsonBody[e][1].cells[i] => j = i
             PROVE  FoundAt(e, 1, i)
    BY DEF LoneNestedIsFound
<1> DEFINE s == jsonBody[e][1]
<1>1. s \in BodyStrings
    <2>1. jsonBody[e] \in Seq(BodyStrings)
        BY DEF NestedInv
    <2> QED BY <2>1, OnlyElement
<1>2. hits[e] = HitsIn(s, 1, <<>>)
    <2>1. at[e] # 1
        BY DEF Scanned
    <2> QED BY <2>1 DEF NestedInv
<1>3. s.nested /\ i \in DOMAIN s.cells /\ s.cells[i] \in Values
      /\ \A j \in DOMAIN s.cells : s.cells[j] = s.cells[i] => j = i
    OBVIOUS
<1> HIDE DEF s
<1>4. DOMAIN s.cells = 1..Len(s.cells)
    BY <1>1 DEF BodyStrings
<1>5. <<1, i, s.cells[i]>> \in ToSet(HitsIn(s, 1, <<>>))
    BY <1>1, <1>3, <1>4, LoneIsHit
<1> QED BY <1>2, <1>5 DEF FoundAt, s

(* Masked spans are disjoint and strong findings are answered (scan_text), *)
(* values in nested JSON are found in their place (scan_json_inner).       *)
THEOREM VotesAndNestedJsonHold ==
    ScanSpec => [](ResultsDisjoint /\ StrongIsAnswered /\ LoneNestedIsFound)
<1>1. ScanInit => VoteInv /\ NestedInv
    BY VoteInitInv, NestedInitInv
<1>2. (VoteInv /\ NestedInv) /\ [ScanNext]_scanVars => (VoteInv /\ NestedInv)'
    BY VoteStepInv, NestedStepInv
<1>3. VoteInv /\ NestedInv => ResultsDisjoint /\ StrongIsAnswered /\ LoneNestedIsFound
    BY NestedIsFound DEF VoteInv
<1> QED BY <1>1, <1>2, <1>3, PTL DEF ScanSpec

(* What is to be scanned reaches the engines, and what they find is        *)
(* answered: FindingsAreAnswered, for every text, body and set of spans    *)
(* (mask_code_fences, scan_text_with_timing, scan_json_inner).             *)
THEOREM FindingsHold == FenceSpec /\ ScanSpec => []FindingsAreAnswered
<1>1. ProseStaysVisible /\ (ResultsDisjoint /\ StrongIsAnswered /\ LoneNestedIsFound)
        => FindingsAreAnswered
    BY DEF FindingsAreAnswered
<1> QED BY <1>1, ProseIsScanned, VotesAndNestedJsonHold, PTL

-----------------------------------------------------------------------------
(* The format of a token.                                                  *)

(* A separator put where it belongs.                                       *)
PutAt(u, p) == IF p[1] - 1 <= Len(u) THEN InsertAt(u, p[1], p[2]) ELSE u
Separated(X) == (Nat \ {0}) \X X

(* What a separator put in does, and that it leaves what is behind it.     *)
LEMMA PutAtIs ==
    ASSUME NEW X, NEW u \in Seq(X), NEW p \in Separated(X)
    PROVE  /\ PutAt(u, p) \in Seq(X)
           /\ p[1] = Len(u) + 1 => PutAt(u, p) = Append(u, p[2])
           /\ p[1] <= Len(u) + 1 =>
                /\ Len(PutAt(u, p)) = Len(u) + 1
                /\ \A y \in X : PutAt(Append(u, y), p) = Append(PutAt(u, p), y)
<1>1. p[1] \in Nat /\ p[1] >= 1 /\ p[2] \in X /\ Len(u) \in Nat
    BY DEF Separated
<1> DEFINE i == p[1]
           e == p[2]
<1>2. PutAt(u, p) = IF i - 1 <= Len(u) THEN InsertAt(u, i, e) ELSE u
    BY DEF PutAt
<1>3. \A y \in X : PutAt(Append(u, y), p) = IF i - 1 <= Len(u) + 1 THEN InsertAt(Append(u, y), i, e) ELSE Append(u, y)
    BY DEF PutAt
<1> HIDE DEF i, e
<1>4. i \in Nat /\ i >= 1 /\ e \in X
    BY <1>1 DEF i, e
<1>5. CASE i <= Len(u) + 1
    <2> DEFINE a == SubSeq(u, 1, i - 1)
               b == SubSeq(u, i, Len(u))
    <2>1. a \in Seq(X) /\ Len(a) = i - 1 /\ \A k \in 1..i - 1 : a[k] = u[k]
        BY <1>1, <1>4, <1>5
    <2>2. b \in Seq(X) /\ Len(b) = Len(u) + 1 - i /\ \A k \in 1..Len(u) + 1 - i : b[k] = u[i + k - 1]
        BY <1>1, <1>4, <1>5
    <2>3. PutAt(u, p) = a \o <<e>> \o b
        <3>1. i - 1 <= Len(u)
            BY <1>1, <1>4, <1>5
        <3>2. InsertAt(u, i, e) = a \o <<e>> \o b
            BY DEF InsertAt
        <3> QED BY <1>2, <3>1, <3>2
    <2> HIDE DEF a, b
    <2>4. <<e>> \in Seq(X) /\ Len(<<e>>) = 1 /\ <<e>>[1] = e
        BY <1>4
    <2>5. a \o <<e>> \in Seq(X) /\ Len(a \o <<e>>) = i
        BY <2>1, <2>4, <1>4
    <2>6. PutAt(u, p) \in Seq(X) /\ Len(PutAt(u, p)) = Len(u) + 1
        <3> DEFINE q == a \o <<e>>
        <3>1. q \in Seq(X) /\ Len(q) = i /\ PutAt(u, p) = q \o b
            BY <2>3, <2>5
        <3> HIDE DEF q
        <3>2. q \o b \in Seq(X) /\ Len(q \o b) = Len(q) + Len(b)
            BY <2>2, <3>1, ConcatElements
        <3> QED BY <2>2, <3>1, <3>2, <1>1, <1>4
    <2>7. ASSUME i = Len(u) + 1 PROVE PutAt(u, p) = Append(u, e)
        <3>1. b = <<>>
            BY <2>2, <2>7, <1>1
        <3>2. a = u
            <4>1. Len(a) = Len(u) /\ \A k \in 1..Len(a) : a[k] = u[k]
                BY <2>1, <2>7, <1>1
            <4> QED BY <4>1, <2>1, SameSequence
        <3>3. a \o <<e>> = Append(u, e)
            BY <3>2, <1>4
        <3>4. (a \o <<e>>) \o b = a \o <<e>>
            BY <2>5, <3>1
        <3> QED BY <2>3, <3>3, <3>4
    <2>8. ASSUME NEW y \in X PROVE PutAt(Append(u, y), p) = Append(PutAt(u, p), y)
        <3> DEFINE v == Append(u, y)
        <3>1. v \in Seq(X) /\ Len(v) = Len(u) + 1 /\ v[Len(u) + 1] = y /\ \A k \in 1..Len(u) : v[k] = u[k]
            BY <1>1
        <3>2. PutAt(v, p) = InsertAt(v, i, e)
            BY <1>3, <1>1, <1>4, <1>5
        <3> HIDE DEF v
        <3> DEFINE c == SubSeq(v, 1, i - 1)
                   d == SubSeq(v, i, Len(v))
        <3>3. c \in Seq(X) /\ Len(c) = i - 1 /\ \A k \in 1..i - 1 : c[k] = v[k]
            BY <1>1, <1>4, <1>5, <3>1
        <3>4. d \in Seq(X) /\ Len(d) = Len(u) + 2 - i /\ \A k \in 1..Len(u) + 2 - i : d[k] = v[i + k - 1]
            BY <1>1, <1>4, <1>5, <3>1
        <3>5. PutAt(v, p) = c \o <<e>> \o d
            BY <3>2 DEF InsertAt
        <3> HIDE DEF c, d
        <3>6. c = a
            <4>1. Len(c) = Len(a) /\ \A k \in 1..Len(c) : c[k] = a[k]
                BY <2>1, <3>1, <3>3, <1>1, <1>4, <1>5
            <4> QED BY <4>1, <2>1, <3>3, SameSequence
        <3>7. d = Append(b, y)
            <4>1. Append(b, y) \in Seq(X) /\ Len(Append(b, y)) = Len(u) + 2 - i
                BY <2>2, <1>1, <1>4
            <4>2. ASSUME NEW k \in 1..Len(u) + 2 - i PROVE d[k] = Append(b, y)[k]
                <5>1. CASE k = Len(u) + 2 - i
                    <6>1. k = Len(b) + 1 /\ i + k - 1 = Len(u) + 1
                        BY <5>1, <2>2, <1>1, <1>4
                    <6>2. Append(b, y)[Len(b) + 1] = y
                        BY <2>2
                    <6> QED BY <6>1, <6>2, <3>1, <3>4
                <5>2. CASE k # Len(u) + 2 - i
                    <6>1. k \in 1..Len(b) /\ k \in 1..Len(u) + 1 - i /\ i + k - 1 \in 1..Len(u)
                        <7> DEFINE l == Len(u)
                        <7>1. l \in Nat /\ i <= l + 1 /\ k \in 1..l + 2 - i /\ k # l + 2 - i /\ Len(b) = l + 1 - i
                            BY <5>2, <2>2, <1>1, <1>5
                        <7> HIDE DEF l
                        <7>2. k \in 1..l + 1 - i /\ i + k - 1 \in 1..l
                            BY <7>1, <1>4
                        <7> QED BY <7>1, <7>2 DEF l
                    <6>2. Append(b, y)[k] = b[k]
                        BY <6>1, <2>2
                    <6> QED BY <6>1, <6>2, <3>1, <3>4, <2>2
                <5> QED BY <5>1, <5>2
            <4> QED BY <4>1, <4>2, <3>4, SameSequence
        <3>8. (a \o <<e>>) \o Append(b, y) = Append((a \o <<e>>) \o b, y)
            <4> DEFINE q == a \o <<e>>
            <4>1. q \in Seq(X)
                BY <2>5
            <4> HIDE DEF q
            <4> QED BY <4>1, <2>2
        <3> QED BY <3>5, <3>6, <3>7, <3>8, <2>3 DEF v
    <2> QED BY <2>6, <2>7, <2>8 DEF i, e
<1>6. CASE ~(i <= Len(u) + 1)
    <2>1. PutAt(u, p) = u /\ ~(i = Len(u) + 1)
        BY <1>1, <1>2, <1>4, <1>6
    <2> QED BY <2>1, <1>6 DEF i
<1> QED BY <1>5, <1>6

(* f has, at each number, the sequence with that many separators put in.   *)
Puts(f, b, seps, X) ==
    /\ f \in [0..Len(seps) -> Seq(X)]
    /\ f[0] = b
    /\ \A n \in 1..Len(seps) : f[n] = PutAt(f[n - 1], seps[n])
    /\ ApplyTemplate(b, seps) = f[Len(seps)]

(* Such a function exists, and ends in what ApplyTemplate gives.           *)
LEMMA PutsExist ==
    ASSUME NEW X, NEW b \in Seq(X), NEW seps \in Seq(Separated(X))
    PROVE  \E f : Puts(f, b, seps, X)
<1> DEFINE N    == Len(seps)
           step == [p \in (0 + 1..N) \X Seq(X) |-> PutAt(p[2], seps[p[1]])]
           F(f) == [n \in 0..N |-> IF n = 0 THEN b
                                   ELSE IF seps[n][1] - 1 <= Len(f[n - 1])
                                        THEN InsertAt(f[n - 1], seps[n][1], seps[n][2])
                                        ELSE f[n - 1]]
           f    == CHOOSE g : g = F(g)
<1>0. ApplyTemplate(b, seps) = f[N]
    BY DEF ApplyTemplate
<1>1. N \in Nat /\ N \in Int /\ 0 \in Int /\ 0 <= N
    OBVIOUS
<1>2. ASSUME NEW n \in 1..N, NEW u \in Seq(X) PROVE PutAt(u, seps[n]) \in Seq(X)
    <2>1. seps[n] \in Separated(X)
        OBVIOUS
    <2> QED BY <2>1, PutAtIs
<1>3. step \in [(0 + 1..N) \X Seq(X) -> Seq(X)]
    <2> HIDE DEF N
    <2>1. 0 + 1..N = 1..N
        BY <1>1
    <2> QED BY <2>1, <1>2
<1>4. PICK g \in [0..N -> Seq(X)] : Recursion(g, 0, N, b, step)
    <2> HIDE DEF N, step, F, f
    <2> QED BY <1>1, <1>3, RecursionExists
<1>5. g[0] = b
    BY <1>4 DEF Recursion
<1>6. ASSUME NEW n \in 1..N PROVE g[n] = PutAt(g[n - 1], seps[n])
    <2>1. n \in 0 + 1..N /\ n - 1 \in 0..N
        BY <1>1
    <2>2. <<n, g[n - 1]>> \in (0 + 1..N) \X Seq(X) /\ g[n] = step[<<n, g[n - 1]>>]
        <3> HIDE DEF step, N
        <3> QED BY <2>1, <1>4 DEF Recursion
    <2> HIDE DEF N
    <2>3. step[<<n, g[n - 1]>>] = PutAt(g[n - 1], seps[n])
        BY <2>2
    <2> HIDE DEF step
    <2> QED BY <2>2, <2>3
<1>7. g = F(g)
    <2> HIDE DEF step, N
    <2>1. \A n \in 0..N : g[n] = F(g)[n]
        <3> SUFFICES ASSUME NEW n \in 0..N PROVE g[n] = F(g)[n]
            OBVIOUS
        <3>1. CASE n = 0
            BY <1>5, <3>1
        <3>2. CASE n # 0
            <4>1. n \in 1..N
                BY <1>1, <3>2
            <4> QED BY <1>6, <3>2, <4>1 DEF PutAt
        <3> HIDE DEF F
        <3> QED BY <3>1, <3>2
    <2> QED BY <1>4, <2>1
<1>8. f = F(f)
    <2> HIDE DEF F
    <2> QED BY <1>7
<1> HIDE DEF f
<1>9. f[0] = b
    <2> HIDE DEF N
    <2> QED BY <1>1, <1>8
<1>10. ASSUME NEW n \in 1..N PROVE f[n] = PutAt(f[n - 1], seps[n])
    <2>1. n \in 0..N /\ n # 0
        BY <1>1
    <2> HIDE DEF N
    <2> QED BY <1>8, <2>1 DEF PutAt
<1>11. \A n \in 0..N : f[n] \in Seq(X)
    <2> DEFINE T == {n \in 0..N : f[n] \in Seq(X)}
    <2>1. 0 \in T
        <3> HIDE DEF N
        <3> QED BY <1>1, <1>9
    <2>2. ASSUME NEW n \in 0..N - 1, n \in T PROVE n + 1 \in T
        <3>1. n + 1 \in 1..N /\ n + 1 \in 0..N /\ (n + 1) - 1 = n /\ f[n] \in Seq(X)
            BY <2>2, <1>1
        <3> HIDE DEF N
        <3> QED BY <3>1, <1>2, <1>10
    <2>3. 0..N \subseteq T
        <3> HIDE DEF T, N
        <3> QED BY <1>1, <2>1, <2>2, IntervalInduction
    <2> QED BY <2>3
<1>12. f \in [0..N -> Seq(X)]
    <2>1. f = [n \in 0..N |-> f[n]]
        <3> HIDE DEF N
        <3> QED BY <1>8
    <2> HIDE DEF N
    <2> QED BY <2>1, <1>11
<1>13. Puts(f, b, seps, X)
    BY <1>0, <1>9, <1>10, <1>12 DEF Puts
<1> QED BY <1>13

(* Without separators a string stays as it is.                             *)
LEMMA ApplyNone ==
    ASSUME NEW X, NEW b \in Seq(X)
    PROVE  ApplyTemplate(b, <<>>) = b
<1>1. <<>> \in Seq(Separated(X)) /\ Len(<<>>) = 0
    OBVIOUS
<1>2. PICK f : Puts(f, b, <<>>, X)
    BY <1>1, PutsExist
<1> QED BY <1>1, <1>2 DEF Puts

(* One more separator is put into what the others have made.               *)
LEMMA ApplyLast ==
    ASSUME NEW X, NEW b \in Seq(X), NEW seps \in Seq(Separated(X)), NEW p \in Separated(X)
    PROVE  ApplyTemplate(b, Append(seps, p)) = PutAt(ApplyTemplate(b, seps), p)
<1> DEFINE N == Len(seps)
           ext == Append(seps, p)
<1>1. N \in Nat /\ N \in Int /\ 0 \in Int /\ 0 <= N
    OBVIOUS
<1>2. ext \in Seq(Separated(X)) /\ Len(ext) = N + 1 /\ ext[N + 1] = p /\ \A n \in 1..N : ext[n] = seps[n]
    OBVIOUS
<1> HIDE DEF ext
<1>3. PICK f : Puts(f, b, seps, X)
    BY PutsExist
<1>4. PICK g : Puts(g, b, ext, X)
    BY <1>2, PutsExist
<1> DEFINE T == {n \in 0..N : g[n] = f[n]}
<1>5. 0 \in T
    BY <1>1, <1>3, <1>4 DEF Puts
<1>6. ASSUME NEW n \in 0..N - 1, n \in T PROVE n + 1 \in T
    <2>1. n + 1 \in 1..N /\ n + 1 \in 0..N /\ (n + 1) - 1 = n /\ n + 1 \in 1..N + 1
        BY <1>1
    <2>2. f[n + 1] = PutAt(f[n], seps[n + 1])
        BY <2>1, <1>3 DEF Puts
    <2>3. g[n + 1] = PutAt(g[n], ext[n + 1])
        BY <2>1, <1>2, <1>4 DEF Puts
    <2> QED BY <2>1, <2>2, <2>3, <1>2, <1>6
<1>7. 0..N \subseteq T
    <2> HIDE DEF T, N
    <2> QED BY <1>1, <1>5, <1>6, IntervalInduction
<1>8. N \in 0..N /\ N + 1 \in 1..N + 1 /\ (N + 1) - 1 = N
    BY <1>1
<1>9. g[N] = f[N]
    BY <1>7, <1>8
<1>10. g[N + 1] = PutAt(g[N], p)
    BY <1>2, <1>4, <1>8 DEF Puts
<1>11. ApplyTemplate(b, ext) = g[N + 1] /\ ApplyTemplate(b, seps) = f[N]
    BY <1>2, <1>3, <1>4 DEF Puts
<1> QED BY <1>9, <1>10, <1>11 DEF ext

(* Separators that all fit where they belong.                              *)
Fit(b, seps) == \A n \in 1..Len(seps) : seps[n][1] <= Len(b) + n

(* What is behind all separators stays behind them.                        *)
LEMMA ApplyMore ==
    ASSUME NEW X, NEW b \in Seq(X), NEW seps \in Seq(Separated(X)), Fit(b, seps), NEW y \in X
    PROVE  /\ ApplyTemplate(Append(b, y), seps) = Append(ApplyTemplate(b, seps), y)
           /\ ApplyTemplate(b, seps) \in Seq(X)
           /\ Len(ApplyTemplate(b, seps)) = Len(b) + Len(seps)
<1> DEFINE N == Len(seps)
           c == Append(b, y)
<1>1. N \in Nat /\ N \in Int /\ 0 \in Int /\ 0 <= N /\ Len(b) \in Nat
    OBVIOUS
<1>2. c \in Seq(X)
    OBVIOUS
<1>3. PICK f : Puts(f, b, seps, X)
    BY PutsExist
<1>4. PICK g : Puts(g, c, seps, X)
    BY <1>2, PutsExist
<1> DEFINE T == {n \in 0..N : g[n] = Append(f[n], y) /\ Len(f[n]) = Len(b) + n}
<1>5. 0 \in T
    BY <1>1, <1>3, <1>4 DEF Puts
<1>6. ASSUME NEW n \in 0..N - 1, n \in T PROVE n + 1 \in T
    <2>1. n + 1 \in 1..N /\ n + 1 \in 0..N /\ (n + 1) - 1 = n /\ n \in 0..N
        BY <1>1
    <2>2. f[n + 1] = PutAt(f[n], seps[n + 1]) /\ f[n] \in Seq(X)
        BY <2>1, <1>3 DEF Puts
    <2>3. g[n + 1] = PutAt(g[n], seps[n + 1])
        BY <2>1, <1>4 DEF Puts
    <2>4. seps[n + 1] \in Separated(X) /\ seps[n + 1][1] <= Len(b) + (n + 1)
        BY <2>1 DEF Fit
    <2>5. g[n] = Append(f[n], y) /\ Len(f[n]) = Len(b) + n
        BY <1>6
    <2> HIDE DEF N, c
    <2>6. seps[n + 1][1] <= Len(f[n]) + 1
        <3> DEFINE q == seps[n + 1][1]
        <3>1. q <= Len(b) + (n + 1) /\ q \in Nat
            BY <2>4 DEF Separated
        <3> HIDE DEF q
        <3>2. q <= Len(f[n]) + 1
            BY <3>1, <2>1, <2>5, <1>1
        <3> QED BY <3>2 DEF q
    <2>7. Len(f[n + 1]) = Len(f[n]) + 1 /\ g[n + 1] = Append(f[n + 1], y)
        <3> DEFINE u == f[n]
                   q == seps[n + 1]
        <3>1. u \in Seq(X) /\ q \in Separated(X) /\ q[1] <= Len(u) + 1
            BY <2>2, <2>4, <2>6
        <3>2. f[n + 1] = PutAt(u, q) /\ g[n + 1] = PutAt(Append(u, y), q)
            BY <2>2, <2>3, <2>5
        <3> HIDE DEF u, q
        <3>3. Len(PutAt(u, q)) = Len(u) + 1 /\ PutAt(Append(u, y), q) = Append(PutAt(u, q), y)
            BY <3>1, PutAtIs
        <3> QED BY <3>2, <3>3 DEF u
    <2>8. Len(f[n + 1]) = Len(b) + (n + 1)
        BY <2>5, <2>7, <2>1, <1>1
    <2> QED BY <2>1, <2>7, <2>8
<1>7. 0..N \subseteq T
    <2> HIDE DEF T, N
    <2> QED BY <1>1, <1>5, <1>6, IntervalInduction
<1>8. N \in 0..N
    BY <1>1
<1>9. g[N] = Append(f[N], y) /\ Len(f[N]) = Len(b) + N /\ f[N] \in Seq(X)
    BY <1>3, <1>7, <1>8 DEF Puts
<1>10. ApplyTemplate(c, seps) = g[N] /\ ApplyTemplate(b, seps) = f[N]
    BY <1>3, <1>4 DEF Puts
<1> QED BY <1>9, <1>10

(* The letters of an alphabet, and a string with its places.               *)
AlphabetOf(k) == ToSet(Alphabet[k])
Numbered(s)   == [i \in 1..Len(s) |-> <<i, s[i]>>]

(* The separators are selected of the numbered characters.                 *)
LEMMA SeparatorsAre ==
    ASSUME NEW X, NEW s \in Seq(X), NEW k
    PROVE  /\ Numbered(s) \in Seq(Separated(X))
           /\ Separators(s, k) = Those(Numbered(s), (Nat \ {0}) \X (X \ AlphabetOf(k)))
           /\ Separators(s, k) \in Seq(Separated(X))
<1> DEFINE t == Numbered(s)
           A == AlphabetOf(k)
           S == {<<i, s[i]>> : i \in {j \in 1..Len(s) : s[j] \notin A}}
           P == (Nat \ {0}) \X (X \ A)
<1>1. Len(s) \in Nat /\ \A i \in 1..Len(s) : s[i] \in X
    OBVIOUS
<1>2. \A i \in 1..Len(s) : <<i, s[i]>> \in Separated(X)
    BY <1>1 DEF Separated
<1>3. t \in Seq(Separated(X)) /\ Len(t) = Len(s) /\ \A i \in 1..Len(s) : t[i] = <<i, s[i]>>
    BY <1>1, <1>2 DEF Numbered
<1>4. Separators(s, k) = Those(t, S)
    BY DEF Separators, Numbered, AlphabetOf
<1> HIDE DEF t, A
<1>5. ASSUME NEW x \in ToSet(t) PROVE x \in S <=> x \in P
    <2>0. PICK i \in 1..Len(t) : x = t[i]
        BY <1>3, ToSetElements
    <2>1. i \in 1..Len(s) /\ x = <<i, s[i]>>
        BY <1>3, <2>0
    <2>2. x \in S <=> s[i] \notin A
        BY <2>1
    <2>3. x \in P <=> s[i] \notin A
        BY <1>1, <2>1
    <2> QED BY <2>2, <2>3
<1> HIDE DEF S, P
<1>6. Those(t, S) = Those(t, P)
    BY <1>3, <1>5, ThoseOfSame
<1>7. Those(t, P) \in Seq(Separated(X) \cap P)
    BY <1>3, ThoseElements
<1>8. Those(t, P) \in Seq(Separated(X))
    <2> DEFINE u == Those(t, P)
    <2>1. u \in Seq(Separated(X) \cap P)
        BY <1>7
    <2> HIDE DEF u
    <2>2. u \in Seq(Separated(X))
        BY <2>1
    <2> QED BY <2>2 DEF u
<1> QED BY <1>3, <1>4, <1>6, <1>8 DEF t, P, A

(* A character more is a letter, or a separator in the last place.         *)
LEMMA SeparatorsOfAppend ==
    ASSUME NEW X, NEW s \in Seq(X), NEW c \in X, NEW k
    PROVE  /\ c \in AlphabetOf(k) => Separators(Append(s, c), k) = Separators(s, k)
           /\ c \notin AlphabetOf(k) =>
                Separators(Append(s, c), k) = Append(Separators(s, k), <<Len(s) + 1, c>>)
<1> DEFINE v == Append(s, c)
           p == <<Len(s) + 1, c>>
           P == (Nat \ {0}) \X (X \ AlphabetOf(k))
<1>1. v \in Seq(X) /\ p \in Separated(X) /\ Len(s) \in Nat
    BY DEF Separated
<1>2. Numbered(s) \in Seq(Separated(X))
    BY SeparatorsAre
<1>3. Numbered(v) = Append(Numbered(s), p)
    <2>1. Len(v) = Len(s) + 1 /\ v[Len(s) + 1] = c /\ \A i \in 1..Len(s) : v[i] = s[i]
        OBVIOUS
    <2>2. Len(Numbered(s)) = Len(s) /\ \A i \in 1..Len(s) : Numbered(s)[i] = <<i, s[i]>>
        BY DEF Numbered
    <2>3. Numbered(v) \in Seq(Separated(X)) /\ Len(Numbered(v)) = Len(s) + 1
          /\ \A i \in 1..Len(s) + 1 : Numbered(v)[i] = <<i, v[i]>>
        <3>1. Numbered(v) \in Seq(Separated(X))
            BY <1>1, SeparatorsAre
        <3> HIDE DEF v
        <3>2. Len(Numbered(v)) = Len(s) + 1
            BY <2>1, <1>1 DEF Numbered
        <3>3. \A i \in 1..Len(s) + 1 : Numbered(v)[i] = <<i, v[i]>>
            BY <2>1, <1>1 DEF Numbered
        <3> QED BY <3>1, <3>2, <3>3
    <2> DEFINE q == Numbered(s)
               r == Numbered(v)
    <2>4. q \in Seq(Separated(X)) /\ Len(q) = Len(s) /\ \A i \in 1..Len(s) : q[i] = <<i, s[i]>>
        BY <1>2, <2>2
    <2>5. r \in Seq(Separated(X)) /\ Len(r) = Len(s) + 1 /\ \A i \in 1..Len(s) : r[i] = <<i, s[i]>>
        BY <2>1, <2>3
    <2>6. r[Len(s) + 1] = p
        BY <2>1, <2>3, <1>1
    <2> HIDE DEF q, r, p, v
    <2>7. Append(q, p) \in Seq(Separated(X)) /\ Len(Append(q, p)) = Len(s) + 1
          /\ Append(q, p)[Len(s) + 1] = p /\ \A i \in 1..Len(s) : Append(q, p)[i] = q[i]
        BY <1>1, <2>4
    <2>8. \A i \in 1..Len(r) : r[i] = Append(q, p)[i]
        <3> SUFFICES ASSUME NEW i \in 1..Len(r) PROVE r[i] = Append(q, p)[i]
            OBVIOUS
        <3>1. i = Len(s) + 1 \/ i \in 1..Len(s)
            BY <1>1, <2>5
        <3> QED BY <3>1, <2>4, <2>5, <2>6, <2>7
    <2>9. r = Append(q, p)
        BY <2>5, <2>7, <2>8, SameSequence
    <2> QED BY <2>9 DEF q, r
<1>4. Separators(v, k) = Those(Append(Numbered(s), p), P) /\ Separators(s, k) = Those(Numbered(s), P)
    <2>1. Separators(s, k) = Those(Numbered(s), P)
        BY SeparatorsAre
    <2>2. Separators(v, k) = Those(Numbered(v), P)
        <3> HIDE DEF v
        <3> QED BY <1>1, SeparatorsAre
    <2> QED BY <1>3, <2>1, <2>2
<1>5. p \in P <=> c \notin AlphabetOf(k)
    BY <1>1
<1> HIDE DEF v, p, P
<1>6. Those(Append(Numbered(s), p), P) = IF p \in P THEN Append(Those(Numbered(s), P), p) ELSE Those(Numbered(s), P)
    BY <1>1, <1>2, ThoseOfAppend
<1> QED BY <1>4, <1>5, <1>6 DEF v, p

(* Nothing has no separators.                                              *)
LEMMA SeparatorsOfNone == ASSUME NEW k PROVE Separators(<<>>, k) = <<>>
<1>1. [i \in 1..Len(<<>>) |-> <<i, <<>>[i]>>] = <<>>
    OBVIOUS
<1> DEFINE S == {<<i, <<>>[i]>> : i \in {j \in 1..Len(<<>>) : <<>>[j] \notin ToSet(Alphabet[k])}}
<1>2. Separators(<<>>, k) = Those(<<>>, S)
    BY <1>1 DEF Separators
<1> HIDE DEF S
<1> QED BY <1>2, ThoseOfNone

-----------------------------------------------------------------------------
(* What becomes of a string s when its letters are replaced by b: all else *)
(* stays, and what is taken apart again are b and the same separators.     *)
Woven(s, b, k, X) ==
    LET w == ApplyTemplate(b, Separators(s, k)) IN
    /\ w \in Seq(X) /\ Len(w) = Len(s)
    /\ Fit(b, Separators(s, k)) /\ Len(b) + Len(Separators(s, k)) = Len(s)
    /\ Naked(w, k) = b /\ Separators(w, k) = Separators(s, k)
    /\ \A i \in 1..Len(s) : w[i] = s[i] \/ (s[i] \in AlphabetOf(k) /\ w[i] \in AlphabetOf(k))
    /\ b = Naked(s, k) => w = s

(* The string has no letters left over when it is s that lost them.        *)
Weaves(s, k, X) == \A b \in Seq(AlphabetOf(k)) : Len(b) = Len(Naked(s, k)) => Woven(s, b, k, X)

(* The empty string.                                                       *)
LEMMA WeavesNone == ASSUME NEW X, NEW k, AlphabetOf(k) \subseteq X PROVE Weaves(<<>>, k, X)
<1>1. Naked(<<>>, k) = <<>> /\ Separators(<<>>, k) = <<>>
    BY ThoseOfNone, SeparatorsOfNone DEF Naked
<1>2. ASSUME NEW b \in Seq(AlphabetOf(k)), Len(b) = Len(Naked(<<>>, k)) PROVE Woven(<<>>, b, k, X)
    <2>1. b = <<>>
        BY <1>1, <1>2
    <2>2. <<>> \in Seq(X) /\ Len(<<>>) = 0
        OBVIOUS
    <2>3. ApplyTemplate(<<>>, <<>>) = <<>>
        BY <2>2, ApplyNone
    <2>4. ApplyTemplate(b, Separators(<<>>, k)) = <<>> /\ Fit(b, Separators(<<>>, k))
        BY <1>1, <2>1, <2>2, <2>3 DEF Fit
    <2> DEFINE w == ApplyTemplate(b, Separators(<<>>, k))
    <2>5. /\ w \in Seq(X) /\ Len(w) = Len(<<>>)
          /\ Len(b) + Len(Separators(<<>>, k)) = Len(<<>>)
          /\ Naked(w, k) = b /\ Separators(w, k) = Separators(<<>>, k)
          /\ w = <<>>
        <3> DEFINE seps == Separators(<<>>, k)
        <3>1. w = <<>> /\ seps = <<>>
            BY <1>1, <2>4
        <3> HIDE DEF w, seps
        <3>2. Len(b) + Len(seps) = Len(<<>>) /\ w \in Seq(X)
            BY <3>1, <2>1, <2>2
        <3>3. Naked(w, k) = b /\ Separators(w, k) = seps
            BY <3>1, <1>1, <2>1
        <3> QED BY <3>1, <3>2, <3>3 DEF seps
    <2>6. \A i \in 1..Len(<<>>) : w[i] = <<>>[i] \/ (<<>>[i] \in AlphabetOf(k) /\ w[i] \in AlphabetOf(k))
        BY <2>2
    <2> QED BY <2>4, <2>5, <2>6 DEF Woven
<1> QED BY <1>2 DEF Weaves

(* A character more: a letter behind all, or a separator behind all.       *)
LEMMA WeavesMore ==
    ASSUME NEW X, NEW k, AlphabetOf(k) \subseteq X, NEW s \in Seq(X), Weaves(s, k, X), NEW c \in X
    PROVE  Weaves(Append(s, c), k, X)
<1> DEFINE A == AlphabetOf(k)
           v == Append(s, c)
           seps == Separators(s, k)
           n == Naked(s, k)
<1>1. v \in Seq(X) /\ Len(v) = Len(s) + 1 /\ v[Len(s) + 1] = c /\ Len(s) \in Nat
      /\ \A i \in 1..Len(s) : v[i] = s[i]
    OBVIOUS
<1>2. n \in Seq(A) /\ Naked(v, k) = IF c \in A THEN Append(n, c) ELSE n
    <2>1. n \in Seq(X \cap A)
        BY ThoseElements DEF Naked, AlphabetOf
    <2>2. n \in Seq(A)
        <3> HIDE DEF n, A
        <3> QED BY <2>1, ElementsOf
    <2>3. Naked(v, k) = IF c \in A THEN Append(n, c) ELSE n
        BY ThoseOfAppend DEF Naked, AlphabetOf
    <2> QED BY <2>2, <2>3
<1>3. seps \in Seq(Separated(X)) /\ Len(seps) \in Nat
    <2>1. seps \in Seq(Separated(X))
        BY SeparatorsAre
    <2> HIDE DEF seps
    <2> QED BY <2>1
<1>4. ASSUME NEW b \in Seq(A), Len(b) = Len(Naked(v, k)), c \in A PROVE Woven(v, b, k, X)
    <2> DEFINE d == SubSeq(b, 1, Len(n))
               y == b[Len(n) + 1]
               w == ApplyTemplate(d, seps)
    <2>1. Len(n) \in Nat /\ Len(b) = Len(n) + 1
        BY <1>2, <1>4
    <2>2. d \in Seq(A) /\ Len(d) = Len(n) /\ y \in A /\ y \in X /\ \A i \in 1..Len(n) : d[i] = b[i]
        <3> HIDE DEF n, A
        <3>1. 1 <= Len(n) + 1 /\ Len(n) <= Len(b) /\ Len(n) + 1 \in 1..Len(b)
            BY <2>1
        <3> QED BY <2>1, <3>1 DEF A
    <2>3. b = Append(d, y)
        <3> HIDE DEF d, y, A, n
        <3>1. Append(d, y) \in Seq(A) /\ Len(Append(d, y)) = Len(n) + 1 /\ Append(d, y)[Len(n) + 1] = y
              /\ \A i \in 1..Len(n) : Append(d, y)[i] = d[i]
            BY <2>1, <2>2
        <3>2. \A i \in 1..Len(b) : b[i] = Append(d, y)[i]
            <4> SUFFICES ASSUME NEW i \in 1..Len(b) PROVE b[i] = Append(d, y)[i]
                OBVIOUS
            <4>1. i = Len(n) + 1 \/ i \in 1..Len(n)
                BY <2>1
            <4> QED BY <4>1, <3>1, <2>2 DEF y
        <3> QED BY <2>1, <3>1, <3>2, SameSequence
    <2>4. /\ w \in Seq(X) /\ Len(w) = Len(s)
          /\ Fit(d, seps) /\ Len(d) + Len(seps) = Len(s)
          /\ Naked(w, k) = d /\ Separators(w, k) = seps
          /\ \A i \in 1..Len(s) : w[i] = s[i] \/ (s[i] \in A /\ w[i] \in A)
          /\ d = n => w = s
        <3>1. Woven(s, d, k, X)
            <4> HIDE DEF d
            <4> QED BY <2>2 DEF Weaves
        <3> HIDE DEF d, n, A, seps
        <3> QED BY <3>1 DEF Woven, n, A, seps
    <2>5. Separators(v, k) = seps
        BY <1>4, SeparatorsOfAppend
    <2>6. ApplyTemplate(b, seps) = Append(w, y)
        <3>1. d \in Seq(X)
            <4> HIDE DEF d
            <4> QED BY <2>2, ElementsOf
        <3> HIDE DEF d, seps, y
        <3> QED BY <1>3, <2>2, <2>3, <2>4, <3>1, ApplyMore
    <2> HIDE DEF w, d, y, seps
    <2>7. Append(w, y) \in Seq(X) /\ Len(Append(w, y)) = Len(s) + 1 /\ Append(w, y)[Len(s) + 1] = y
          /\ \A i \in 1..Len(s) : Append(w, y)[i] = w[i]
        BY <2>2, <2>4, <1>1
    <2>8. Fit(b, seps)
        <3>1. Len(b) = Len(d) + 1 /\ Len(d) \in Nat
            BY <2>1, <2>2
        <3> SUFFICES ASSUME NEW i \in 1..Len(seps) PROVE seps[i][1] <= Len(b) + i
            BY DEF Fit
        <3> DEFINE q == seps[i][1]
        <3>2. q <= Len(d) + i /\ q \in Nat /\ i \in Int
            BY <1>3, <2>4 DEF Fit, Separated
        <3> HIDE DEF q
        <3>3. q <= Len(b) + i
            BY <3>1, <3>2
        <3> QED BY <3>3 DEF q
    <2>9. Len(b) + Len(seps) = Len(v)
        BY <1>1, <1>3, <2>1, <2>2, <2>4
    <2>10. Naked(Append(w, y), k) = b
        <3>1. Those(Append(w, y), A) = Append(Those(w, A), y)
            BY <2>2, <2>4, ThoseOfAppend
        <3> QED BY <3>1, <2>3, <2>4 DEF Naked, AlphabetOf
    <2>11. Separators(Append(w, y), k) = seps
        BY <2>2, <2>4, SeparatorsOfAppend
    <2>12. ASSUME NEW i \in 1..Len(v)
           PROVE  Append(w, y)[i] = v[i] \/ (v[i] \in A /\ Append(w, y)[i] \in A)
        <3>1. i = Len(s) + 1 \/ i \in 1..Len(s)
            BY <1>1
        <3> HIDE DEF v, A
        <3> QED BY <3>1, <1>1, <1>4, <2>2, <2>4, <2>7
    <2>13. ASSUME b = Naked(v, k) PROVE Append(w, y) = v
        <3>1. b = Append(n, c)
            BY <1>2, <1>4, <2>13
        <3>2. y = c
            <4> HIDE DEF n, A
            <4>1. b[Len(n) + 1] = c
                BY <3>1, <1>2, <1>4
            <4> QED BY <4>1 DEF y
        <3>3. d = n
            <4> HIDE DEF n, A
            <4>1. \A i \in 1..Len(n) : b[i] = n[i]
                BY <3>1, <1>2, <1>4
            <4>2. \A i \in 1..Len(d) : d[i] = n[i]
                BY <4>1, <2>2
            <4> QED BY <4>2, <2>2, <1>2, SameSequence
        <3> QED BY <3>2, <3>3, <2>4
    <2> HIDE DEF v
    <2> QED BY <1>1, <2>5, <2>6, <2>7, <2>8, <2>9, <2>10, <2>11, <2>12, <2>13 DEF Woven
<1>5. ASSUME NEW b \in Seq(A), Len(b) = Len(Naked(v, k)), c \notin A PROVE Woven(v, b, k, X)
    <2> DEFINE w == ApplyTemplate(b, seps)
               p == <<Len(s) + 1, c>>
               ext == Append(seps, p)
    <2>1. Naked(v, k) = n /\ Len(b) = Len(n)
        BY <1>2, <1>5
    <2>2. /\ w \in Seq(X) /\ Len(w) = Len(s)
          /\ Fit(b, seps) /\ Len(b) + Len(seps) = Len(s)
          /\ Naked(w, k) = b /\ Separators(w, k) = seps
          /\ \A i \in 1..Len(s) : w[i] = s[i] \/ (s[i] \in A /\ w[i] \in A)
          /\ b = n => w = s
        <3>1. Woven(s, b, k, X)
            BY <2>1 DEF Weaves
        <3> HIDE DEF n, A, seps
        <3> QED BY <3>1 DEF Woven, n, A, seps
    <2>3. Separators(v, k) = ext
        BY <1>5, SeparatorsOfAppend
    <2>4. p \in Separated(X) /\ p[1] = Len(s) + 1 /\ p[2] = c
        BY <1>1 DEF Separated
    <2>5. b \in Seq(X) /\ Len(b) \in Nat
        BY ElementsOf
    <2>6. ApplyTemplate(b, ext) = Append(w, c)
        <3>1. ApplyTemplate(b, ext) = PutAt(w, p)
            <4> HIDE DEF seps, p
            <4> QED BY <1>3, <2>4, <2>5, ApplyLast
        <3>2. PutAt(w, p) = Append(w, c)
            <4> HIDE DEF w, p
            <4> QED BY <2>2, <2>4, PutAtIs
        <3> QED BY <3>1, <3>2
    <2> HIDE DEF w, seps
    <2>7. Append(w, c) \in Seq(X) /\ Len(Append(w, c)) = Len(s) + 1 /\ Append(w, c)[Len(s) + 1] = c
          /\ \A i \in 1..Len(s) : Append(w, c)[i] = w[i]
        BY <2>2, <1>1
    <2>8. Fit(b, ext)
        <3>1. Len(ext) = Len(seps) + 1 /\ ext[Len(seps) + 1] = p /\ \A i \in 1..Len(seps) : ext[i] = seps[i]
            <4> HIDE DEF p
            <4> QED BY <1>3, <2>4
        <3> HIDE DEF ext, p
        <3> SUFFICES ASSUME NEW i \in 1..Len(ext) PROVE ext[i][1] <= Len(b) + i
            BY DEF Fit
        <3>2. CASE i = Len(seps) + 1
            BY <3>1, <3>2, <2>2, <2>4, <2>5, <1>1, <1>3
        <3>3. CASE i # Len(seps) + 1
            <4>1. i \in 1..Len(seps)
                BY <3>1, <3>3, <1>3
            <4> QED BY <3>1, <4>1, <2>2 DEF Fit
        <3> QED BY <3>2, <3>3
    <2>9. Len(b) + Len(ext) = Len(v)
        <3>1. Len(ext) = Len(seps) + 1
            <4> HIDE DEF p
            <4> QED BY <1>3, <2>4
        <3> HIDE DEF ext
        <3> QED BY <3>1, <1>1, <1>3, <2>2, <2>5
    <2>10. Naked(Append(w, c), k) = b
        <3>1. Those(Append(w, c), A) = Those(w, A)
            BY <1>5, <2>2, ThoseOfAppend
        <3> QED BY <3>1, <2>2 DEF Naked, AlphabetOf
    <2>11. Separators(Append(w, c), k) = ext
        BY <1>5, <2>2, SeparatorsOfAppend
    <2>12. ASSUME NEW i \in 1..Len(v)
           PROVE  Append(w, c)[i] = v[i] \/ (v[i] \in A /\ Append(w, c)[i] \in A)
        <3>1. i = Len(s) + 1 \/ i \in 1..Len(s)
            BY <1>1
        <3> HIDE DEF v, A
        <3> QED BY <3>1, <1>1, <2>2, <2>7
    <2>13. ASSUME b = Naked(v, k) PROVE Append(w, c) = v
        BY <2>1, <2>2, <2>13
    <2> HIDE DEF v, ext
    <2> QED BY <1>1, <2>3, <2>6, <2>7, <2>8, <2>9, <2>10, <2>11, <2>12, <2>13 DEF Woven
<1> QED BY <1>4, <1>5 DEF Weaves

(* It is so of every string.                                               *)
LEMMA AllWeave ==
    ASSUME NEW X, NEW k, AlphabetOf(k) \subseteq X, NEW s \in Seq(X)
    PROVE  Weaves(s, k, X)
<1> DEFINE T == {r \in Seq(X) : Weaves(r, k, X)}
<1>1. <<>> \in T
    BY WeavesNone
<1>2. \A r \in Seq(X) : r \in T => \A c \in X : Append(r, c) \in T
    BY WeavesMore
<1>3. Seq(X) \subseteq T
    <2> HIDE DEF T
    <2> QED BY <1>1, <1>2, SeqInduction
<1> QED BY <1>3

(* The first place of a character.                                         *)
LEMMA IndexOfIs ==
    ASSUME NEW X, NEW s \in Seq(X), NEW c \in ToSet(s)
    PROVE  /\ IndexOf(s, c) \in 1..Len(s) /\ s[IndexOf(s, c)] = c
           /\ \A i \in 1..Len(s) : s[i] = c => IndexOf(s, c) <= i
<1> DEFINE S == {i \in 1..Len(s) : s[i] = c}
<1>1. Len(s) \in Nat
    OBVIOUS
<1>2. S \in SUBSET (1..Len(s)) /\ S # {}
    BY <1>1, ToSetElements
<1> HIDE DEF S
<1>3. \E m \in S : \A n \in S : m <= n
    BY <1>1, <1>2, LeastExists
<1>4. Min(S) \in S /\ \A n \in S : Min(S) <= n
    BY <1>3 DEF Min
<1>5. IndexOf(s, c) = Min(S)
    BY DEF IndexOf, S
<1> QED BY <1>4, <1>5 DEF S

(* The digits and letters of the alphabets.                                *)
Symbols == {"1", "2", "a", "b", "A", "B"}

(* Two alphabets joined.                                                   *)
LEMMA TwoAndTwo ==
    ASSUME NEW a \in Symbols, NEW b \in Symbols, NEW c \in Symbols, NEW d \in Symbols
    PROVE  <<a, b>> \o <<c, d>> = <<a, b, c, d>>
<1>1. ASSUME NEW p \in Seq(Symbols), Len(p) = 2, p[1] = a, p[2] = b, NEW q \in Seq(Symbols), Len(q) = 2, q[1] = c, q[2] = d
      PROVE  p \o q = <<a, b, c, d>>
    <2> DEFINE t == <<a, b, c, d>>
    <2>1. t \in Seq(Symbols) /\ Len(t) = 4 /\ t[1] = a /\ t[2] = b /\ t[3] = c /\ t[4] = d
        OBVIOUS
    <2>0. /\ p \o q \in Seq(Symbols) /\ Len(p \o q) = Len(p) + Len(q)
          /\ \A i \in 1..Len(p) : (p \o q)[i] = p[i]
          /\ \A i \in 1..Len(q) : (p \o q)[Len(p) + i] = q[i]
        BY ConcatElements
    <2>2. p \o q \in Seq(Symbols) /\ Len(p \o q) = 4
        BY <1>1, <2>0
    <2>3. (p \o q)[1] = a /\ (p \o q)[2] = b /\ (p \o q)[3] = c /\ (p \o q)[4] = d
        BY <1>1, <2>0
    <2> HIDE DEF t
    <2>4. \A i \in 1..4 : i = 1 \/ i = 2 \/ i = 3 \/ i = 4
        OBVIOUS
    <2>5. \A i \in 1..4 : (p \o q)[i] = t[i]
        BY <2>1, <2>3, <2>4
    <2>6. p \o q = t
        BY <2>1, <2>2, <2>5, SameSequence
    <2> QED BY <2>6 DEF t
<1>8. <<a, b>> \in Seq(Symbols) /\ <<c, d>> \in Seq(Symbols)
    OBVIOUS
<1> QED BY <1>1, <1>8

(* A third alphabet joined.                                                *)
LEMMA FourAndTwo ==
    ASSUME NEW a \in Symbols, NEW b \in Symbols, NEW c \in Symbols, NEW d \in Symbols, NEW e \in Symbols, NEW f \in Symbols
    PROVE  <<a, b, c, d>> \o <<e, f>> = <<a, b, c, d, e, f>>
<1>2. ASSUME NEW p \in Seq(Symbols), Len(p) = 4, p[1] = a, p[2] = b, p[3] = c, p[4] = d,
             NEW q \in Seq(Symbols), Len(q) = 2, q[1] = e, q[2] = f
      PROVE  p \o q = <<a, b, c, d, e, f>>
    <2> DEFINE t == <<a, b, c, d, e, f>>
    <2>1. t \in Seq(Symbols) /\ Len(t) = 6 /\ t[1] = a /\ t[2] = b /\ t[3] = c /\ t[4] = d /\ t[5] = e /\ t[6] = f
        OBVIOUS
    <2>0. /\ p \o q \in Seq(Symbols) /\ Len(p \o q) = Len(p) + Len(q)
          /\ \A i \in 1..Len(p) : (p \o q)[i] = p[i]
          /\ \A i \in 1..Len(q) : (p \o q)[Len(p) + i] = q[i]
        BY ConcatElements
    <2>2. p \o q \in Seq(Symbols) /\ Len(p \o q) = 6
        BY <1>2, <2>0
    <2>3. (p \o q)[1] = a /\ (p \o q)[2] = b /\ (p \o q)[3] = c /\ (p \o q)[4] = d /\ (p \o q)[5] = e /\ (p \o q)[6] = f
        BY <1>2, <2>0
    <2> HIDE DEF t
    <2>4. \A i \in 1..6 : i = 1 \/ i = 2 \/ i = 3 \/ i = 4 \/ i = 5 \/ i = 6
        OBVIOUS
    <2>5. \A i \in 1..6 : (p \o q)[i] = t[i]
        BY <2>1, <2>3, <2>4
    <2>6. p \o q = t
        BY <2>1, <2>2, <2>5, SameSequence
    <2> QED BY <2>6 DEF t
<1>8. <<a, b, c, d>> \in Seq(Symbols) /\ <<e, f>> \in Seq(Symbols)
    OBVIOUS
<1> QED BY <1>2, <1>8

(* The signs, and which string each stands for.                            *)
LEMMA Signs ==
    /\ Digits \in Seq(Symbols) /\ Lower \in Seq(Symbols) /\ Upper \in Seq(Symbols)
    /\ ToSet(Digits) = {"1", "2"} /\ ToSet(Lower) = {"a", "b"} /\ ToSet(Upper) = {"A", "B"}
    /\ ToSet(Digits \o Lower) = {"1", "2", "a", "b"}
<1>1. Digits \in Seq(Symbols) /\ Lower \in Seq(Symbols) /\ Upper \in Seq(Symbols)
    BY DEF Digits, Lower, Upper, Symbols
<1>2. ToSet(Digits) = {"1", "2"}
    BY DEF Digits, ToSet
<1>3. ToSet(Lower) = {"a", "b"}
    BY DEF Lower, ToSet
<1>4. ToSet(Upper) = {"A", "B"}
    BY DEF Upper, ToSet
<1>5. ToSet(Digits \o Lower) = ToSet(Digits) \cup ToSet(Lower)
    BY <1>1, ToSetConcat
<1> QED BY <1>1, <1>2, <1>3, <1>4, <1>5

(* What folding does to each character.                                    *)
LEMMA Cases ==
    /\ \A c : LowerOf(c) = IF c = "A" THEN "a" ELSE IF c = "B" THEN "b" ELSE c
    /\ \A c : UpperOf(c) = IF c = "a" THEN "A" ELSE IF c = "b" THEN "B" ELSE c
    /\ \A c : IsLetter(c) <=> c \in {"a", "b", "A", "B"}
<1>1. ASSUME NEW c PROVE LowerOf(c) = IF c = "A" THEN "a" ELSE IF c = "B" THEN "b" ELSE c
    <2>1. CASE c \in {"A", "B"}
        <3> DEFINE n == IndexOf(Upper, c)
        <3>1. n \in 1..Len(Upper) /\ Upper[n] = c
            BY <2>1, Signs, IndexOfIs
        <3>2. LowerOf(c) = Lower[n]
            BY <2>1, Signs DEF LowerOf
        <3> HIDE DEF n
        <3>3. n = 1 \/ n = 2
            BY <3>1 DEF Upper
        <3> QED BY <2>1, <3>1, <3>2, <3>3 DEF Upper, Lower
    <2>2. CASE c \notin {"A", "B"}
        BY <2>2, Signs DEF LowerOf
    <2> QED BY <2>1, <2>2
<1>2. ASSUME NEW c PROVE UpperOf(c) = IF c = "a" THEN "A" ELSE IF c = "b" THEN "B" ELSE c
    <2>1. CASE c \in {"a", "b"}
        <3> DEFINE n == IndexOf(Lower, c)
        <3>1. n \in 1..Len(Lower) /\ Lower[n] = c
            BY <2>1, Signs, IndexOfIs
        <3>2. UpperOf(c) = Upper[n]
            BY <2>1, Signs DEF UpperOf
        <3> HIDE DEF n
        <3>3. n = 1 \/ n = 2
            BY <3>1 DEF Lower
        <3> QED BY <2>1, <3>1, <3>2, <3>3 DEF Upper, Lower
    <2>2. CASE c \notin {"a", "b"}
        BY <2>2, Signs DEF UpperOf
    <2> QED BY <2>1, <2>2
<1>3. \A c : IsLetter(c) <=> c \in {"a", "b", "A", "B"}
    BY Signs DEF IsLetter
<1> QED BY <1>1, <1>2, <1>3

(* The alphabets, in which no letter stands twice.                         *)
LEMMA Alphabets ==
    ASSUME NEW k \in TokenKinds
    PROVE  /\ Alphabet[k] \in Seq(AlphabetOf(k)) /\ Len(Alphabet[k]) \in Nat
           /\ \A i, j \in 1..Len(Alphabet[k]) : Alphabet[k][i] = Alphabet[k][j] => i = j
           /\ AlphabetOf(k) = CASE k = "card" -> {"1", "2"}
                                [] k = "api_key" -> {"1", "2", "A", "B", "a", "b"}
                                [] OTHER -> {"1", "2", "a", "b"}
<1> DEFINE s == Alphabet[k]
<1>1. k = "card" \/ k = "email" \/ k = "api_key" \/ k = "iban"
    BY DEF TokenKinds
<1>2. \/ k = "card" /\ s = <<"1", "2">>
      \/ k \in {"email", "iban"} /\ s = <<"1", "2", "a", "b">>
      \/ k = "api_key" /\ s = <<"1", "2", "A", "B", "a", "b">>
    <2>0. "1" \in Symbols /\ "2" \in Symbols /\ "a" \in Symbols /\ "b" \in Symbols /\ "A" \in Symbols /\ "B" \in Symbols
        BY DEF Symbols
    <2>1. Digits \o Lower = <<"1", "2", "a", "b">>
        BY <2>0, TwoAndTwo DEF Digits, Lower
    <2>2. Digits \o Upper = <<"1", "2", "A", "B">>
        BY <2>0, TwoAndTwo DEF Digits, Upper
    <2>3. <<"1", "2", "A", "B">> \o Lower = <<"1", "2", "A", "B", "a", "b">>
        BY <2>0, FourAndTwo DEF Lower
    <2>4. Alphabet["card"] = Digits /\ Alphabet["email"] = Digits \o Lower /\ Alphabet["iban"] = Digits \o Lower
          /\ Alphabet["api_key"] = (Digits \o Upper) \o Lower
        BY DEF Alphabet
    <2> QED BY <1>1, <2>1, <2>2, <2>3, <2>4 DEF Digits
<1> HIDE DEF s
<1>3. s \in Seq(Symbols) /\ Len(s) \in Nat
    <2>1. <<"1", "2">> \in Seq(Symbols)
        BY DEF Symbols
    <2>2. <<"1", "2", "a", "b">> \in Seq(Symbols)
        BY DEF Symbols
    <2>3. <<"1", "2", "A", "B", "a", "b">> \in Seq(Symbols)
        BY DEF Symbols
    <2>4. s \in Seq(Symbols)
        BY <1>2, <2>1, <2>2, <2>3
    <2> QED BY <2>4
<1>4. \A i, j \in 1..Len(s) : s[i] = s[j] => i = j
    BY <1>2
<1>5. ToSet(s) = CASE k = "card" -> {"1", "2"}
                   [] k = "api_key" -> {"1", "2", "A", "B", "a", "b"}
                   [] OTHER -> {"1", "2", "a", "b"}
    <2>1. CASE k = "card"
        BY <1>2, <2>1 DEF ToSet
    <2>2. CASE k = "api_key"
        BY <1>2, <2>2 DEF ToSet
    <2>3. CASE k \in {"email", "iban"}
        BY <1>2, <2>3 DEF ToSet
    <2> QED BY <1>1, <2>1, <2>2, <2>3
<1>6. s \in Seq(ToSet(s))
    BY <1>3, ElementsOf, ToSetElements
<1> QED BY <1>3, <1>4, <1>5, <1>6 DEF s, AlphabetOf

(* The mapper is one to one.                                               *)
LEMMA NumeralsAndLetters ==
    ASSUME NEW k \in TokenKinds
    PROVE  /\ \A b \in Seq(AlphabetOf(k)) :
                /\ Numerals(b, k) \in NumeralSeqs(k, Len(b)) /\ Len(b) \in Nat
                /\ Letters(Numerals(b, k), k) = b
           /\ \A n \in Nat : \A ns \in NumeralSeqs(k, n) :
                /\ Letters(ns, k) \in Seq(AlphabetOf(k)) /\ Len(Letters(ns, k)) = n
                /\ Numerals(Letters(ns, k), k) = ns
<1> DEFINE s == Alphabet[k]
           A == AlphabetOf(k)
<1>1. /\ s \in Seq(A) /\ Len(s) \in Nat /\ A = ToSet(s)
      /\ \A i, j \in 1..Len(s) : s[i] = s[j] => i = j
    BY Alphabets DEF AlphabetOf
<1>2. ASSUME NEW c \in A PROVE IndexOf(s, c) \in 1..Len(s) /\ s[IndexOf(s, c)] = c
    BY <1>1, IndexOfIs
<1>3. ASSUME NEW m \in 1..Len(s) PROVE s[m] \in A /\ IndexOf(s, s[m]) = m
    <2>1. s[m] \in A
        BY <1>1
    <2> QED BY <1>1, <1>2, <2>1
<1>4. /\ \A b : Numerals(b, k) = [i \in 1..Len(b) |-> IndexOf(s, b[i]) - 1]
      /\ \A ns : Letters(ns, k) = [i \in 1..Len(ns) |-> s[ns[i] + 1]]
      /\ \A n : NumeralSeqs(k, n) = [1..n -> 0..Len(s) - 1]
    BY DEF Numerals, Letters, NumeralSeqs
<1> HIDE DEF s, A
<1>5. ASSUME NEW b \in Seq(A)
      PROVE  /\ Numerals(b, k) \in NumeralSeqs(k, Len(b)) /\ Len(b) \in Nat
             /\ Letters(Numerals(b, k), k) = b
    <2> DEFINE ns == Numerals(b, k)
    <2>1. Len(b) \in Nat /\ \A i \in 1..Len(b) : b[i] \in A
        OBVIOUS
    <2>2. \A i \in 1..Len(b) : IndexOf(s, b[i]) - 1 \in 0..Len(s) - 1
        <3> SUFFICES ASSUME NEW i \in 1..Len(b) PROVE IndexOf(s, b[i]) - 1 \in 0..Len(s) - 1
            OBVIOUS
        <3>1. IndexOf(s, b[i]) \in 1..Len(s)
            BY <1>2, <2>1
        <3> QED BY <1>1, <3>1
    <2>3. ns \in [1..Len(b) -> 0..Len(s) - 1] /\ \A i \in 1..Len(b) : ns[i] = IndexOf(s, b[i]) - 1
        BY <1>4, <2>2
    <2> HIDE DEF ns
    <2>4. Len(ns) = Len(b)
        BY <2>1, <2>3
    <2>5. ASSUME NEW i \in 1..Len(b) PROVE s[ns[i] + 1] = b[i]
        <3>1. b[i] \in A
            BY <2>1
        <3>2. IndexOf(s, b[i]) \in 1..Len(s) /\ s[IndexOf(s, b[i])] = b[i]
            BY <1>2, <3>1
        <3>3. ns[i] + 1 = IndexOf(s, b[i])
            BY <2>3, <3>2
        <3> QED BY <3>2, <3>3
    <2>6. Letters(ns, k) = [i \in 1..Len(b) |-> b[i]]
        <3>1. Letters(ns, k) = [i \in 1..Len(b) |-> s[ns[i] + 1]]
            BY <1>4, <2>4
        <3> QED BY <3>1, <2>5
    <2>7. [i \in 1..Len(b) |-> b[i]] = b
        OBVIOUS
    <2> QED BY <1>4, <2>1, <2>3, <2>6, <2>7 DEF ns
<1>6. ASSUME NEW n \in Nat, NEW ns \in NumeralSeqs(k, n)
      PROVE  /\ Letters(ns, k) \in Seq(A) /\ Len(Letters(ns, k)) = n
             /\ Numerals(Letters(ns, k), k) = ns
    <2> DEFINE b == Letters(ns, k)
    <2>0. ns \in [1..n -> 0..Len(s) - 1]
        BY <1>4
    <2>1. ns \in [1..n -> 0..Len(s) - 1] /\ Len(ns) = n
        BY <2>0
    <2>2. \A i \in 1..n : ns[i] + 1 \in 1..Len(s) /\ ns[i] \in Int
        BY <1>1, <2>1
    <2>3. b = [i \in 1..n |-> s[ns[i] + 1]]
        BY <1>4, <2>1
    <2> HIDE DEF b
    <2>4. \A i \in 1..n : b[i] = s[ns[i] + 1] /\ b[i] \in A
        BY <1>3, <2>2, <2>3
    <2>5. b \in Seq(A) /\ Len(b) = n
        BY <2>3, <2>4
    <2>6. \A i \in 1..n : IndexOf(s, b[i]) - 1 = ns[i]
        <3> SUFFICES ASSUME NEW i \in 1..n PROVE IndexOf(s, b[i]) - 1 = ns[i]
            OBVIOUS
        <3> DEFINE j == ns[i] + 1
        <3>1. j \in 1..Len(s) /\ b[i] = s[j]
            BY <2>2, <2>4
        <3>2. j - 1 = ns[i]
            BY <2>2
        <3> HIDE DEF j
        <3>3. IndexOf(s, b[i]) = j
            BY <1>3, <3>1
        <3> QED BY <3>2, <3>3
    <2>7. Numerals(b, k) = [i \in 1..n |-> ns[i]]
        <3>1. Numerals(b, k) = [i \in 1..n |-> IndexOf(s, b[i]) - 1]
            BY <1>4, <2>5
        <3> QED BY <2>6, <3>1
    <2>8. [i \in 1..n |-> ns[i]] = ns
        BY <2>1
    <2> QED BY <2>5, <2>7, <2>8 DEF b
<1> QED BY <1>5, <1>6 DEF A

(* What may stand where c stood: all but the letters of the alphabet stays.*)
Standing(c, w, k) ==
    /\ Len(w) = Len(c)
    /\ \A i \in 1..Len(c) : w[i] = c[i] \/ (c[i] \in AlphabetOf(k) /\ w[i] \in AlphabetOf(k))

(* A value u that is cut as v is, with w where v has its core.             *)
CutAlike(u, v, w, k) ==
    /\ Extract_(u, k).prefix = Extract_(v, k).prefix
    /\ Extract_(u, k).suffix = Extract_(v, k).suffix
    /\ Core(u, k) = w
    /\ Len(u) = Len(v)
    /\ \A i \in 1..Len(v) : LowerOf(v[i]) \notin ToSet(Digits \o Lower) => u[i] = v[i]

(* A value with w in the place of its core.                                *)
AroundInner(v, w, k) == Extract_(v, k).prefix \o w \o Extract_(v, k).suffix

(* What the folding of a case leaves alone.                                *)
LEMMA Folding ==
    /\ \A c : LowerOf(c) \notin ToSet(Digits \o Lower) => /\ LowerOf(c) = c
                                                          /\ \A k \in TokenKinds : c \notin AlphabetOf(k)
    /\ \A c : LowerOf(LowerOf(c)) = LowerOf(c) /\ UpperOf(UpperOf(c)) = UpperOf(c)
    /\ \A c : LowerOf(c) = "@" <=> c = "@"
    /\ \A c : IsLetter(c) => IsLetter(UpperOf(c)) /\ LowerOf(c) \in ToSet(Digits \o Lower)
    /\ \A k \in {"email", "iban"} : \A c \in AlphabetOf(k) : LowerOf(c) = c /\ c # "@"
    /\ \A c \in Symbols : LowerOf(c) \in Symbols /\ UpperOf(c) \in Symbols
    /\ \A k \in TokenKinds : AlphabetOf(k) \subseteq Symbols
<1>1. /\ \A c : LowerOf(c) = IF c = "A" THEN "a" ELSE IF c = "B" THEN "b" ELSE c
      /\ \A c : UpperOf(c) = IF c = "a" THEN "A" ELSE IF c = "b" THEN "B" ELSE c
      /\ \A c : IsLetter(c) <=> c \in {"a", "b", "A", "B"}
      /\ ToSet(Digits \o Lower) = {"1", "2", "a", "b"}
    BY Cases, Signs
<1>2. \A k \in {"email", "iban"} : AlphabetOf(k) = {"1", "2", "a", "b"}
    BY Alphabets DEF TokenKinds
<1>3. \A k \in TokenKinds : AlphabetOf(k) \subseteq Symbols
    BY Alphabets DEF TokenKinds, Symbols
<1>4. \A c : LowerOf(c) \notin ToSet(Digits \o Lower) => LowerOf(c) = c /\ c \notin Symbols
    BY <1>1 DEF Symbols
<1>5. \A c : LowerOf(LowerOf(c)) = LowerOf(c) /\ UpperOf(UpperOf(c)) = UpperOf(c)
    BY <1>1
<1>6. \A c : LowerOf(c) = "@" <=> c = "@"
    BY <1>1
<1>7. \A c : IsLetter(c) => IsLetter(UpperOf(c)) /\ LowerOf(c) \in ToSet(Digits \o Lower)
    BY <1>1
<1>8. \A c \in Symbols : LowerOf(c) \in Symbols /\ UpperOf(c) \in Symbols
    BY <1>1 DEF Symbols
<1>9. \A k \in {"email", "iban"} : \A c \in AlphabetOf(k) : LowerOf(c) = c /\ c # "@"
    BY <1>1, <1>2
<1> QED BY <1>3, <1>4, <1>5, <1>6, <1>7, <1>8, <1>9

(* A folded sequence.                                                      *)
LEMMA FoldedElements ==
    ASSUME NEW X, Symbols \subseteq X, NEW s \in Seq(X)
    PROVE  /\ LowerCased(s) \in Seq(X) /\ Len(LowerCased(s)) = Len(s)
           /\ \A i \in 1..Len(s) : LowerCased(s)[i] = LowerOf(s[i])
           /\ UpperCased(s) \in Seq(X) /\ Len(UpperCased(s)) = Len(s)
           /\ \A i \in 1..Len(s) : UpperCased(s)[i] = UpperOf(s[i])
           /\ (\A i \in 1..Len(s) : LowerOf(s[i]) = s[i]) => LowerCased(s) = s
           /\ (\A i \in 1..Len(s) : UpperOf(s[i]) = s[i]) => UpperCased(s) = s
<1>1. Len(s) \in Nat /\ \A i \in 1..Len(s) : s[i] \in X
    OBVIOUS
<1>2. \A c \in X : LowerOf(c) \in X /\ UpperOf(c) \in X
    <2>1. \A c : LowerOf(c) = c \/ c \in Symbols
        BY Cases DEF Symbols
    <2>2. \A c : UpperOf(c) = c \/ c \in Symbols
        BY Cases DEF Symbols
    <2> QED BY <2>1, <2>2, Folding
<1>3. \A i \in 1..Len(s) : LowerOf(s[i]) \in X /\ UpperOf(s[i]) \in X
    BY <1>1, <1>2
<1>4. LowerCased(s) = [i \in 1..Len(s) |-> LowerOf(s[i])] /\ UpperCased(s) = [i \in 1..Len(s) |-> UpperOf(s[i])]
    BY DEF LowerCased, UpperCased
<1>5. /\ LowerCased(s) \in Seq(X) /\ Len(LowerCased(s)) = Len(s)
      /\ \A i \in 1..Len(s) : LowerCased(s)[i] = LowerOf(s[i])
    BY <1>1, <1>3, <1>4
<1>6. /\ UpperCased(s) \in Seq(X) /\ Len(UpperCased(s)) = Len(s)
      /\ \A i \in 1..Len(s) : UpperCased(s)[i] = UpperOf(s[i])
    BY <1>1, <1>3, <1>4
<1>7. (\A i \in 1..Len(s) : LowerOf(s[i]) = s[i]) => LowerCased(s) = s
    BY <1>5, SameSequence
<1>8. (\A i \in 1..Len(s) : UpperOf(s[i]) = s[i]) => UpperCased(s) = s
    BY <1>6, SameSequence
<1> QED BY <1>5, <1>6, <1>7, <1>8

(* A value that is encrypted as a whole.                                   *)
LEMMA WholeReplaced ==
    ASSUME NEW X, NEW k \in {"card", "api_key"}, NEW v \in Seq(X), NEW w \in Seq(X), Standing(Core(v, k), w, k)
    PROVE  /\ CutAlike(AroundInner(v, w, k), v, w, k) /\ AroundInner(v, w, k) \in Seq(X)
<1>1. \A s : Extract_(s, k) = [core |-> s, prefix |-> <<>>, suffix |-> <<>>]
    BY DEF Extract_
<1>2. \A s : Extract_(s, k).core = s /\ Extract_(s, k).prefix = <<>> /\ Extract_(s, k).suffix = <<>>
    BY <1>1
<1>3. \A s : Core(s, k) = s
    BY <1>2 DEF Core, Folded
<1>4. AroundInner(v, w, k) = w
    <2>1. <<>> \o w \o <<>> = w
        OBVIOUS
    <2> QED BY <1>2, <2>1 DEF AroundInner
<1>5. k \in TokenKinds
    BY DEF TokenKinds
<1>6. \A i \in 1..Len(v) : LowerOf(v[i]) \notin ToSet(Digits \o Lower) => w[i] = v[i]
    BY <1>3, <1>5, Folding DEF Standing
<1>7. Len(w) = Len(v) /\ Len(v) \in Nat
    BY <1>3 DEF Standing
<1>8. CutAlike(w, v, w, k)
    BY <1>2, <1>3, <1>6, <1>7 DEF CutAlike
<1> QED BY <1>4, <1>8

(* An address, cut at its first @.                                         *)
LEMMA EmailReplaced ==
    ASSUME NEW X, Symbols \subseteq X, NEW k, k = "email", NEW v \in Seq(X), "@" \in ToSet(v),
           NEW w \in Seq(X), Standing(Core(v, k), w, k)
    PROVE  /\ CutAlike(AroundInner(v, w, k), v, w, k) /\ AroundInner(v, w, k) \in Seq(X)
<1> DEFINE p == IndexOf(v, "@")
           q == SubSeq(v, 1, p - 1)
           t == SubSeq(v, p, Len(v))
           c == Core(v, k)
           u == w \o t
<1>1. /\ p \in 1..Len(v) /\ v[p] = "@" /\ \A i \in 1..Len(v) : v[i] = "@" => p <= i
    BY IndexOfIs
<1>2. Extract_(v, k).prefix = <<>> /\ Extract_(v, k).suffix = t /\ Extract_(v, k).core = q
    BY DEF Extract_
<1> HIDE DEF p
<1>3. Len(v) \in Nat /\ p \in Nat /\ p - 1 \in Nat /\ 1 <= p /\ p <= Len(v)
    BY <1>1
<1>4. q \in Seq(X) /\ Len(q) = p - 1 /\ \A i \in 1..p - 1 : q[i] = v[i]
    BY <1>3
<1>5. t \in Seq(X) /\ Len(t) = Len(v) + 1 - p /\ \A i \in 1..Len(v) + 1 - p : t[i] = v[p + i - 1]
    BY <1>3
<1> HIDE DEF q, t
<1>6. c = LowerCased(q)
    BY <1>2 DEF Core, Folded
<1>7. c \in Seq(X) /\ Len(c) = p - 1 /\ \A i \in 1..p - 1 : c[i] = LowerOf(v[i])
    BY <1>4, <1>6, FoldedElements
<1>8. Len(w) = p - 1 /\ \A i \in 1..p - 1 : w[i] = LowerOf(v[i]) \/ w[i] \in AlphabetOf(k)
    BY <1>7 DEF Standing
<1>9. \A i \in 1..p - 1 : w[i] # "@" /\ LowerOf(w[i]) = w[i]
    <2> TAKE i \in 1..p - 1
    <2>1. i \in 1..Len(v) /\ ~(p <= i)
        BY <1>3
    <2>2. v[i] # "@"
        BY <1>1, <2>1
    <2>3. CASE w[i] = LowerOf(v[i])
        BY <2>2, <2>3, Folding
    <2>4. CASE w[i] \in AlphabetOf(k)
        BY <2>4, Folding
    <2> QED BY <1>8, <2>3, <2>4
<1>10. AroundInner(v, w, k) = u
    <2>1. <<>> \o w \o t = u
        BY <1>5
    <2> QED BY <1>2, <2>1 DEF AroundInner
<1>11. /\ u \in Seq(X) /\ Len(u) = Len(v)
       /\ \A i \in 1..p - 1 : u[i] = w[i]
       /\ \A i \in 1..Len(v) + 1 - p : u[p - 1 + i] = t[i]
    <2>1. /\ u \in Seq(X) /\ Len(u) = Len(w) + Len(t)
          /\ \A i \in 1..Len(w) : u[i] = w[i]
          /\ \A i \in 1..Len(t) : u[Len(w) + i] = t[i]
        <3>1. t \in Seq(X)
            BY <1>5
        <3> QED BY <3>1, ConcatElements
    <2> QED BY <2>1, <1>3, <1>5, <1>8
<1>12. SubSeq(u, 1, p - 1) = w /\ SubSeq(u, p, Len(u)) = t
    <2>1. SubSeq(u, 1, Len(w)) = w /\ SubSeq(u, Len(w) + 1, Len(u)) = t
        BY <1>5, JoinedParts
    <2>2. Len(w) + 1 = p
        BY <1>3, <1>8
    <2> QED BY <1>8, <2>1, <2>2
<1> HIDE DEF u
<1>13. u[p] = "@"
    <2>1. 1 \in 1..Len(v) + 1 - p /\ p - 1 + 1 = p /\ p + 1 - 1 = p
        BY <1>3
    <2>2. u[p] = t[1] /\ t[1] = v[p]
        BY <1>5, <1>11, <2>1
    <2> QED BY <1>1, <2>2
<1>14. "@" \in ToSet(u)
    <2>1. p \in 1..Len(u)
        BY <1>1, <1>11
    <2> QED BY <1>11, <1>13, <2>1, ToSetElements
<1>15. IndexOf(u, "@") = p
    <2> DEFINE r == IndexOf(u, "@")
    <2>1. r \in 1..Len(u) /\ u[r] = "@" /\ \A i \in 1..Len(u) : u[i] = "@" => r <= i
        BY <1>11, <1>14, IndexOfIs
    <2> HIDE DEF r
    <2>2. r <= p
        BY <2>1, <1>1, <1>11, <1>13
    <2>3. ~(r <= p - 1)
        <3> SUFFICES ASSUME r <= p - 1 PROVE FALSE
            OBVIOUS
        <3>1. r \in 1..p - 1
            BY <2>1, <1>3
        <3> QED BY <3>1, <2>1, <1>9, <1>11
    <2>4. r = p
        BY <2>1, <2>2, <2>3, <1>3
    <2> QED BY <2>4 DEF r
<1>16. Extract_(u, k).prefix = <<>> /\ Extract_(u, k).suffix = t /\ Extract_(u, k).core = w
    BY <1>12, <1>14, <1>15 DEF Extract_
<1>17. LowerCased(w) = w
    BY <1>8, <1>9, FoldedElements
<1>18. Core(u, k) = w
    BY <1>16, <1>17 DEF Core, Folded
<1>19. ASSUME NEW i \in 1..Len(v), LowerOf(v[i]) \notin ToSet(Digits \o Lower) PROVE u[i] = v[i]
    <2>1. CASE i \in 1..p - 1
        <3>1. LowerOf(v[i]) = v[i] /\ v[i] \notin AlphabetOf(k)
            BY <1>19, Folding DEF TokenKinds
        <3>2. w[i] = c[i] \/ c[i] \in AlphabetOf(k)
            BY <2>1, <1>7 DEF Standing
        <3> QED BY <3>1, <3>2, <2>1, <1>7, <1>11
    <2>2. CASE i \notin 1..p - 1
        <3>1. i + 1 - p \in 1..Len(v) + 1 - p /\ (p - 1) + (i + 1 - p) = i /\ p + (i + 1 - p) - 1 = i
            BY <2>2, <1>3
        <3> QED BY <3>1, <1>5, <1>11
    <2> QED BY <2>1, <2>2
<1>20. CutAlike(u, v, w, k)
    BY <1>2, <1>11, <1>16, <1>18, <1>19 DEF CutAlike
<1> QED BY <1>10, <1>11, <1>20

(* An IBAN, without its country.                                           *)
LEMMA IbanReplaced ==
    ASSUME NEW X, Symbols \subseteq X, NEW k, k = "iban", NEW v \in Seq(X),
           Len(v) >= 2, IsLetter(v[1]), IsLetter(v[2]),
           NEW w \in Seq(X), Standing(Core(v, k), w, k)
    PROVE  /\ CutAlike(AroundInner(v, w, k), v, w, k) /\ AroundInner(v, w, k) \in Seq(X)
<1> DEFINE a == SubSeq(v, 1, 2)
           p == UpperCased(a)
           q == SubSeq(v, 3, Len(v))
           c == Core(v, k)
           u == p \o w
<1>1. Extract_(v, k).prefix = p /\ Extract_(v, k).suffix = <<>> /\ Extract_(v, k).core = q
    BY DEF Extract_
<1>2. Len(v) \in Nat /\ 1 \in 1..2 /\ 2 \in 1..2
    OBVIOUS
<1>3. a \in Seq(X) /\ Len(a) = 2 /\ a[1] = v[1] /\ a[2] = v[2]
    BY <1>2
<1>4. q \in Seq(X) /\ Len(q) = Len(v) - 2 /\ \A i \in 1..Len(v) - 2 : q[i] = v[2 + i]
    <2>1. 2 \in 0..Len(v) /\ 2 + 1 = 3
        BY <1>2
    <2>2. /\ SubSeq(v, 2 + 1, Len(v)) \in Seq(X) /\ Len(SubSeq(v, 2 + 1, Len(v))) = Len(v) - 2
          /\ \A i \in 1..Len(v) - 2 : SubSeq(v, 2 + 1, Len(v))[i] = v[2 + i]
        BY <2>1, SuffixElements
    <2> HIDE DEF q
    <2>3. q = SubSeq(v, 2 + 1, Len(v))
        BY <2>1 DEF q
    <2> QED BY <2>2, <2>3
<1> HIDE DEF a, q
<1>5. p \in Seq(X) /\ Len(p) = 2 /\ p[1] = UpperOf(v[1]) /\ p[2] = UpperOf(v[2])
    <2>1. p \in Seq(X) /\ Len(p) = Len(a) /\ \A i \in 1..Len(a) : p[i] = UpperOf(a[i])
        BY <1>3, FoldedElements
    <2>2. 1 \in 1..Len(a) /\ 2 \in 1..Len(a)
        BY <1>3
    <2> HIDE DEF p
    <2> QED BY <1>3, <2>1, <2>2
<1> HIDE DEF p
<1>6. c = LowerCased(q)
    BY <1>1 DEF Core, Folded
<1>7. c \in Seq(X) /\ Len(c) = Len(v) - 2 /\ \A i \in 1..Len(v) - 2 : c[i] = LowerOf(v[2 + i])
    BY <1>4, <1>6, FoldedElements
<1>8. Len(w) = Len(v) - 2 /\ \A i \in 1..Len(v) - 2 : w[i] = LowerOf(v[2 + i]) \/ w[i] \in AlphabetOf(k)
    BY <1>7 DEF Standing
<1>9. \A i \in 1..Len(w) : LowerOf(w[i]) = w[i]
    BY <1>8, Folding
<1>10. AroundInner(v, w, k) = u
    <2>1. p \o w \in Seq(X)
        BY <1>5, ConcatElements
    <2>2. (p \o w) \o <<>> = p \o w
        BY <2>1
    <2> QED BY <1>1, <2>2 DEF AroundInner
<1>11. /\ u \in Seq(X) /\ Len(u) = Len(v)
       /\ u[1] = p[1] /\ u[2] = p[2]
       /\ \A i \in 1..Len(v) - 2 : u[2 + i] = w[i]
    <2>1. /\ u \in Seq(X) /\ Len(u) = Len(p) + Len(w)
          /\ \A i \in 1..Len(p) : u[i] = p[i]
          /\ \A i \in 1..Len(w) : u[Len(p) + i] = w[i]
        <3>1. p \in Seq(X)
            BY <1>5
        <3> QED BY <3>1, ConcatElements
    <2> QED BY <2>1, <1>2, <1>5, <1>8
<1>12. SubSeq(u, 1, 2) = p /\ SubSeq(u, 3, Len(u)) = w
    <2>1. SubSeq(u, 1, Len(p)) = p /\ SubSeq(u, Len(p) + 1, Len(u)) = w
        BY <1>5, JoinedParts
    <2>2. Len(p) + 1 = 3
        BY <1>5
    <2> QED BY <1>5, <2>1, <2>2
<1> HIDE DEF u
<1>13. Len(u) >= 2 /\ IsLetter(u[1]) /\ IsLetter(u[2])
    BY <1>5, <1>11, Folding
<1>14. UpperCased(p) = p
    <2>1. \A i \in 1..Len(p) : i = 1 \/ i = 2
        BY <1>5
    <2>2. \A i \in 1..Len(p) : UpperOf(p[i]) = p[i]
        BY <2>1, <1>5, Folding
    <2> QED BY <1>5, <2>2, FoldedElements
<1>16. Extract_(u, k).prefix = p /\ Extract_(u, k).suffix = <<>> /\ Extract_(u, k).core = w
    BY <1>12, <1>13, <1>14 DEF Extract_
<1>17. LowerCased(w) = w
    BY <1>9, FoldedElements
<1>18. Core(u, k) = w
    BY <1>16, <1>17 DEF Core, Folded
<1>19. ASSUME NEW i \in 1..Len(v), LowerOf(v[i]) \notin ToSet(Digits \o Lower) PROVE u[i] = v[i]
    <2>1. i # 1 /\ i # 2
        BY <1>19, Folding
    <2>2. i - 2 \in 1..Len(v) - 2 /\ 2 + (i - 2) = i
        BY <2>1, <1>2
    <2>3. LowerOf(v[i]) = v[i] /\ v[i] \notin AlphabetOf(k)
        BY <1>19, Folding DEF TokenKinds
    <2>4. u[i] = w[i - 2] /\ c[i - 2] = v[i]
        BY <2>2, <2>3, <1>7, <1>11
    <2>5. w[i - 2] = c[i - 2] \/ c[i - 2] \in AlphabetOf(k)
        BY <2>2, <1>7 DEF Standing
    <2> QED BY <2>3, <2>4, <2>5
<1>20. CutAlike(u, v, w, k)
    BY <1>1, <1>11, <1>16, <1>18, <1>19 DEF CutAlike
<1> QED BY <1>10, <1>11, <1>20

(* The part that is encrypted.                                             *)
LEMMA CoreIs ==
    ASSUME NEW X, Symbols \subseteq X, NEW k \in TokenKinds, NEW v \in Seq(X), Plausible(v, k)
    PROVE  Core(v, k) \in Seq(X) /\ Len(Core(v, k)) <= Len(v)
<1> DEFINE q == Extract_(v, k).core
<1>1. Len(v) \in Nat
    OBVIOUS
<1>2. q \in Seq(X) /\ Len(q) <= Len(v)
    <2>1. CASE k = "email"
        <3> DEFINE p == IndexOf(v, "@")
        <3>1. "@" \in ToSet(v)
            BY <2>1 DEF Plausible
        <3>2. p \in 1..Len(v)
            BY <3>1, IndexOfIs
        <3>3. q = SubSeq(v, 1, p - 1)
            BY <2>1, <3>1 DEF Extract_
        <3> HIDE DEF p
        <3>4. SubSeq(v, 1, p - 1) \in Seq(X) /\ Len(SubSeq(v, 1, p - 1)) <= Len(v)
            BY <1>1, <3>2
        <3> QED BY <3>3, <3>4
    <2>2. CASE k = "iban"
        <3>1. q = SubSeq(v, 3, Len(v)) /\ Len(v) >= 2
            BY <2>2 DEF Extract_, Plausible
        <3>2. SubSeq(v, 3, Len(v)) \in Seq(X) /\ Len(SubSeq(v, 3, Len(v))) <= Len(v)
            <4>1. 2 \in 0..Len(v) /\ 2 + 1 = 3
                BY <1>1, <3>1
            <4>2. SubSeq(v, 2 + 1, Len(v)) \in Seq(X) /\ Len(SubSeq(v, 2 + 1, Len(v))) = Len(v) - 2
                BY <4>1, SuffixElements
            <4>3. Len(v) - 2 <= Len(v)
                BY <1>1
            <4> QED BY <4>1, <4>2, <4>3
        <3> QED BY <3>1, <3>2
    <2>3. CASE k \in {"card", "api_key"}
        <3>1. q = v
            BY <2>3 DEF Extract_
        <3> QED BY <3>1, <1>1
    <2> QED BY <2>1, <2>2, <2>3 DEF TokenKinds
<1>3. Core(v, k) = q \/ Core(v, k) = LowerCased(q)
    BY DEF Core
<1> HIDE DEF q
<1> QED BY <1>2, <1>3, FoldedElements

(* A value of any kind.                                                    *)
LEMMA ValueReplaced ==
    ASSUME NEW X, Symbols \subseteq X, NEW k \in TokenKinds, NEW v \in Seq(X), Plausible(v, k),
           NEW w \in Seq(X), Standing(Core(v, k), w, k)
    PROVE  CutAlike(AroundInner(v, w, k), v, w, k)
<1>1. CASE k = "email"
    BY <1>1, EmailReplaced DEF Plausible
<1>2. CASE k = "iban"
    BY <1>2, IbanReplaced DEF Plausible
<1>3. CASE k \in {"card", "api_key"}
    BY <1>3, WholeReplaced
<1> QED BY <1>1, <1>2, <1>3 DEF TokenKinds

(* A token and what is made of it.                                         *)
Sealed(v, k, t)  == Rebuilt(v, k, Ff1(Inner(v, k), Len(Alphabet[k]), t))
OpenedBy(u, k, t)  == Rebuilt(u, k, Ff1Inv(Inner(u, k), Len(Alphabet[k]), t))
ValueOf(v, k)    == Extract_(v, k).prefix \o Core(v, k) \o Extract_(v, k).suffix
Value(v, k)      == v \in Seq(Characters) /\ Len(v) <= MaxValue /\ Plausible(v, k)

(* The way there and back.                                                 *)
LEMMA SealedAndOpened ==
    ASSUME NEW k \in TokenKinds, NEW t \in Tweaks, NEW v, Value(v, k)
    PROVE  /\ OpenedBy(Sealed(v, k, t), k, t) = ValueOf(v, k)
           /\ Len(Sealed(v, k, t)) = Len(v)
           /\ \A i \in 1..Len(v) : LowerOf(v[i]) \notin ToSet(Digits \o Lower) => Sealed(v, k, t)[i] = v[i]
<1> DEFINE X == Characters \cup Symbols
           c == Core(v, k)
           b == Naked(c, k)
           seps == Separators(c, k)
           r == Len(Alphabet[k])
           ns == Numerals(b, k)
           fs == Ff1(ns, r, t)
           d == Letters(fs, k)
           w == ApplyTemplate(d, seps)
           u == Sealed(v, k, t)
<1>1. v \in Seq(X) /\ Len(v) <= MaxValue /\ Len(v) \in Nat /\ Plausible(v, k)
    BY DEF Value
<1>2. Symbols \subseteq X
    OBVIOUS
<1> HIDE DEF X
<1>3. c \in Seq(X) /\ Len(c) <= Len(v)
    BY <1>1, <1>2, CoreIs
<1>4. AlphabetOf(k) \subseteq X
    BY <1>2, Folding
<1> HIDE DEF c
<1>5. b \in Seq(AlphabetOf(k))
    <2>1. b \in Seq(X \cap AlphabetOf(k))
        BY <1>3, ThoseElements DEF Naked, AlphabetOf
    <2> HIDE DEF b
    <2> QED BY <2>1, ElementsOf
<1>6. Weaves(c, k, X)
    BY <1>3, <1>4, AllWeave
<1>7. Woven(c, b, k, X)
    <2> HIDE DEF b
    <2> QED BY <1>5, <1>6 DEF Weaves, b
<1>8. ApplyTemplate(b, seps) = c /\ Len(b) + Len(seps) = Len(c)
    BY <1>7 DEF Woven
<1>9. Len(seps) \in Nat /\ Len(b) \in Nat
    <2>1. seps \in Seq(Separated(X))
        BY <1>3, SeparatorsAre
    <2> HIDE DEF seps, b
    <2> QED BY <2>1, <1>5
<1> HIDE DEF b, seps
<1>10. ns \in NumeralSeqs(k, Len(b)) /\ Letters(ns, k) = b
    BY <1>5, NumeralsAndLetters
<1>11. Len(b) \in 0..MaxValue
    <2>1. Len(c) \in Nat /\ MaxValue \in Nat
        BY <1>3, ValueAssumption
    <2> QED BY <2>1, <1>1, <1>3, <1>8, <1>9
<1> HIDE DEF ns
<1>12. fs \in NumeralSeqs(k, Len(b)) /\ Ff1Inv(fs, r, t) = ns
    BY <1>10, <1>11, Ff1Assumption
<1> HIDE DEF fs, r
<1>13. d \in Seq(AlphabetOf(k)) /\ Len(d) = Len(b) /\ Numerals(d, k) = fs
    BY <1>9, <1>12, NumeralsAndLetters
<1> HIDE DEF d
<1>14. Woven(c, d, k, X)
    BY <1>6, <1>13 DEF Weaves, b
<1>15. /\ w \in Seq(X) /\ Len(w) = Len(c) /\ Naked(w, k) = d /\ Separators(w, k) = seps
       /\ \A i \in 1..Len(c) : w[i] = c[i] \/ (c[i] \in AlphabetOf(k) /\ w[i] \in AlphabetOf(k))
    BY <1>14 DEF Woven, seps
<1> HIDE DEF w
<1>16. u = AroundInner(v, w, k)
    BY DEF Sealed, Rebuilt, Inner, AroundInner, c, b, seps, r, ns, fs, d, w
<1> HIDE DEF u
<1>17. CutAlike(u, v, w, k)
    <2>1. Standing(Core(v, k), w, k)
        BY <1>15 DEF Standing, c
    <2> QED BY <1>1, <1>2, <1>15, <1>16, <2>1, ValueReplaced
<1>18. Inner(u, k) = fs
    BY <1>13, <1>15, <1>17 DEF Inner, CutAlike
<1>19. OpenedBy(u, k, t) = Rebuilt(u, k, ns)
    BY <1>12, <1>18 DEF OpenedBy, r
<1>20. Rebuilt(u, k, ns) = ValueOf(v, k)
    BY <1>8, <1>10, <1>15, <1>17 DEF Rebuilt, ValueOf, CutAlike, c
<1> QED BY <1>17, <1>19, <1>20 DEF CutAlike, u

(* A token is what its value was sealed to, and opened what it is opened. *)
FpeInv ==
    /\ kind \in TokenKinds /\ tweak \in Tweaks /\ Value(plain, kind)
    /\ fpeStep \in {"raw", "sealed", "opened", "refused"}
    /\ fpeStep \in {"sealed", "opened"} => token = Sealed(plain, kind, tweak)
    /\ fpeStep = "opened" => opened = OpenedBy(token, kind, tweak)

(* The invariant says all that is to be shown.                             *)
LEMMA FpeInvTells == FpeInv => TokenTellsValue /\ FpeTypeOK
<1> SUFFICES ASSUME FpeInv PROVE TokenTellsValue /\ FpeTypeOK
    OBVIOUS
<1>1. kind \in TokenKinds /\ tweak \in Tweaks /\ Value(plain, kind)
    BY DEF FpeInv
<1> DEFINE u == Sealed(plain, kind, tweak)
<1>2. /\ OpenedBy(u, kind, tweak) = ValueOf(plain, kind)
      /\ Len(u) = Len(plain)
      /\ \A i \in 1..Len(plain) : LowerOf(plain[i]) \notin ToSet(Digits \o Lower) => u[i] = plain[i]
    BY <1>1, SealedAndOpened
<1> HIDE DEF u
<1>3. /\ fpeStep \in {"sealed", "opened"} => token = u
      /\ fpeStep = "opened" => opened = OpenedBy(token, kind, tweak)
      /\ fpeStep \in {"raw", "sealed", "opened", "refused"}
    BY DEF FpeInv, u
<1>4. Canonical = ValueOf(plain, kind)
    BY DEF Canonical, ValueOf
<1>5. TokenTellsValue
    BY <1>2, <1>3, <1>4 DEF TokenTellsValue
<1>6. FpeTypeOK
    BY <1>1, <1>2, <1>3 DEF FpeTypeOK
<1> QED BY <1>5, <1>6

(* It holds at first.                                                      *)
LEMMA FpeInvInit == FpeInit => FpeInv
<1> SUFFICES ASSUME FpeInit PROVE FpeInv
    OBVIOUS
<1>1. kind \in TokenKinds /\ tweak \in Tweaks /\ fpeStep = "raw"
    BY DEF FpeInit
<1>2. plain \in BoundedSeq(Characters, MaxValue) /\ Plausible(plain, kind)
    BY DEF FpeInit
<1>3. plain \in Seq(Characters) /\ Len(plain) <= MaxValue
    BY <1>2, ValueAssumption, BoundedSeqIs
<1> QED BY <1>1, <1>2, <1>3 DEF FpeInv, Value

(* Both steps keep it.                                                     *)
LEMMA FpeInvNext == FpeInv /\ [FpeNext]_fpeVars => FpeInv'
<1> SUFFICES ASSUME FpeInv, [FpeNext]_fpeVars PROVE FpeInv'
    OBVIOUS
<1>1. CASE EncryptMatch
    <2>1. kind' = kind /\ plain' = plain /\ tweak' = tweak /\ opened' = opened
        BY <1>1 DEF EncryptMatch
    <2>2. \/ fpeStep' = "refused"
          \/ fpeStep' = "sealed" /\ token' = Sealed(plain, kind, tweak)
        BY <1>1 DEF EncryptMatch, Sealed
    <2> QED BY <2>1, <2>2 DEF FpeInv
<1>2. CASE DecryptValue
    <2>1. /\ kind' = kind /\ plain' = plain /\ tweak' = tweak /\ token' = token
          /\ fpeStep = "sealed" /\ fpeStep' = "opened" /\ opened' = OpenedBy(token, kind, tweak)
        BY <1>2 DEF DecryptValue, OpenedBy
    <2> QED BY <2>1 DEF FpeInv
<1>3. CASE UNCHANGED fpeVars
    BY <1>3 DEF FpeInv, fpeVars
<1> QED BY <1>1, <1>2, <1>3 DEF FpeNext

(* A token keeps the length and the separators of its value and leads back *)
(* to it, for every cipher that has an inverse, every set of characters    *)
(* and every length (encrypt_match, decrypt_value, FormatTemplate).        *)
THEOREM TokensTellValues == FpeSpec => []TokenTellsValue
<1>1. FpeInit => FpeInv
    BY FpeInvInit
<1>2. FpeInv /\ [FpeNext]_fpeVars => FpeInv'
    BY FpeInvNext
<1>3. FpeInv => TokenTellsValue
    BY FpeInvTells
<1> QED BY <1>1, <1>2, <1>3, PTL DEF FpeSpec

-----------------------------------------------------------------------------
(* The detectors that need no model.                                      *)

(* A match of the patterns has some length.                                *)
LEMMA HitIs ==
    ASSUME NEW m \in Hits
    PROVE  /\ m.from \in Nat /\ m.to \in Nat /\ m.from < m.to /\ Touch(m, m)
           /\ m = Span(m.from, m.to)
BY TermAssumption DEF Hits, Touch, Span

(* The matches begin one after the other, or together.                     *)
ByStart(s) == \A i, j \in 1..Len(s) : i < j => s[i].from <= s[j].from
HitsInOrder == {s \in Seq(Hits) : ByStart(s)}

(* A match has a place in an ordered sequence.                             *)
LEMMA PlaceForIs ==
    ASSUME NEW m \in Hits, NEW s \in Seq(Hits)
    PROVE  PlaceFor(m, s) \in 0..Len(s) /\ GoesBehind(PlaceFor(m, s), m, s)
<1> DEFINE B == {j \in 1..Len(s) : Precedes(m, s[j])}
<1>1. Len(s) \in Nat
    OBVIOUS
<1>2. \E k \in 0..Len(s) : GoesBehind(k, m, s)
    <2>1. CASE B = {}
        BY <2>1, <1>1 DEF GoesBehind
    <2>2. CASE B # {}
        <3>1. PICK b \in B : \A x \in B : b <= x
            <4>1. B \in SUBSET (1..Len(s))
                OBVIOUS
            <4> HIDE DEF B
            <4> QED BY <4>1, <1>1, <2>2, LeastExists
        <3>2. b \in 1..Len(s) /\ b - 1 \in 0..Len(s) /\ (b - 1) + 1 = b /\ Precedes(m, s[b])
            BY <3>1, <1>1
        <3>3. ASSUME NEW j \in 1..b - 1 PROVE ~Precedes(m, s[j])
            <4>1. j \in 1..Len(s) /\ ~(b <= j)
                BY <3>2, <1>1
            <4> QED BY <4>1, <3>1
        <3> QED BY <3>2, <3>3 DEF GoesBehind
    <2> QED BY <2>1, <2>2
<1> QED BY <1>2 DEF PlaceFor

(* An insertion at its place keeps the order.                              *)
LEMMA InsertedInOrder ==
    ASSUME NEW m \in Hits, NEW s \in HitsInOrder
    PROVE  /\ InsertAt(s, PlaceFor(m, s) + 1, m) \in HitsInOrder
           /\ ToSet(InsertAt(s, PlaceFor(m, s) + 1, m)) = ToSet(s) \cup {m}
<1> DEFINE k == PlaceFor(m, s)
           t == InsertAt(s, k + 1, m)
           N == Len(s)
<1>1. s \in Seq(Hits) /\ ByStart(s) /\ N \in Nat
    BY DEF HitsInOrder
<1>2. /\ k \in 0..N
      /\ \A j \in 1..k : ~Precedes(m, s[j])
      /\ k < N => Precedes(m, s[k + 1])
    BY <1>1, PlaceForIs DEF GoesBehind
<1> HIDE DEF k
<1>3. /\ t \in Seq(Hits) /\ Len(t) = N + 1
      /\ \A j \in 1..k : t[j] = s[j]
      /\ t[k + 1] = m
      /\ \A j \in k + 2..N + 1 : t[j] = s[j - 1]
      /\ ToSet(t) = ToSet(s) \cup {m}
    <2>1. t \in Seq(Hits) /\ PutBehind(t, s, m, k)
        BY <1>1, <1>2, InsertedElements
    <2> QED BY <2>1 DEF PutBehind
<1> HIDE DEF t
<1>4. m.from \in Nat /\ \A j \in 1..N : s[j] \in Hits /\ s[j].from \in Nat
    BY <1>1, HitIs
<1>5. \A i, j \in 1..N : i < j => s[i].from <= s[j].from
    BY <1>1 DEF ByStart
<1> HIDE DEF N
<1>6. \A j \in 1..k : s[j].from <= m.from
    <2> SUFFICES ASSUME NEW j \in 1..k PROVE s[j].from <= m.from
        OBVIOUS
    <2>1. j \in 1..N
        BY <1>1, <1>2
    <2> QED BY <2>1, <1>2, <1>4 DEF Precedes
<1>7. \A j \in k + 1..N : m.from <= s[j].from
    <2> SUFFICES ASSUME NEW j \in k + 1..N PROVE m.from <= s[j].from
        OBVIOUS
    <2>1. k < N /\ k + 1 \in 1..N /\ j \in 1..N /\ (k + 1 = j \/ k + 1 < j)
        BY <1>1, <1>2
    <2>2. m.from <= s[k + 1].from
        BY <2>1, <1>2, <1>4 DEF Precedes
    <2>3. s[k + 1].from <= s[j].from
        BY <2>1, <1>4, <1>5
    <2> QED BY <2>1, <2>2, <2>3, <1>4
<1>8. ASSUME NEW i \in 1..N + 1, NEW j \in 1..N + 1, i < j PROVE t[i].from <= t[j].from
    <2>1. CASE j <= k
        <3>1. i \in 1..k /\ j \in 1..k /\ i \in 1..N /\ j \in 1..N
            BY <1>1, <1>2, <1>8, <2>1
        <3> QED BY <3>1, <1>3, <1>5, <1>8
    <2>2. CASE j = k + 1
        <3>1. i \in 1..k
            BY <1>1, <1>2, <1>8, <2>2
        <3> QED BY <3>1, <2>2, <1>3, <1>6
    <2>3. CASE j > k + 1 /\ i <= k
        <3>1. i \in 1..k /\ j \in k + 2..N + 1 /\ j - 1 \in 1..N /\ i \in 1..N /\ i < j - 1
            BY <1>1, <1>2, <1>8, <2>3
        <3> QED BY <3>1, <1>3, <1>5
    <2>4. CASE j > k + 1 /\ i = k + 1
        <3>1. j \in k + 2..N + 1 /\ j - 1 \in k + 1..N
            BY <1>1, <1>2, <1>8, <2>4
        <3> QED BY <3>1, <2>4, <1>3, <1>7
    <2>5. CASE j > k + 1 /\ i > k + 1
        <3>1. i \in k + 2..N + 1 /\ j \in k + 2..N + 1 /\ i - 1 \in 1..N /\ j - 1 \in 1..N /\ i - 1 < j - 1
            BY <1>1, <1>2, <1>8, <2>5
        <3> QED BY <3>1, <1>3, <1>5
    <2> QED BY <2>1, <2>2, <2>3, <2>4, <2>5, <1>1, <1>2
<1>9. t \in HitsInOrder
    BY <1>3, <1>8 DEF HitsInOrder, ByStart
<1> QED BY <1>3, <1>9 DEF t, k

(* f has, at each number, that many of the matches in order.               *)
Sorts(f, ms) ==
    /\ \A n \in 0..Len(ms) : f[n] \in HitsInOrder
    /\ f[0] = <<>>
    /\ \A n \in 1..Len(ms) : f[n] = InsertAt(f[n - 1], PlaceFor(ms[n], f[n - 1]) + 1, ms[n])
    /\ Sorted(ms) = f[Len(ms)]

LEMMA SortsExist ==
    ASSUME NEW ms \in Seq(Hits)
    PROVE  \E f : Sorts(f, ms)
<1> DEFINE N    == Len(ms)
           base == <<>>
           Step(n, v) == InsertAt(v, PlaceFor(ms[n], v) + 1, ms[n])
           step == [p \in (0 + 1..N) \X HitsInOrder |-> Step(p[1], p[2])]
           F(f) == [n \in 0..N |-> IF n = 0 THEN base ELSE Step(n, f[n - 1])]
           f    == CHOOSE g : g = F(g)
<1>0. Sorted(ms) = f[N]
    BY DEF Sorted
<1>1. N \in Nat /\ N \in Int /\ 0 \in Int /\ 0 <= N
    OBVIOUS
<1>2. base \in HitsInOrder
    BY DEF HitsInOrder, ByStart
<1>3. ASSUME NEW n \in 1..N, NEW v \in HitsInOrder PROVE Step(n, v) \in HitsInOrder
    <2>1. ms[n] \in Hits
        BY <1>1
    <2> QED BY <2>1, InsertedInOrder
<1> HIDE DEF base, Step
<1>4. step \in [(0 + 1..N) \X HitsInOrder -> HitsInOrder]
    <2> HIDE DEF N
    <2>1. 0 + 1..N = 1..N
        BY <1>1
    <2> QED BY <2>1, <1>3
<1>5. PICK g \in [0..N -> HitsInOrder] : Recursion(g, 0, N, base, step)
    <2> HIDE DEF N, step, F, f
    <2> QED BY <1>1, <1>2, <1>4, RecursionExists
<1>6. g[0] = base
    BY <1>5 DEF Recursion
<1>7. ASSUME NEW n \in 1..N PROVE g[n] = Step(n, g[n - 1])
    <2>1. n \in 0 + 1..N /\ n - 1 \in 0..N
        BY <1>1
    <2>2. <<n, g[n - 1]>> \in (0 + 1..N) \X HitsInOrder /\ g[n] = step[<<n, g[n - 1]>>]
        <3> HIDE DEF step, N
        <3> QED BY <2>1, <1>5 DEF Recursion
    <2> HIDE DEF N
    <2>3. step[<<n, g[n - 1]>>] = Step(n, g[n - 1])
        BY <2>2
    <2> HIDE DEF step
    <2> QED BY <2>2, <2>3
<1>8. g = F(g)
    <2> HIDE DEF step, N
    <2>1. \A n \in 0..N : g[n] = F(g)[n]
        <3> SUFFICES ASSUME NEW n \in 0..N PROVE g[n] = F(g)[n]
            OBVIOUS
        <3>1. CASE n = 0
            BY <1>6, <3>1
        <3>2. CASE n # 0
            <4>1. n \in 1..N
                BY <1>1, <3>2
            <4> QED BY <1>7, <3>2, <4>1
        <3> HIDE DEF F
        <3> QED BY <3>1, <3>2
    <2> QED BY <1>5, <2>1
<1>9. f = F(f)
    <2> HIDE DEF F
    <2> QED BY <1>8
<1> HIDE DEF f
<1>10. f[0] = base
    <2> HIDE DEF N
    <2> QED BY <1>1, <1>9
<1>11. ASSUME NEW n \in 1..N PROVE f[n] = Step(n, f[n - 1])
    <2>1. n \in 0..N /\ n # 0
        BY <1>1
    <2> HIDE DEF N
    <2> QED BY <1>9, <2>1
<1>12. \A n \in 0..N : f[n] \in HitsInOrder
    <2> DEFINE T == {n \in 0..N : f[n] \in HitsInOrder}
    <2>1. 0 \in T
        <3> HIDE DEF N
        <3> QED BY <1>1, <1>2, <1>10
    <2>2. ASSUME NEW n \in 0..N - 1, n \in T PROVE n + 1 \in T
        <3>1. n + 1 \in 1..N /\ n + 1 \in 0..N /\ (n + 1) - 1 = n /\ f[n] \in HitsInOrder
            BY <2>2, <1>1
        <3> HIDE DEF N
        <3>2. f[n + 1] = Step(n + 1, f[n])
            BY <3>1, <1>11
        <3> QED BY <3>1, <3>2, <1>3
    <2>3. 0..N \subseteq T
        <3> HIDE DEF T, N
        <3> QED BY <1>1, <2>1, <2>2, IntervalInduction
    <2> QED BY <2>3
<1>13. Sorts(f, ms)
    BY <1>0, <1>10, <1>11, <1>12 DEF Sorts, Step, base
<1> QED BY <1>13

(* Sorting keeps what is sorted.                                           *)
LEMMA SortedIs ==
    ASSUME NEW ms \in Seq(Hits)
    PROVE  Sorted(ms) \in HitsInOrder /\ ToSet(Sorted(ms)) = ToSet(ms)
<1> DEFINE N == Len(ms)
<1>1. PICK f : Sorts(f, ms)
    BY SortsExist
<1>2. N \in Nat /\ N \in Int /\ 0 \in Int /\ \A n \in 1..N : ms[n] \in Hits
    OBVIOUS
<1>3. /\ \A n \in 0..N : f[n] \in HitsInOrder
      /\ f[0] = <<>> /\ Sorted(ms) = f[N]
      /\ \A n \in 1..N : f[n] = InsertAt(f[n - 1], PlaceFor(ms[n], f[n - 1]) + 1, ms[n])
    BY <1>1 DEF Sorts
<1> HIDE DEF N
<1> DEFINE T == {n \in 0..N : ToSet(f[n]) = {ms[j] : j \in 1..n}}
<1>4. 0 \in T
    <2>1. ToSet(f[0]) = {}
        BY <1>3 DEF ToSet
    <2> QED BY <2>1, <1>2
<1>5. ASSUME NEW n \in 0..N - 1, n \in T PROVE n + 1 \in T
    <2>1. n + 1 \in 1..N /\ n + 1 \in 0..N /\ (n + 1) - 1 = n /\ n \in 0..N
        BY <1>2
    <2>2. f[n] \in HitsInOrder /\ ms[n + 1] \in Hits
        BY <2>1, <1>2, <1>3
    <2>3. f[n + 1] = InsertAt(f[n], PlaceFor(ms[n + 1], f[n]) + 1, ms[n + 1])
        BY <2>1, <1>3
    <2>4. ToSet(f[n + 1]) = ToSet(f[n]) \cup {ms[n + 1]}
        BY <2>2, <2>3, InsertedInOrder
    <2>5. {ms[j] : j \in 1..n + 1} = {ms[j] : j \in 1..n} \cup {ms[n + 1]}
        <3>1. 1..n + 1 = (1..n) \cup {n + 1}
            BY <1>2
        <3> QED BY <3>1
    <2> QED BY <2>1, <2>4, <2>5, <1>5
<1>6. 0..N \subseteq T
    <2> HIDE DEF T
    <2> QED BY <1>2, <1>4, <1>5, IntervalInduction
<1>7. N \in 0..N /\ ToSet(ms) = {ms[j] : j \in 1..N}
    BY <1>2 DEF ToSet, N
<1> QED BY <1>3, <1>6, <1>7

(* What the pass over the matches has kept and where the last kept ends.   *)
Passes == [last : Nat, kept : SUBSET Hits]
PassOver(ms, n, v) ==
    IF ms[n].from >= v.last THEN [last |-> ms[n].to, kept |-> v.kept \cup {ms[n]}] ELSE v
Keeps(f, ms) ==
    /\ \A n \in 0..Len(ms) : f[n] \in Passes
    /\ f[0] = [last |-> 0, kept |-> {}]
    /\ \A n \in 1..Len(ms) : f[n] = PassOver(ms, n, f[n - 1])
    /\ KeepFirst(ms) = f[Len(ms)].kept

LEMMA KeepsExist ==
    ASSUME NEW ms \in Seq(Hits)
    PROVE  \E f : Keeps(f, ms)
<1> DEFINE N    == Len(ms)
           base == [last |-> 0, kept |-> {}]
           Step(n, v) == IF ms[n].from >= v.last
                         THEN [last |-> ms[n].to, kept |-> v.kept \cup {ms[n]}]
                         ELSE v
           step == [p \in (0 + 1..N) \X Passes |-> Step(p[1], p[2])]
           F(f) == [n \in 0..N |-> IF n = 0 THEN base ELSE Step(n, f[n - 1])]
           f    == CHOOSE g : g = F(g)
<1>0. KeepFirst(ms) = f[N].kept
    BY DEF KeepFirst
<1>1. N \in Nat /\ N \in Int /\ 0 \in Int /\ 0 <= N
    OBVIOUS
<1>2. base \in Passes
    BY DEF Passes
<1>3. ASSUME NEW n \in 1..N, NEW v \in Passes PROVE Step(n, v) \in Passes
    <2>1. ms[n] \in Hits
        BY <1>1
    <2>2. ms[n].to \in Nat
        BY <2>1, HitIs
    <2> QED BY <2>1, <2>2 DEF Passes
<1> HIDE DEF base, Step
<1>4. step \in [(0 + 1..N) \X Passes -> Passes]
    <2> HIDE DEF N
    <2>1. 0 + 1..N = 1..N
        BY <1>1
    <2> QED BY <2>1, <1>3
<1>5. PICK g \in [0..N -> Passes] : Recursion(g, 0, N, base, step)
    <2> HIDE DEF N, step, F, f
    <2> QED BY <1>1, <1>2, <1>4, RecursionExists
<1>6. g[0] = base
    BY <1>5 DEF Recursion
<1>7. ASSUME NEW n \in 1..N PROVE g[n] = Step(n, g[n - 1])
    <2>1. n \in 0 + 1..N /\ n - 1 \in 0..N
        BY <1>1
    <2>2. <<n, g[n - 1]>> \in (0 + 1..N) \X Passes /\ g[n] = step[<<n, g[n - 1]>>]
        <3> HIDE DEF step, N
        <3> QED BY <2>1, <1>5 DEF Recursion
    <2> HIDE DEF N
    <2>3. step[<<n, g[n - 1]>>] = Step(n, g[n - 1])
        BY <2>2
    <2> HIDE DEF step
    <2> QED BY <2>2, <2>3
<1>8. g = F(g)
    <2> HIDE DEF step, N
    <2>1. \A n \in 0..N : g[n] = F(g)[n]
        <3> SUFFICES ASSUME NEW n \in 0..N PROVE g[n] = F(g)[n]
            OBVIOUS
        <3>1. CASE n = 0
            BY <1>6, <3>1
        <3>2. CASE n # 0
            <4>1. n \in 1..N
                BY <1>1, <3>2
            <4> QED BY <1>7, <3>2, <4>1
        <3> HIDE DEF F
        <3> QED BY <3>1, <3>2
    <2> QED BY <1>5, <2>1
<1>9. f = F(f)
    <2> HIDE DEF F
    <2> QED BY <1>8
<1> HIDE DEF f
<1>10. f[0] = base
    <2> HIDE DEF N
    <2> QED BY <1>1, <1>9
<1>11. ASSUME NEW n \in 1..N PROVE f[n] = Step(n, f[n - 1])
    <2>1. n \in 0..N /\ n # 0
        BY <1>1
    <2> HIDE DEF N
    <2> QED BY <1>9, <2>1
<1>12. \A n \in 0..N : f[n] \in Passes
    <2> DEFINE T == {n \in 0..N : f[n] \in Passes}
    <2>1. 0 \in T
        <3> HIDE DEF N
        <3> QED BY <1>1, <1>2, <1>10
    <2>2. ASSUME NEW n \in 0..N - 1, n \in T PROVE n + 1 \in T
        <3>1. n + 1 \in 1..N /\ n + 1 \in 0..N /\ (n + 1) - 1 = n /\ f[n] \in Passes
            BY <2>2, <1>1
        <3> HIDE DEF N
        <3>2. f[n + 1] = Step(n + 1, f[n])
            BY <3>1, <1>11
        <3> QED BY <3>1, <3>2, <1>3
    <2>3. 0..N \subseteq T
        <3> HIDE DEF T, N
        <3> QED BY <1>1, <2>1, <2>2, IntervalInduction
    <2> QED BY <2>3
<1>13. Keeps(f, ms)
    BY <1>0, <1>10, <1>11, <1>12 DEF Keeps, PassOver, Step, base
<1> QED BY <1>13

(* What is kept of the first n matches is disjoint and stands for them.    *)
StandFor(v, ms, n) ==
    /\ \A m \in v.kept : m.to <= v.last
    /\ v.kept = {} => v.last = 0
    /\ v.kept # {} => \E m \in v.kept : m.to = v.last
    /\ \A m \in v.kept : \E j \in 1..n : m = ms[j]
    /\ \A m, k \in v.kept : m = k \/ ~Touch(m, k)
    /\ \A j \in 1..n : \E m \in v.kept : Touch(ms[j], m) /\ m.from <= ms[j].from

LEMMA PassStandsFor ==
    ASSUME NEW ms \in HitsInOrder, NEW n \in 0..Len(ms) - 1, NEW v \in Passes, StandFor(v, ms, n)
    PROVE  StandFor(PassOver(ms, n + 1, v), ms, n + 1)
<1> DEFINE h == ms[n + 1]
           w == PassOver(ms, n + 1, v)
           N == Len(ms)
<1>1. /\ ms \in Seq(Hits) /\ N \in Nat /\ n \in Nat /\ n + 1 \in 1..N
      /\ \A j \in 1..N : ms[j] \in Hits
      /\ \A j \in 1..n : j \in 1..N /\ ms[j].from <= h.from
    BY DEF HitsInOrder, ByStart
<1>2. v.last \in Nat /\ v.kept \in SUBSET Hits
    BY DEF Passes
<1>3. /\ \A m \in v.kept : m.to <= v.last
      /\ v.kept = {} => v.last = 0
      /\ v.kept # {} => \E m \in v.kept : m.to = v.last
      /\ \A m \in v.kept : \E j \in 1..n : m = ms[j]
      /\ \A m, k \in v.kept : m = k \/ ~Touch(m, k)
      /\ \A j \in 1..n : \E m \in v.kept : Touch(ms[j], m) /\ m.from <= ms[j].from
    BY DEF StandFor
<1>4. h \in Hits /\ h.from \in Nat /\ h.to \in Nat /\ h.from < h.to /\ Touch(h, h)
    BY <1>1, HitIs
<1>5. w = IF h.from >= v.last THEN [last |-> h.to, kept |-> v.kept \cup {h}] ELSE v
    BY DEF PassOver
<1>6. \A j \in 1..n + 1 : j \in 1..n \/ j = n + 1
    BY <1>1
<1>7. \A m \in v.kept : m \in Hits /\ m.from \in Nat /\ m.to \in Nat /\ m.from < m.to
    BY <1>2, HitIs
<1> HIDE DEF w, N
<1>8. CASE h.from >= v.last
    <2>1. w.last = h.to /\ w.kept = v.kept \cup {h}
        BY <1>5, <1>8
    <2>2. \A m \in v.kept : m.to <= h.from
        <3> SUFFICES ASSUME NEW m \in v.kept PROVE m.to <= h.from
            OBVIOUS
        <3> DEFINE b == v.last
        <3>1. m.to <= b /\ b <= h.from /\ b \in Nat /\ m.to \in Nat
            BY <1>2, <1>3, <1>7, <1>8
        <3> HIDE DEF b
        <3> QED BY <3>1, <1>4
    <2>3. \A m \in w.kept : m.to <= w.last
        BY <2>1, <2>2, <1>4, <1>7
    <2>4. \E m \in w.kept : m.to = w.last
        BY <2>1
    <2>5. \A m \in w.kept : \E j \in 1..n + 1 : m = ms[j]
        BY <2>1, <1>1, <1>3
    <2>6. \A m \in v.kept : ~Touch(m, h) /\ ~Touch(h, m)
        BY <2>2, <1>4, <1>7 DEF Touch
    <2>7. \A m, k \in w.kept : m = k \/ ~Touch(m, k)
        BY <2>1, <2>6, <1>3
    <2>8. ASSUME NEW j \in 1..n + 1 PROVE \E m \in w.kept : Touch(ms[j], m) /\ m.from <= ms[j].from
        <3>1. CASE j \in 1..n
            BY <3>1, <2>1, <1>3
        <3>2. CASE j = n + 1
            BY <3>2, <2>1, <1>4
        <3> QED BY <3>1, <3>2, <1>6
    <2> QED BY <2>1, <2>3, <2>4, <2>5, <2>7, <2>8 DEF StandFor, w
<1>9. CASE ~(h.from >= v.last)
    <2>1. w = v
        BY <1>5, <1>9
    <2>2. v.kept # {}
        BY <1>3, <1>4, <1>9
    <2>3. PICK m \in v.kept : m.to = v.last
        BY <2>2, <1>3
    <2>4. PICK i \in 1..n : m = ms[i]
        BY <1>3
    <2>5. Touch(h, m) /\ m.from <= h.from
        BY <2>3, <2>4, <1>1, <1>2, <1>4, <1>7, <1>9 DEF Touch
    <2>6. ASSUME NEW j \in 1..n + 1 PROVE \E k \in v.kept : Touch(ms[j], k) /\ k.from <= ms[j].from
        <3>1. CASE j \in 1..n
            BY <3>1, <1>3
        <3>2. CASE j = n + 1
            BY <3>2, <2>5
        <3> QED BY <3>1, <3>2, <1>6
    <2>7. \A k \in v.kept : \E j \in 1..n + 1 : k = ms[j]
        BY <1>1, <1>3
    <2>8. StandFor(v, ms, n + 1)
        BY <2>6, <2>7, <1>3 DEF StandFor
    <2> QED BY <2>1, <2>8 DEF w
<1> QED BY <1>8, <1>9

(* The pass over ordered matches keeps disjoint ones that stand for all.   *)
LEMMA KeptStandFor ==
    ASSUME NEW ms \in HitsInOrder
    PROVE  /\ \A m \in ToSet(ms) : \E n \in KeepFirst(ms) : Touch(m, n) /\ n.from <= m.from
           /\ \A m, n \in KeepFirst(ms) : m = n \/ ~Touch(m, n)
           /\ KeepFirst(ms) \subseteq ToSet(ms)
<1> DEFINE N == Len(ms)
<1>0. ms \in Seq(Hits)
    BY DEF HitsInOrder
<1>1. PICK f : Keeps(f, ms)
    BY <1>0, KeepsExist
<1>2. N \in Nat /\ N \in Int /\ 0 \in Int
    BY <1>0
<1>3. /\ \A n \in 0..N : f[n] \in Passes
      /\ f[0] = [last |-> 0, kept |-> {}] /\ KeepFirst(ms) = f[N].kept
      /\ \A n \in 1..N : f[n] = PassOver(ms, n, f[n - 1])
    BY <1>1 DEF Keeps
<1> DEFINE T == {n \in 0..N : StandFor(f[n], ms, n)}
<1>4. 0 \in T
    BY <1>2, <1>3 DEF StandFor
<1>5. ASSUME NEW n \in 0..N - 1, n \in T PROVE n + 1 \in T
    <2>1. n + 1 \in 1..N /\ n + 1 \in 0..N /\ (n + 1) - 1 = n /\ n \in 0..N
        BY <1>2
    <2>2. f[n] \in Passes /\ StandFor(f[n], ms, n) /\ f[n + 1] = PassOver(ms, n + 1, f[n])
        BY <2>1, <1>3, <1>5
    <2>3. StandFor(PassOver(ms, n + 1, f[n]), ms, n + 1)
        BY <2>2, PassStandsFor
    <2> QED BY <2>1, <2>2, <2>3
<1>6. 0..N \subseteq T
    <2> HIDE DEF T, N
    <2> QED BY <1>2, <1>4, <1>5, IntervalInduction
<1>7. StandFor(f[N], ms, N)
    BY <1>2, <1>6
<1>8. \A m \in ToSet(ms) : \E j \in 1..N : m = ms[j]
    BY <1>0, ToSetElements
<1> HIDE DEF N
<1>9. /\ \A m, n \in KeepFirst(ms) : m = n \/ ~Touch(m, n)
      /\ \A j \in 1..N : \E m \in KeepFirst(ms) : Touch(ms[j], m) /\ m.from <= ms[j].from
    BY <1>3, <1>7 DEF StandFor
<1>10. ASSUME NEW m \in ToSet(ms) PROVE \E n \in KeepFirst(ms) : Touch(m, n) /\ n.from <= m.from
    <2>1. PICK j \in 1..N : m = ms[j]
        BY <1>8
    <2> QED BY <2>1, <1>9
<1>11. KeepFirst(ms) \subseteq ToSet(ms)
    <2>1. \A m \in KeepFirst(ms) : \E j \in 1..N : m = ms[j]
        BY <1>3, <1>7 DEF StandFor
    <2> QED BY <2>1 DEF ToSet, N
<1> QED BY <1>9, <1>10, <1>11

IsSentence == sentence \in Seq(Lexicon)

(* A window is where it says it is.                                        *)
LEMMA WindowIs ==
    ASSUME IsSentence, NEW n \in 1..3, NEW m \in Windows(n)
    PROVE  /\ m.from \in 1..Len(sentence) /\ m.to = m.from + n
           /\ LengthOf(m) = n /\ Touch(m, m)
<1>1. Len(sentence) \in Nat /\ n \in Nat /\ n >= 1
    BY DEF IsSentence
<1>2. PICK i \in 1..Len(sentence) - n + 1 : m = Span(i, i + n)
    BY DEF Windows
<1>3. i \in 1..Len(sentence)
    BY <1>1
<1>4. m.from = i /\ m.to = i + n
    BY <1>2 DEF Span
<1> QED BY <1>1, <1>3, <1>4 DEF LengthOf, Touch

(* The windows of two words, taken in turn.                                *)
Pairs(i, v) == v \cup {m \in Windows(2) : m.from = i /\ FreeOf(v, m)}
TakesPairs(f) ==
    /\ \A n \in 0..Len(sentence) : f[n] \in SUBSET (Windows(2) \cup Windows(3))
    /\ f[0] = Windows(3)
    /\ \A n \in 1..Len(sentence) : f[n] = Pairs(n, f[n - 1])

(* What the dictionary reports, from what it found of two and three words. *)
Reported(more) == more \cup {m \in Windows(1) : FreeOf(more, m)}

LEMMA PairsTaken ==
    ASSUME IsSentence, ScanKeywords
    PROVE  \E f : TakesPairs(f) /\ keywords' = Reported(f[Len(sentence)])
<1> DEFINE N    == Len(sentence)
           X    == SUBSET (Windows(2) \cup Windows(3))
           base == Windows(3)
           Step(n, v) == v \cup {m \in Windows(2) : m.from = n /\ FreeOf(v, m)}
           step == [p \in (0 + 1..N) \X X |-> Step(p[1], p[2])]
           F(f) == [n \in 0..N |-> IF n = 0 THEN base ELSE Step(n, f[n - 1])]
           f    == CHOOSE g : g = F(g)
<1>0. keywords' = f[N] \cup {m \in Windows(1) : FreeOf(f[N], m)}
    BY DEF ScanKeywords
<1>1. N \in Nat /\ N \in Int /\ 0 \in Int /\ 0 <= N
    BY DEF IsSentence
<1>2. base \in X
    OBVIOUS
<1>3. ASSUME NEW n \in 1..N, NEW v \in X PROVE Step(n, v) \in X
    OBVIOUS
<1> HIDE DEF base, Step, X
<1>4. step \in [(0 + 1..N) \X X -> X]
    <2> HIDE DEF N
    <2>1. 0 + 1..N = 1..N
        BY <1>1
    <2> QED BY <2>1, <1>3
<1>5. PICK g \in [0..N -> X] : Recursion(g, 0, N, base, step)
    <2> HIDE DEF N, step, F, f
    <2> QED BY <1>1, <1>2, <1>4, RecursionExists
<1>6. g[0] = base
    BY <1>5 DEF Recursion
<1>7. ASSUME NEW n \in 1..N PROVE g[n] = Step(n, g[n - 1])
    <2>1. n \in 0 + 1..N /\ n - 1 \in 0..N
        BY <1>1
    <2>2. <<n, g[n - 1]>> \in (0 + 1..N) \X X /\ g[n] = step[<<n, g[n - 1]>>]
        <3> HIDE DEF step, N
        <3> QED BY <2>1, <1>5 DEF Recursion
    <2> HIDE DEF N
    <2>3. step[<<n, g[n - 1]>>] = Step(n, g[n - 1])
        BY <2>2
    <2> HIDE DEF step
    <2> QED BY <2>2, <2>3
<1>8. g = F(g)
    <2> HIDE DEF step, N
    <2>1. \A n \in 0..N : g[n] = F(g)[n]
        <3> SUFFICES ASSUME NEW n \in 0..N PROVE g[n] = F(g)[n]
            OBVIOUS
        <3>1. CASE n = 0
            BY <1>6, <3>1
        <3>2. CASE n # 0
            <4>1. n \in 1..N
                BY <1>1, <3>2
            <4> QED BY <1>7, <3>2, <4>1
        <3> HIDE DEF F
        <3> QED BY <3>1, <3>2
    <2> QED BY <1>5, <2>1
<1>9. f = F(f)
    <2> HIDE DEF F
    <2> QED BY <1>8
<1> HIDE DEF f
<1>10. f[0] = base
    <2> HIDE DEF N
    <2> QED BY <1>1, <1>9
<1>11. ASSUME NEW n \in 1..N PROVE f[n] = Step(n, f[n - 1])
    <2>1. n \in 0..N /\ n # 0
        BY <1>1
    <2> HIDE DEF N
    <2> QED BY <1>9, <2>1
<1>12. \A n \in 0..N : f[n] \in X
    <2> DEFINE T == {n \in 0..N : f[n] \in X}
    <2>1. 0 \in T
        <3> HIDE DEF N
        <3> QED BY <1>1, <1>2, <1>10
    <2>2. ASSUME NEW n \in 0..N - 1, n \in T PROVE n + 1 \in T
        <3>1. n + 1 \in 1..N /\ n + 1 \in 0..N /\ (n + 1) - 1 = n /\ f[n] \in X
            BY <2>2, <1>1
        <3> HIDE DEF N
        <3>2. f[n + 1] = Step(n + 1, f[n])
            BY <3>1, <1>11
        <3> QED BY <3>1, <3>2, <1>3
    <2>3. 0..N \subseteq T
        <3> HIDE DEF T, N
        <3> QED BY <1>1, <2>1, <2>2, IntervalInduction
    <2> QED BY <2>3
<1>13. TakesPairs(f)
    BY <1>10, <1>11, <1>12 DEF TakesPairs, Pairs, Step, base, X
<1> QED BY <1>0, <1>13 DEF Reported

(* A term of the dictionary is reported or meets one that is as long.      *)
TermsReported ==
    \A n \in 1..3 : \A m \in Windows(n) : \E k \in keywords :
        Touch(m, k) /\ LengthOf(k) >= n

LEMMA KeywordsReported ==
    ASSUME IsSentence, ScanKeywords
    PROVE  TermsReported'
<1> DEFINE N == Len(sentence)
<1>1. PICK f : TakesPairs(f) /\ keywords' = Reported(f[N])
    BY PairsTaken
<1>2. N \in Nat /\ N \in Int /\ 0 \in Int /\ UNCHANGED sentence
    BY DEF IsSentence, ScanKeywords
<1>3. /\ \A n \in 0..N : f[n] \in SUBSET (Windows(2) \cup Windows(3))
      /\ f[0] = Windows(3)
      /\ \A n \in 1..N : f[n] = Pairs(n, f[n - 1])
    BY <1>1 DEF TakesPairs
<1>4. \A i \in 0..N : i..N \subseteq {n \in i..N : f[i] \subseteq f[n]}
    <2> SUFFICES ASSUME NEW i \in 0..N PROVE i..N \subseteq {n \in i..N : f[i] \subseteq f[n]}
        OBVIOUS
    <2> HIDE DEF N
    <2> DEFINE T == {n \in i..N : f[i] \subseteq f[n]}
    <2>1. i \in Int /\ i <= N => i \in T
        BY <1>2
    <2>2. ASSUME NEW n \in i..N - 1, n \in T PROVE n + 1 \in T
        <3>1. n + 1 \in 1..N /\ n + 1 \in i..N /\ (n + 1) - 1 = n
            BY <1>2
        <3>2. f[n] \subseteq f[n + 1]
            BY <3>1, <1>3 DEF Pairs
        <3> QED BY <3>1, <3>2, <2>2
    <2> HIDE DEF T
    <2>3. i..N \subseteq T
        BY <1>2, <2>1, <2>2, IntervalInduction
    <2> QED BY <2>3 DEF T
<1> HIDE DEF N
<1>5. \A i \in 0..N : f[i] \subseteq f[N]
    <2> SUFFICES ASSUME NEW i \in 0..N PROVE f[i] \subseteq f[N]
        OBVIOUS
    <2>1. N \in i..N
        BY <1>2
    <2> QED BY <2>1, <1>4
<1>6. f[N] \in SUBSET (Windows(2) \cup Windows(3)) /\ Windows(3) \subseteq f[N]
    BY <1>2, <1>3, <1>5
<1>7. \A k \in f[N] : k \in keywords' /\ LengthOf(k) \in {2, 3}
    <2> SUFFICES ASSUME NEW k \in f[N] PROVE k \in keywords' /\ LengthOf(k) \in {2, 3}
        OBVIOUS
    <2>1. 2 \in 1..3 /\ 3 \in 1..3
        OBVIOUS
    <2>2. LengthOf(k) \in {2, 3}
        BY <2>1, <1>6, WindowIs
    <2> QED BY <2>2, <1>1 DEF Reported
<1>8. ASSUME NEW m \in Windows(3) PROVE \E k \in keywords' : Touch(m, k) /\ LengthOf(k) >= 3
    <2>1. m \in f[N] /\ m \in keywords'
        BY <1>6, <1>7
    <2>2. 3 \in 1..3
        OBVIOUS
    <2>3. Touch(m, m) /\ LengthOf(m) = 3
        BY <2>2, WindowIs
    <2> QED BY <2>1, <2>3
<1>9. ASSUME NEW m \in Windows(2) PROVE \E k \in keywords' : Touch(m, k) /\ LengthOf(k) >= 2
    <2>1. 2 \in 1..3
        OBVIOUS
    <2>2. m.from \in 1..N /\ Touch(m, m)
        BY <2>1, WindowIs DEF N
    <2> DEFINE i == m.from
    <2>3. i \in 1..N /\ i \in 0..N /\ i - 1 \in 0..N
        BY <2>2, <1>2
    <2> HIDE DEF i
    <2>4. f[i] = f[i - 1] \cup {x \in Windows(2) : x.from = i /\ FreeOf(f[i - 1], x)}
        BY <2>3, <1>3 DEF Pairs
    <2>5. CASE FreeOf(f[i - 1], m)
        <3>1. m \in f[i]
            BY <2>4, <2>5 DEF i
        <3>2. m \in f[N]
            BY <3>1, <2>3, <1>5
        <3>3. m \in keywords' /\ LengthOf(m) \in {2, 3}
            BY <3>2, <1>7
        <3> QED BY <3>3, <2>2
    <2>6. CASE ~FreeOf(f[i - 1], m)
        <3>1. PICK k \in f[i - 1] : Touch(k, m) \/ Touch(m, k)
            BY <2>6 DEF FreeOf
        <3>2. k \in f[N]
            BY <2>3, <1>5
        <3>3. k \in keywords' /\ LengthOf(k) \in {2, 3}
            BY <3>2, <1>7
        <3>4. Touch(m, k)
            BY <3>1 DEF Touch
        <3> QED BY <3>3, <3>4
    <2> QED BY <2>5, <2>6
<1>10. ASSUME NEW m \in Windows(1) PROVE \E k \in keywords' : Touch(m, k) /\ LengthOf(k) >= 1
    <2>1. 1 \in 1..3
        OBVIOUS
    <2>2. Touch(m, m) /\ LengthOf(m) = 1
        BY <2>1, WindowIs
    <2>3. CASE FreeOf(f[N], m)
        <3>1. m \in keywords'
            BY <2>3, <1>1 DEF Reported
        <3> QED BY <3>1, <2>2
    <2>4. CASE ~FreeOf(f[N], m)
        <3>1. PICK k \in f[N] : Touch(k, m) \/ Touch(m, k)
            BY <2>4 DEF FreeOf
        <3>2. k \in keywords' /\ LengthOf(k) \in {2, 3}
            BY <1>7
        <3>3. Touch(m, k)
            BY <3>1 DEF Touch
        <3> QED BY <3>2, <3>3
    <2> QED BY <2>3, <2>4
<1>11. \A n \in 1..3 : Windows(n)' = Windows(n)
    BY <1>2 DEF Windows
<1>12. ASSUME NEW n \in 1..3, NEW m \in Windows(n)
       PROVE  \E k \in keywords' : Touch(m, k) /\ LengthOf(k) >= n
    <2>1. n = 1 \/ n = 2 \/ n = 3
        OBVIOUS
    <2> QED BY <2>1, <1>8, <1>9, <1>10
<1> QED BY <1>11, <1>12 DEF TermsReported, Touch, LengthOf

(* Every word that is a name lies in what the gazetteer reports.           *)
NamesReported == \A m \in LoneNames : \E n \in names : n.from <= m.from /\ m.to <= n.to

LEMMA GazetteerReports ==
    ASSUME IsSentence, ScanNames
    PROVE  NamesReported'
<1>1. /\ names' = AtConfidence(70, FullNames) \cup AtConfidence(40, {m \in LoneNames : FreeOf(FullNames, m)})
      /\ UNCHANGED sentence
    BY DEF ScanNames
<1>2. Len(sentence) \in Nat
    BY DEF IsSentence
<1>3. ASSUME NEW m \in LoneNames PROVE \E n \in names' : n.from <= m.from /\ m.to <= n.to
    <2>1. PICK i \in 1..Len(sentence) : m = Span(i, i + 1)
        BY DEF LoneNames
    <2>2. m.from = i /\ m.to = i + 1 /\ i \in Nat
        BY <2>1, <1>2 DEF Span
    <2>3. CASE FreeOf(FullNames, m)
        <3> DEFINE n == [from |-> m.from, to |-> m.to, confidence |-> 40]
        <3>1. n \in names'
            BY <1>1, <2>3 DEF AtConfidence
        <3>2. n.from = m.from /\ n.to = m.to
            OBVIOUS
        <3> HIDE DEF n
        <3> QED BY <3>1, <3>2, <2>2
    <2>4. CASE ~FreeOf(FullNames, m)
        <3>1. PICK k \in FullNames : Touch(k, m) \/ Touch(m, k)
            BY <2>4 DEF FreeOf
        <3>2. PICK j \in 1..Len(sentence) - 1 : k = Span(j, j + 2)
            BY DEF FullNames
        <3>3. k.from = j /\ k.to = j + 2 /\ j \in Nat
            BY <3>2, <1>2 DEF Span
        <3>4. k.from <= m.from /\ m.to <= k.to
            BY <3>1, <3>3, <2>2 DEF Touch
        <3> DEFINE n == [from |-> k.from, to |-> k.to, confidence |-> 70]
        <3>5. n \in names'
            BY <1>1 DEF AtConfidence
        <3>6. n.from = k.from /\ n.to = k.to
            OBVIOUS
        <3> HIDE DEF n
        <3> QED BY <3>4, <3>5, <3>6
    <2> QED BY <2>3, <2>4
<1>4. LoneNames' = LoneNames
    BY <1>1 DEF LoneNames
<1> QED BY <1>3, <1>4 DEF NamesReported

-----------------------------------------------------------------------------
(* The detectors look at a sentence or at the matches of the patterns.     *)
HitsStandFor ==
    /\ \A m \in ToSet(patternHits) : \E n \in kept : Touch(m, n) /\ n.from <= m.from
    /\ \A m, n \in kept : m = n \/ ~Touch(m, n)
DetInv ==
    /\ IsSentence /\ patternHits \in Seq(Hits)
    /\ detStep \in {"keywords", "names", "patterns", "languages", "done"}
    /\ detStep \in {"patterns", "languages"} => sentence = <<>>
    /\ detStep = "names" => TermsReported
    /\ detStep = "languages" => HitsStandFor
    /\ detStep = "done" => NamesReported

LEMMA DetInitInv == DetInit => DetInv
<1> SUFFICES ASSUME DetInit PROVE DetInv
    OBVIOUS
<1>1. MaxSentence \in Nat /\ MaxHits \in Nat
    BY TermAssumption
<1>2. CASE sentence \in BoundedSeq(Lexicon, MaxSentence) /\ patternHits = <<>> /\ detStep = "keywords"
    <2>1. sentence \in Seq(Lexicon)
        BY <1>1, <1>2, BoundedSeqIs
    <2> QED BY <2>1, <1>2 DEF DetInv, IsSentence
<1>3. CASE patternHits \in BoundedSeq(Hits, MaxHits) /\ sentence = <<>> /\ detStep = "patterns"
    <2>1. patternHits \in Seq(Hits)
        BY <1>1, <1>3, BoundedSeqIs
    <2> QED BY <2>1, <1>3 DEF DetInv, IsSentence
<1> QED BY <1>2, <1>3 DEF DetInit

LEMMA DetStepInv == DetInv /\ [DetNext]_detVars => DetInv'
<1> SUFFICES ASSUME DetInv, [DetNext]_detVars PROVE DetInv'
    OBVIOUS
<1>1. /\ IsSentence /\ patternHits \in Seq(Hits)
      /\ detStep \in {"keywords", "names", "patterns", "languages", "done"}
      /\ detStep \in {"patterns", "languages"} => sentence = <<>>
    BY DEF DetInv
<1>2. CASE ScanKeywords
    <2>1. TermsReported'
        BY <1>1, <1>2, KeywordsReported
    <2>2. detStep' = "names" /\ UNCHANGED <<sentence, patternHits>>
        BY <1>2 DEF ScanKeywords
    <2> QED BY <2>1, <2>2, <1>1 DEF DetInv, IsSentence
<1>3. CASE ScanNames
    <2>1. NamesReported'
        BY <1>1, <1>3, GazetteerReports
    <2>2. detStep' = "done" /\ UNCHANGED <<sentence, patternHits>>
        BY <1>3 DEF ScanNames
    <2> QED BY <2>1, <2>2, <1>1 DEF DetInv, IsSentence
<1>4. CASE Deduplicate
    <2>1. /\ kept' = KeepFirst(Sorted(patternHits)) /\ detStep = "patterns" /\ detStep' = "languages"
          /\ UNCHANGED <<sentence, patternHits>>
        BY <1>4 DEF Deduplicate
    <2>2. Sorted(patternHits) \in HitsInOrder /\ ToSet(Sorted(patternHits)) = ToSet(patternHits)
        BY <1>1, SortedIs
    <2>3. /\ \A m \in ToSet(patternHits) : \E n \in kept' : Touch(m, n) /\ n.from <= m.from
          /\ \A m, n \in kept' : m = n \/ ~Touch(m, n)
        BY <2>1, <2>2, KeptStandFor
    <2>4. HitsStandFor'
        BY <2>1, <2>3 DEF HitsStandFor, Touch
    <2> QED BY <2>1, <2>4, <1>1 DEF DetInv, IsSentence
<1>5. CASE DedupOverlapping
    <2>1. detStep = "languages" /\ detStep' = "done" /\ UNCHANGED <<sentence, patternHits>>
        BY <1>5 DEF DedupOverlapping
    <2>2. sentence' = <<>>
        BY <2>1, <1>1
    <2>3. LoneNames' = {}
        BY <2>2 DEF LoneNames
    <2>4. NamesReported'
        BY <2>3 DEF NamesReported
    <2> QED BY <2>1, <2>4, <1>1 DEF DetInv, IsSentence
<1>6. CASE UNCHANGED detVars
    <2>1. UNCHANGED <<sentence, keywords, names, patternHits, kept, detStep>>
        BY <1>6 DEF detVars
    <2> QED BY <2>1 DEF DetInv, IsSentence, TermsReported, NamesReported, HitsStandFor,
                        Windows, LoneNames, Touch, LengthOf
<1> QED BY <1>2, <1>3, <1>4, <1>5, <1>6 DEF DetNext

(* What the patterns, the dictionary and the gazetteer find is reported or *)
(* gives way to another finding that covers some of it, for every text and *)
(* every dictionary (PiiScanner, KeywordDict, NameGazetteer).              *)
THEOREM NoFindingIsLost == DetSpec => []FindingsSurvive
<1>1. DetInv => FindingsSurvive
    BY DEF DetInv, FindingsSurvive, TermsReported, NamesReported, HitsStandFor
<1> QED BY <1>1, DetInitInv, DetStepInv, PTL DEF DetSpec

-----------------------------------------------------------------------------
(* The hooks of the plugin.                                               *)

(* What a text of the plugin is made of.                                   *)
Glyphs == Chars \cup {"[", "]", "high", "low"}
InAscii(text) == text \in Seq(Chars) /\ \A i \in 1..Len(text) : Bytes(text[i]) = 1

LEMMA LabelIs == Label \in Seq(Glyphs) /\ Len(Label) = 2
BY DEF Label, Glyphs

-----------------------------------------------------------------------------
(* A text with the characters of K replaced by the label.                  *)
ReplacedIn(s, K) == FlattenSeq([i \in 1..Len(s) |-> IF s[i] \in K THEN Label ELSE <<s[i]>>])

LEMMA ReplacedOfNone == ASSUME NEW K PROVE ReplacedIn(<<>>, K) = <<>>
<1>1. [i \in 1..Len(<<>>) |-> IF <<>>[i] \in K THEN Label ELSE <<(<<>>[i])>>] = <<>>
    OBVIOUS
<1> QED BY <1>1, FlattenOfNone DEF ReplacedIn

LEMMA ReplacedOfAppend ==
    ASSUME NEW s \in Seq(Glyphs), NEW c \in Glyphs, NEW K
    PROVE  /\ ReplacedIn(s, K) \in Seq(Glyphs)
           /\ ReplacedIn(Append(s, c), K) = ReplacedIn(s, K) \o IF c \in K THEN Label ELSE <<c>>
<1> DEFINE Part(x) == IF x \in K THEN Label ELSE <<x>>
           parts == [i \in 1..Len(s) |-> Part(s[i])]
           t == Append(s, c)
           more == [i \in 1..Len(t) |-> Part(t[i])]
           N == Len(s)
<1>1. /\ t \in Seq(Glyphs) /\ Len(t) = N + 1 /\ N \in Nat /\ t[N + 1] = c
      /\ \A i \in 1..N : t[i] = s[i] /\ s[i] \in Glyphs
    OBVIOUS
<1>2. \A x \in Glyphs : Part(x) \in Seq(Glyphs)
    BY LabelIs
<1>3. ReplacedIn(s, K) = FlattenSeq(parts) /\ ReplacedIn(t, K) = FlattenSeq(more)
    BY DEF ReplacedIn
<1> HIDE DEF Part, N, t
<1> DEFINE Y == Seq(Glyphs)
<1> HIDE DEF Y
<1>4. parts \in Seq(Y)
    BY <1>1, <1>2 DEF Y, N
<1>5. more = Append(parts, Part(c))
    <2> DEFINE q == Append(parts, Part(c))
    <2>1. Len(parts) = N /\ \A i \in 1..N : parts[i] = Part(s[i])
        BY <1>1 DEF N
    <2>2. Part(c) \in Y
        BY <1>2 DEF Y
    <2>3. more \in Seq(Y) /\ Len(more) = N + 1 /\ \A i \in 1..N + 1 : more[i] = Part(t[i])
        BY <1>1, <1>2 DEF Y
    <2> HIDE DEF parts, more
    <2>4. q \in Seq(Y) /\ Len(q) = N + 1 /\ q[N + 1] = Part(c) /\ \A i \in 1..N : q[i] = parts[i]
        BY <1>4, <2>1, <2>2
    <2>5. ASSUME NEW i \in 1..Len(more) PROVE more[i] = q[i]
        <3>1. CASE i = N + 1
            BY <3>1, <1>1, <2>3, <2>4
        <3>2. CASE i \in 1..N
            BY <3>2, <1>1, <2>1, <2>3, <2>4
        <3>3. i = N + 1 \/ i \in 1..N
            BY <1>1, <2>3
        <3> QED BY <3>1, <3>2, <3>3
    <2> HIDE DEF q
    <2> QED BY <2>3, <2>4, <2>5, SameSequence DEF q
<1> HIDE DEF parts, more
<1>6. Part(c) \in Seq(Glyphs)
    BY <1>2
<1>7. FlattenSeq(more) = FlattenSeq(parts) \o Part(c)
    BY <1>4, <1>5, <1>6, FlattenOfAppend DEF Y
<1>8. FlattenSeq(parts) \in Seq(Glyphs)
    BY <1>4, FlattenElements DEF Y
<1> QED BY <1>3, <1>7, <1>8 DEF Part, t

LEMMA ReplacedType ==
    ASSUME NEW s \in Seq(Glyphs), NEW K
    PROVE  ReplacedIn(s, K) \in Seq(Glyphs)
<1>1. "a" \in Glyphs
    BY DEF Glyphs, Chars, Plain
<1> QED BY <1>1, ReplacedOfAppend

LEMMA ReplacedOfConcat ==
    ASSUME NEW s \in Seq(Glyphs), NEW K
    PROVE  \A u \in Seq(Glyphs) : ReplacedIn(s \o u, K) = ReplacedIn(s, K) \o ReplacedIn(u, K)
<1> DEFINE T == {u \in Seq(Glyphs) : ReplacedIn(s \o u, K) = ReplacedIn(s, K) \o ReplacedIn(u, K)}
<1>1. <<>> \in T
    <2>1. ReplacedIn(<<>>, K) = <<>> /\ <<>> \in Seq(Glyphs) /\ s \o <<>> = s
        BY ReplacedOfNone
    <2>2. ReplacedIn(s, K) \in Seq(Glyphs)
        BY ReplacedType
    <2>3. ReplacedIn(s, K) \o <<>> = ReplacedIn(s, K)
        BY <2>2
    <2> QED BY <2>1, <2>3
<1>2. ASSUME NEW u \in Seq(Glyphs), u \in T, NEW c \in Glyphs PROVE Append(u, c) \in T
    <2> DEFINE p == IF c \in K THEN Label ELSE <<c>>
               a == ReplacedIn(s, K)
               b == ReplacedIn(u, K)
    <2>1. p \in Seq(Glyphs) /\ a \in Seq(Glyphs) /\ b \in Seq(Glyphs)
        BY LabelIs, ReplacedType
    <2>2. s \o Append(u, c) = Append(s \o u, c) /\ s \o u \in Seq(Glyphs)
        OBVIOUS
    <2>3. ReplacedIn(Append(s \o u, c), K) = ReplacedIn(s \o u, K) \o p
        BY <2>2, ReplacedOfAppend
    <2>4. ReplacedIn(Append(u, c), K) = b \o p
        BY ReplacedOfAppend
    <2>5. ReplacedIn(s \o u, K) = a \o b
        BY <1>2
    <2> HIDE DEF p, a, b
    <2>6. (a \o b) \o p = a \o (b \o p)
        BY <2>1
    <2>7. ReplacedIn(s \o Append(u, c), K) = a \o ReplacedIn(Append(u, c), K)
        BY <2>2, <2>3, <2>4, <2>5, <2>6
    <2>8. Append(u, c) \in Seq(Glyphs)
        OBVIOUS
    <2> QED BY <2>7, <2>8 DEF a
<1>3. Seq(Glyphs) \subseteq T
    <2> HIDE DEF T
    <2> QED BY <1>1, <1>2, SeqInduction
<1> QED BY <1>3

LEMMA ReplacedOfOne ==
    ASSUME NEW c \in Glyphs, NEW K
    PROVE  ReplacedIn(<<c>>, K) = IF c \in K THEN Label ELSE <<c>>
<1> DEFINE p == IF c \in K THEN Label ELSE <<c>>
<1> DEFINE e == <<>>
<1>1. Append(e, c) = <<c>> /\ e \in Seq(Glyphs) /\ ReplacedIn(e, K) = <<>>
    BY ReplacedOfNone
<1> HIDE DEF e
<1>2. ReplacedIn(Append(e, c), K) = <<>> \o p
    <2>1. ReplacedIn(Append(e, c), K) = ReplacedIn(e, K) \o p
        BY <1>1, ReplacedOfAppend
    <2> HIDE DEF p
    <2> QED BY <2>1, <1>1
<1>3. p \in Seq(Glyphs)
    BY LabelIs
<1> HIDE DEF p
<1>4. <<>> \o p = p
    BY <1>3
<1> QED BY <1>1, <1>2, <1>4 DEF p

(* Labels are not replaced.                                                *)
LEMMA ReplacedTwice ==
    ASSUME NEW A, NEW B, "[" \notin B, "]" \notin B
    PROVE  \A s \in Seq(Glyphs) : ReplacedIn(ReplacedIn(s, A), B) = ReplacedIn(s, A \cup B)
<1> DEFINE T == {s \in Seq(Glyphs) : ReplacedIn(ReplacedIn(s, A), B) = ReplacedIn(s, A \cup B)}
<1>1. <<>> \in T
    BY ReplacedOfNone
<1>2. ASSUME NEW s \in Seq(Glyphs), s \in T, NEW c \in Glyphs PROVE Append(s, c) \in T
    <2> DEFINE p == IF c \in A THEN Label ELSE <<c>>
               q == IF c \in A \cup B THEN Label ELSE <<c>>
    <2>1. p \in Seq(Glyphs) /\ ReplacedIn(s, A) \in Seq(Glyphs)
        BY LabelIs, ReplacedType
    <2>2. ReplacedIn(Append(s, c), A) = ReplacedIn(s, A) \o p
        BY ReplacedOfAppend
    <2>3. ReplacedIn(ReplacedIn(s, A) \o p, B) = ReplacedIn(ReplacedIn(s, A), B) \o ReplacedIn(p, B)
        BY <2>1, ReplacedOfConcat
    <2>4. ReplacedIn(p, B) = q
        <3>1. ReplacedIn(Label, B) = Label
            <4> DEFINE o == <<"[">>
                       e == <<"]">>
            <4>1. o \in Seq(Glyphs) /\ e \in Seq(Glyphs) /\ Label = o \o e /\ "[" \in Glyphs /\ "]" \in Glyphs
                BY DEF Glyphs, Label
            <4>2. ReplacedIn(o, B) = o /\ ReplacedIn(e, B) = e
                BY <4>1, ReplacedOfOne
            <4> HIDE DEF o, e
            <4>3. ReplacedIn(o \o e, B) = ReplacedIn(o, B) \o ReplacedIn(e, B)
                BY <4>1, ReplacedOfConcat
            <4> QED BY <4>1, <4>2, <4>3
        <3> QED BY <3>1, ReplacedOfOne
    <2>5. ReplacedIn(Append(s, c), A \cup B) = ReplacedIn(s, A \cup B) \o q
        BY ReplacedOfAppend
    <2> HIDE DEF p, q
    <2>6. ReplacedIn(ReplacedIn(Append(s, c), A), B) = ReplacedIn(Append(s, c), A \cup B)
        BY <1>2, <2>2, <2>3, <2>4, <2>5
    <2>7. Append(s, c) \in Seq(Glyphs)
        OBVIOUS
    <2> QED BY <2>6, <2>7
<1>3. Seq(Glyphs) \subseteq T
    <2> HIDE DEF T
    <2> QED BY <1>1, <1>2, SeqInduction
<1> QED BY <1>3

(* A match of one character of s, in a text that is s or longer.           *)
SpanIn(m, s)  == m.start \in 0..Len(s) - 1 /\ m.end = m.start + 1
SpansIn(ms, s) == Len(ms) \in Nat /\ \A n \in 1..Len(ms) : SpanIn(ms[n], s)
Longer(s)     == {v \in Seq(Glyphs) : Len(v) >= Len(s)}

LEMMA ReplacedSpan ==
    ASSUME NEW s \in Seq(Glyphs), NEW v \in Longer(s), NEW m, SpanIn(m, s)
    PROVE  Inside(s, m) /\ Inside(v, m) /\ ReplaceSpan(v, m) \in Longer(s)
<1> DEFINE a == SubSeq(v, 1, m.start)
           b == SubSeq(v, m.end + 1, Len(v))
           i == m.start
<1>1. /\ v \in Seq(Glyphs) /\ Len(v) \in Nat /\ Len(s) \in Nat /\ Len(v) >= Len(s)
      /\ i \in 0..Len(s) - 1 /\ m.end = i + 1
    BY DEF Longer, SpanIn
<1>2. Inside(s, m) /\ Inside(v, m)
    BY <1>1 DEF Inside
<1> DEFINE k == m.end
<1>3. a = SubSeq(v, 1, i) /\ b = SubSeq(v, k + 1, Len(v)) /\ ReplaceSpan(v, m) = a \o Label \o b
    BY DEF ReplaceSpan
<1>4. i \in Nat /\ k = i + 1 /\ k \in 0..Len(v) /\ i <= Len(v)
    BY <1>1
<1> HIDE DEF i, k, a, b
<1>5. a \in Seq(Glyphs) /\ Len(a) = i
    BY <1>1, <1>3, <1>4
<1>6. b \in Seq(Glyphs) /\ Len(b) = Len(v) - k
    BY <1>1, <1>3, <1>4, SuffixElements
<1> DEFINE q == a \o Label
<1>7. q \in Seq(Glyphs) /\ Len(q) = i + 2
    <2>1. Label \in Seq(Glyphs) /\ Len(Label) = 2
        BY LabelIs
    <2>2. a \o Label \in Seq(Glyphs) /\ Len(a \o Label) = Len(a) + Len(Label)
        BY <1>5, <2>1, ConcatElements
    <2> QED BY <1>5, <2>1, <2>2
<1> HIDE DEF q
<1>8. q \o b \in Seq(Glyphs) /\ Len(q \o b) = Len(v) + 1
    <2>1. q \o b \in Seq(Glyphs) /\ Len(q \o b) = Len(q) + Len(b)
        BY <1>6, <1>7, ConcatElements
    <2> QED BY <2>1, <1>1, <1>4, <1>6, <1>7
<1>9. ReplaceSpan(v, m) = q \o b
    BY <1>3 DEF q
<1>10. q \o b \in Longer(s)
    BY <1>1, <1>8 DEF Longer
<1> QED BY <1>2, <1>9, <1>10

(* f has, at each number, u with that many of the last matches replaced.   *)
Redone(f, u, ms) ==
    /\ \A n \in 0..Len(ms) : f[n] \in Seq(Glyphs)
    /\ f[0] = u
    /\ \A n \in 1..Len(ms) : f[n] = ReplaceSpan(f[n - 1], ms[Len(ms) + 1 - n])

(* No match of one character is skipped by either function.                *)
LEMMA SpansRedone ==
    ASSUME NEW s \in Seq(Glyphs), NEW ms, SpansIn(ms, s)
    PROVE  \E f : Redone(f, s, ms) /\ RedactSpans(s, ms) = f[Len(ms)]
<1> DEFINE N    == Len(ms)
           X    == Longer(s)
           base == s
           Step(n, v) == IF Inside(s, ms[N + 1 - n]) THEN ReplaceSpan(v, ms[N + 1 - n]) ELSE v
           step == [p \in (0 + 1..N) \X X |-> Step(p[1], p[2])]
           F(f) == [n \in 0..N |-> IF n = 0 THEN base ELSE Step(n, f[n - 1])]
           f    == CHOOSE g : g = F(g)
<1>0. RedactSpans(s, ms) = f[N]
    BY DEF RedactSpans
<1>1. N \in Nat /\ N \in Int /\ 0 \in Int /\ 0 <= N
    BY DEF SpansIn
<1>2. base \in X
    BY DEF Longer
<1>3a. ASSUME NEW n \in 1..N, NEW v \in X
       PROVE  Step(n, v) = ReplaceSpan(v, ms[N + 1 - n]) /\ Step(n, v) \in X
    <2>1. N + 1 - n \in 1..N
        BY <1>1
    <2>2. SpanIn(ms[N + 1 - n], s)
        <3> HIDE DEF N
        <3>1. \A k \in 1..N : SpanIn(ms[k], s)
            BY DEF SpansIn, N
        <3> QED BY <2>1, <3>1
    <2>3. s \in X
        BY DEF Longer
    <2> HIDE DEF N
    <2>4. Inside(s, ms[N + 1 - n]) /\ Inside(v, ms[N + 1 - n]) /\ ReplaceSpan(v, ms[N + 1 - n]) \in X
        BY <2>2, <2>3, ReplacedSpan
    <2> QED BY <2>4
<1>3. ASSUME NEW n \in 1..N, NEW v \in X PROVE Step(n, v) \in X
    BY <1>3a
<1> HIDE DEF base, Step, X
<1>4. step \in [(0 + 1..N) \X X -> X]
    <2> HIDE DEF N
    <2>1. 0 + 1..N = 1..N
        BY <1>1
    <2> QED BY <2>1, <1>3
<1>5. PICK g \in [0..N -> X] : Recursion(g, 0, N, base, step)
    <2> HIDE DEF N, step, F, f
    <2> QED BY <1>1, <1>2, <1>4, RecursionExists
<1>6. g[0] = base
    BY <1>5 DEF Recursion
<1>7. ASSUME NEW n \in 1..N PROVE g[n] = Step(n, g[n - 1])
    <2>1. n \in 0 + 1..N /\ n - 1 \in 0..N
        BY <1>1
    <2>2. <<n, g[n - 1]>> \in (0 + 1..N) \X X /\ g[n] = step[<<n, g[n - 1]>>]
        <3> HIDE DEF step, N
        <3> QED BY <2>1, <1>5 DEF Recursion
    <2> HIDE DEF N
    <2>3. step[<<n, g[n - 1]>>] = Step(n, g[n - 1])
        BY <2>2
    <2> HIDE DEF step
    <2> QED BY <2>2, <2>3
<1>8. g = F(g)
    <2> HIDE DEF step, N
    <2>1. \A n \in 0..N : g[n] = F(g)[n]
        <3> SUFFICES ASSUME NEW n \in 0..N PROVE g[n] = F(g)[n]
            OBVIOUS
        <3>1. CASE n = 0
            BY <1>6, <3>1
        <3>2. CASE n # 0
            <4>1. n \in 1..N
                BY <1>1, <3>2
            <4> QED BY <1>7, <3>2, <4>1
        <3> HIDE DEF F
        <3> QED BY <3>1, <3>2
    <2> QED BY <1>5, <2>1
<1>9. f = F(f)
    <2> HIDE DEF F
    <2> QED BY <1>8
<1> HIDE DEF f
<1>10. f[0] = base
    <2> HIDE DEF N
    <2> QED BY <1>1, <1>9
<1>11. ASSUME NEW n \in 1..N PROVE f[n] = Step(n, f[n - 1])
    <2>1. n \in 0..N /\ n # 0
        BY <1>1
    <2> HIDE DEF N
    <2> QED BY <1>9, <2>1
<1>12. \A n \in 0..N : f[n] \in X
    <2> DEFINE T == {n \in 0..N : f[n] \in X}
    <2>1. 0 \in T
        <3> HIDE DEF N
        <3> QED BY <1>1, <1>2, <1>10
    <2>2. ASSUME NEW n \in 0..N - 1, n \in T PROVE n + 1 \in T
        <3>1. n + 1 \in 1..N /\ n + 1 \in 0..N /\ (n + 1) - 1 = n /\ f[n] \in X
            BY <2>2, <1>1
        <3> HIDE DEF N
        <3>2. f[n + 1] = Step(n + 1, f[n])
            BY <3>1, <1>11
        <3> QED BY <3>1, <3>2, <1>3
    <2>3. 0..N \subseteq T
        <3> HIDE DEF T, N
        <3> QED BY <1>1, <2>1, <2>2, IntervalInduction
    <2> QED BY <2>3
<1>13. \A n \in 1..N : f[n] = ReplaceSpan(f[n - 1], ms[N + 1 - n])
    <2> SUFFICES ASSUME NEW n \in 1..N PROVE f[n] = ReplaceSpan(f[n - 1], ms[N + 1 - n])
        OBVIOUS
    <2>1. n - 1 \in 0..N
        BY <1>1
    <2> HIDE DEF N
    <2>2. f[n - 1] \in X
        BY <2>1, <1>12
    <2> QED BY <2>2, <1>3a, <1>11
<1>14. Redone(f, s, ms)
    BY <1>10, <1>12, <1>13 DEF Redone, base, X, Longer
<1> QED BY <1>0, <1>14

LEMMA LaterRedone ==
    ASSUME NEW s \in Seq(Glyphs), NEW ms, SpansIn(ms, s)
    PROVE  \E f : Redone(f, s, ms) /\ RedactLater(s, ms) = f[Len(ms)]
<1> DEFINE N    == Len(ms)
           X    == Longer(s)
           base == s
           Step(n, v) == IF Inside(v, ms[N + 1 - n]) THEN ReplaceSpan(v, ms[N + 1 - n]) ELSE v
           step == [p \in (0 + 1..N) \X X |-> Step(p[1], p[2])]
           F(f) == [n \in 0..N |-> IF n = 0 THEN base ELSE Step(n, f[n - 1])]
           f    == CHOOSE g : g = F(g)
<1>0. RedactLater(s, ms) = f[N]
    BY DEF RedactLater
<1>1. N \in Nat /\ N \in Int /\ 0 \in Int /\ 0 <= N
    BY DEF SpansIn
<1>2. base \in X
    BY DEF Longer
<1>3a. ASSUME NEW n \in 1..N, NEW v \in X
       PROVE  Step(n, v) = ReplaceSpan(v, ms[N + 1 - n]) /\ Step(n, v) \in X
    <2>1. N + 1 - n \in 1..N
        BY <1>1
    <2>2. SpanIn(ms[N + 1 - n], s)
        <3> HIDE DEF N
        <3>1. \A k \in 1..N : SpanIn(ms[k], s)
            BY DEF SpansIn, N
        <3> QED BY <2>1, <3>1
    <2>3. s \in X
        BY DEF Longer
    <2> HIDE DEF N
    <2>4. Inside(s, ms[N + 1 - n]) /\ Inside(v, ms[N + 1 - n]) /\ ReplaceSpan(v, ms[N + 1 - n]) \in X
        BY <2>2, <2>3, ReplacedSpan
    <2> QED BY <2>4
<1>3. ASSUME NEW n \in 1..N, NEW v \in X PROVE Step(n, v) \in X
    BY <1>3a
<1> HIDE DEF base, Step, X
<1>4. step \in [(0 + 1..N) \X X -> X]
    <2> HIDE DEF N
    <2>1. 0 + 1..N = 1..N
        BY <1>1
    <2> QED BY <2>1, <1>3
<1>5. PICK g \in [0..N -> X] : Recursion(g, 0, N, base, step)
    <2> HIDE DEF N, step, F, f
    <2> QED BY <1>1, <1>2, <1>4, RecursionExists
<1>6. g[0] = base
    BY <1>5 DEF Recursion
<1>7. ASSUME NEW n \in 1..N PROVE g[n] = Step(n, g[n - 1])
    <2>1. n \in 0 + 1..N /\ n - 1 \in 0..N
        BY <1>1
    <2>2. <<n, g[n - 1]>> \in (0 + 1..N) \X X /\ g[n] = step[<<n, g[n - 1]>>]
        <3> HIDE DEF step, N
        <3> QED BY <2>1, <1>5 DEF Recursion
    <2> HIDE DEF N
    <2>3. step[<<n, g[n - 1]>>] = Step(n, g[n - 1])
        BY <2>2
    <2> HIDE DEF step
    <2> QED BY <2>2, <2>3
<1>8. g = F(g)
    <2> HIDE DEF step, N
    <2>1. \A n \in 0..N : g[n] = F(g)[n]
        <3> SUFFICES ASSUME NEW n \in 0..N PROVE g[n] = F(g)[n]
            OBVIOUS
        <3>1. CASE n = 0
            BY <1>6, <3>1
        <3>2. CASE n # 0
            <4>1. n \in 1..N
                BY <1>1, <3>2
            <4> QED BY <1>7, <3>2, <4>1
        <3> HIDE DEF F
        <3> QED BY <3>1, <3>2
    <2> QED BY <1>5, <2>1
<1>9. f = F(f)
    <2> HIDE DEF F
    <2> QED BY <1>8
<1> HIDE DEF f
<1>10. f[0] = base
    <2> HIDE DEF N
    <2> QED BY <1>1, <1>9
<1>11. ASSUME NEW n \in 1..N PROVE f[n] = Step(n, f[n - 1])
    <2>1. n \in 0..N /\ n # 0
        BY <1>1
    <2> HIDE DEF N
    <2> QED BY <1>9, <2>1
<1>12. \A n \in 0..N : f[n] \in X
    <2> DEFINE T == {n \in 0..N : f[n] \in X}
    <2>1. 0 \in T
        <3> HIDE DEF N
        <3> QED BY <1>1, <1>2, <1>10
    <2>2. ASSUME NEW n \in 0..N - 1, n \in T PROVE n + 1 \in T
        <3>1. n + 1 \in 1..N /\ n + 1 \in 0..N /\ (n + 1) - 1 = n /\ f[n] \in X
            BY <2>2, <1>1
        <3> HIDE DEF N
        <3>2. f[n + 1] = Step(n + 1, f[n])
            BY <3>1, <1>11
        <3> QED BY <3>1, <3>2, <1>3
    <2>3. 0..N \subseteq T
        <3> HIDE DEF T, N
        <3> QED BY <1>1, <2>1, <2>2, IntervalInduction
    <2> QED BY <2>3
<1>13. \A n \in 1..N : f[n] = ReplaceSpan(f[n - 1], ms[N + 1 - n])
    <2> SUFFICES ASSUME NEW n \in 1..N PROVE f[n] = ReplaceSpan(f[n - 1], ms[N + 1 - n])
        OBVIOUS
    <2>1. n - 1 \in 0..N
        BY <1>1
    <2> HIDE DEF N
    <2>2. f[n - 1] \in X
        BY <2>1, <1>12
    <2> QED BY <2>2, <1>3a, <1>11
<1>14. Redone(f, s, ms)
    BY <1>10, <1>12, <1>13 DEF Redone, base, X, Longer
<1> QED BY <1>0, <1>14

(* A text in ASCII has as many bytes as characters.                        *)
LEMMA SizeOfAscii ==
    ASSUME NEW text, InAscii(text)
    PROVE  Size(text) = Len(text)
<1> DEFINE N == Len(text)
           F(f) == [n \in 0..N |-> IF n = 0 THEN 0 ELSE f[n - 1] + Bytes(text[n])]
           f == CHOOSE g : g = F(g)
           h == [n \in 0..N |-> n]
<1>1. N \in Nat /\ N \in Int /\ 0 \in Int /\ \A n \in 1..N : Bytes(text[n]) = 1
    BY DEF InAscii
<1>2. Size(text) = f[N]
    BY DEF Size
<1>3. h = F(h)
    <2> HIDE DEF N
    <2>1. ASSUME NEW n \in 0..N PROVE n = IF n = 0 THEN 0 ELSE h[n - 1] + Bytes(text[n])
        <3>1. CASE n = 0
            BY <3>1
        <3>2. CASE n # 0
            <4>1. n \in 1..N /\ n - 1 \in 0..N /\ n \in Int
                BY <1>1, <3>2
            <4>2. h[n - 1] = n - 1 /\ Bytes(text[n]) = 1
                BY <1>1, <4>1
            <4> HIDE DEF h
            <4> QED BY <3>2, <4>1, <4>2
        <3> QED BY <3>1, <3>2
    <2> QED BY <2>1
<1>4. f = F(f)
    <2> HIDE DEF F, h
    <2> QED BY <1>3
<1> HIDE DEF f, h
<1>5. f[0] = 0 /\ \A n \in 1..N : f[n] = f[n - 1] + 1
    <2> HIDE DEF N
    <2>1. 0 \in 0..N /\ \A n \in 1..N : n \in 0..N /\ n # 0
        BY <1>1
    <2> QED BY <1>1, <1>4, <2>1
<1> HIDE DEF F, N
<1> DEFINE T == {n \in 0..N : f[n] = n}
<1>6. 0 \in T
    BY <1>1, <1>5
<1>7. ASSUME NEW n \in 0..N - 1, n \in T PROVE n + 1 \in T
    <2>1. n + 1 \in 1..N /\ n + 1 \in 0..N /\ (n + 1) - 1 = n /\ f[n] = n
        BY <1>1, <1>7
    <2> QED BY <2>1, <1>5
<1>8. 0..N \subseteq T
    <2> HIDE DEF T
    <2> QED BY <1>1, <1>6, <1>7, IntervalInduction
<1>9. N \in 0..N
    BY <1>1
<1> QED BY <1>2, <1>8, <1>9 DEF N

LEMMA ByteSpanOfAscii ==
    ASSUME NEW text, InAscii(text), NEW i \in 1..Len(text)
    PROVE  ByteSpan(text, i) = [start |-> i - 1, end |-> i]
<1> DEFINE p == SubSeq(text, 1, i - 1)
<1>1. text \in Seq(Chars) /\ Len(text) \in Nat /\ i \in Nat /\ i >= 1 /\ i <= Len(text)
    BY DEF InAscii
<1>2. p \in Seq(Chars) /\ Len(p) = i - 1 /\ \A k \in 1..i - 1 : p[k] = text[k]
    BY <1>1
<1> HIDE DEF p
<1>3. \A k \in 1..i - 1 : Bytes(p[k]) = 1
    <2> SUFFICES ASSUME NEW k \in 1..i - 1 PROVE Bytes(p[k]) = 1
        OBVIOUS
    <2>1. k \in 1..Len(text)
        BY <1>1
    <2> QED BY <2>1, <1>2 DEF InAscii
<1>4. InAscii(p)
    BY <1>2, <1>3 DEF InAscii
<1>5. Size(p) = i - 1
    BY <1>2, <1>4, SizeOfAscii
<1>6. Bytes(text[i]) = 1
    BY DEF InAscii
<1>7. (i - 1) + 1 = i
    BY <1>1
<1> QED BY <1>5, <1>6, <1>7 DEF ByteSpan, p

-----------------------------------------------------------------------------
(* Where the characters of K are.                                          *)
Places(text, K) == Those([i \in 1..Len(text) |-> i], {i \in 1..Len(text) : text[i] \in K})

LEMMA PlacesAre ==
    ASSUME NEW X, NEW s \in Seq(X), NEW K
    PROVE  Places(s, K) \in Seq(1..Len(s)) /\ Len(Places(s, K)) \in Nat
<1> DEFINE all == [i \in 1..Len(s) |-> i]
           S == {i \in 1..Len(s) : s[i] \in K}
           N == Len(s)
<1>1. all \in Seq(1..N) /\ S \subseteq 1..N /\ Places(s, K) = Those(all, S)
    BY DEF Places
<1> HIDE DEF all, S, N
<1>2. Those(all, S) \in Seq((1..N) \cap S)
    BY <1>1, ThoseElements
<1>3. Those(all, S) \in Seq(1..N)
    <2> DEFINE r == Those(all, S)
    <2>1. r \in Seq((1..N) \cap S)
        BY <1>2
    <2> HIDE DEF r
    <2>2. \A i \in 1..Len(r) : r[i] \in 1..N
        BY <2>1
    <2>3. r \in Seq(1..N)
        BY <2>1, <2>2, ElementsOf
    <2> QED BY <2>3 DEF r
<1> QED BY <1>1, <1>3 DEF N

LEMMA PlacesOfNone == ASSUME NEW K PROVE Places(<<>>, K) = <<>>
<1>1. [i \in 1..Len(<<>>) |-> i] = <<>>
    OBVIOUS
<1> QED BY <1>1, ThoseOfNone DEF Places

LEMMA PlacesOfAppend ==
    ASSUME NEW X, NEW s \in Seq(X), NEW c \in X, NEW K
    PROVE  Places(Append(s, c), K) =
             IF c \in K THEN Append(Places(s, K), Len(s) + 1) ELSE Places(s, K)
<1> DEFINE N == Len(s)
           t == Append(s, c)
           all == [i \in 1..N |-> i]
           S == {i \in 1..N : s[i] \in K}
           R == {i \in 1..N + 1 : t[i] \in K}
<1>1. N \in Nat /\ t \in Seq(X) /\ Len(t) = N + 1 /\ t[N + 1] = c /\ \A i \in 1..N : t[i] = s[i]
    OBVIOUS
<1>2. Places(s, K) = Those(all, S) /\ Places(t, K) = Those([i \in 1..N + 1 |-> i], R)
    <2>1. Places(s, K) = Those(all, S)
        BY DEF Places
    <2> HIDE DEF t
    <2>2. Places(t, K) = Those([i \in 1..Len(t) |-> i], {i \in 1..Len(t) : t[i] \in K})
        BY DEF Places
    <2> HIDE DEF N
    <2> QED BY <1>1, <2>1, <2>2
<1> HIDE DEF t, N
<1>3. (1..N) \cap R = S /\ (N + 1 \in R <=> c \in K) /\ N + 1 \in Nat /\ 1..N \subseteq Nat
    BY <1>1
<1> HIDE DEF S, R
<1>4. all \in Seq(1..N) /\ all \in Seq(Nat) /\ ToSet(all) \subseteq 1..N
    <2>1. all \in Seq(1..N)
        BY <1>1
    <2>2. all \in Seq(Nat)
        BY <1>1
    <2> HIDE DEF all
    <2> QED BY <2>1, <2>2, ToSetElements
<1>5. [i \in 1..N + 1 |-> i] = Append(all, N + 1)
    <2> DEFINE p == [i \in 1..N + 1 |-> i]
               q == Append(all, N + 1)
    <2>1. p \in Seq(Nat) /\ Len(p) = N + 1 /\ \A i \in 1..N + 1 : p[i] = i
        BY <1>1
    <2>2. Len(all) = N /\ \A i \in 1..N : all[i] = i
        BY <1>1
    <2> HIDE DEF p, all
    <2>3. q \in Seq(Nat) /\ Len(q) = N + 1 /\ q[N + 1] = N + 1 /\ \A i \in 1..N : q[i] = all[i]
        BY <1>1, <1>3, <1>4, <2>2
    <2> HIDE DEF q
    <2>4. \A i \in 1..N + 1 : p[i] = q[i]
        <3> SUFFICES ASSUME NEW i \in 1..N + 1 PROVE p[i] = q[i]
            OBVIOUS
        <3>1. i = N + 1 \/ i \in 1..N
            BY <1>1
        <3> QED BY <3>1, <2>1, <2>2, <2>3
    <2>5. Len(p) = Len(q) /\ \A i \in 1..Len(p) : p[i] = q[i]
        BY <2>1, <2>3, <2>4
    <2>6. p = q
        BY <2>1, <2>3, <2>5, SameSequence
    <2> QED BY <2>6 DEF p, q
<1> HIDE DEF all
<1>4a. all \in Seq(Nat)
    BY <1>4
<1>6. Those(all, R) = Those(all, S)
    <2>1. Those(all, 1..N) = all
        BY <1>4, ThoseOfAll
    <2> DEFINE A == 1..N
    <2>2. Those(Those(all, A), R) = Those(all, A \cap R)
        <3> HIDE DEF A
        <3> QED BY <1>4a, ThoseOfThose
    <2> QED BY <2>1, <2>2, <1>3
<1>7. Those(Append(all, N + 1), R) = IF N + 1 \in R THEN Append(Those(all, R), N + 1) ELSE Those(all, R)
    <2> DEFINE x == N + 1
    <2>1. x \in Nat
        BY <1>3
    <2> HIDE DEF x
    <2>2. Those(Append(all, x), R) = IF x \in R THEN Append(Those(all, R), x) ELSE Those(all, R)
        BY <1>4a, <2>1, ThoseOfAppend
    <2> QED BY <2>2 DEF x
<1> QED BY <1>2, <1>3, <1>5, <1>6, <1>7 DEF t, N

(* The matches of one character each at these places.                      *)
MatchesAt(spots) == [k \in 1..Len(spots) |-> [start |-> spots[k] - 1, end |-> spots[k]]]

LEMMA ScanMatchesOfAscii ==
    ASSUME NEW text, InAscii(text), NEW K
    PROVE  /\ ScanMatches(text, K) = MatchesAt(Places(text, K))
           /\ SpansIn(ScanMatches(text, K), text)
           /\ Len(ScanMatches(text, K)) = Len(Places(text, K))
<1> DEFINE spots == Places(text, K)
           ms == MatchesAt(spots)
<1>1. text \in Seq(Chars) /\ Len(text) \in Nat
    BY DEF InAscii
<1>2. spots \in Seq(1..Len(text)) /\ Len(spots) \in Nat
    BY <1>1, PlacesAre
<1>3. ScanMatches(text, K) = [k \in 1..Len(spots) |-> ByteSpan(text, spots[k])]
    BY DEF ScanMatches, Places
<1> HIDE DEF spots
<1>4. \A k \in 1..Len(spots) : spots[k] \in 1..Len(text)
    BY <1>2
<1>5. \A k \in 1..Len(spots) : ByteSpan(text, spots[k]) = [start |-> spots[k] - 1, end |-> spots[k]]
    BY <1>4, ByteSpanOfAscii
<1>6. ScanMatches(text, K) = ms
    BY <1>3, <1>5 DEF MatchesAt
<1>7. Len(ms) = Len(spots) /\ \A k \in 1..Len(spots) : ms[k] = [start |-> spots[k] - 1, end |-> spots[k]]
    BY <1>2 DEF MatchesAt
<1> HIDE DEF ms
<1>8. ASSUME NEW k \in 1..Len(spots) PROVE SpanIn(ms[k], text)
    <2>1. spots[k] \in 1..Len(text)
        BY <1>4
    <2> DEFINE i == spots[k]
    <2>2. ms[k].start = i - 1 /\ ms[k].end = i /\ i \in 1..Len(text)
        <3>1. ms[k] = [start |-> i - 1, end |-> i]
            BY <1>7
        <3> QED BY <3>1, <2>1
    <2> HIDE DEF i
    <2> QED BY <2>2, <1>1 DEF SpanIn
<1> QED BY <1>2, <1>6, <1>7, <1>8 DEF SpansIn, ms, spots

-----------------------------------------------------------------------------
(* Matches replaced from the last to the first leave what is behind them.  *)
Redoes(s, K) ==
    \A tail \in Seq(Glyphs) : \A f :
        Redone(f, s \o tail, MatchesAt(Places(s, K))) =>
            f[Len(Places(s, K))] = ReplacedIn(s, K) \o tail

LEMMA RedoesNone == ASSUME NEW K PROVE Redoes(<<>>, K)
<1> SUFFICES ASSUME NEW tail \in Seq(Glyphs), NEW f, Redone(f, <<>> \o tail, MatchesAt(Places(<<>>, K)))
             PROVE  f[Len(Places(<<>>, K))] = ReplacedIn(<<>>, K) \o tail
    BY DEF Redoes
<1>1. f[0] = <<>> \o tail
    BY DEF Redone
<1> QED BY <1>1, PlacesOfNone, ReplacedOfNone

LEMMA RedoesMore ==
    ASSUME NEW s \in Seq(Glyphs), NEW K, Redoes(s, K), NEW c \in Glyphs
    PROVE  Redoes(Append(s, c), K)
<1> DEFINE t == Append(s, c)
           spots == Places(s, K)
           bt == Places(t, K)
           one == <<c>>
<1> SUFFICES ASSUME NEW tail \in Seq(Glyphs), NEW f, Redone(f, t \o tail, MatchesAt(bt))
             PROVE  f[Len(bt)] = ReplacedIn(t, K) \o tail
    BY DEF Redoes
<1>1. t \in Seq(Glyphs) /\ one \in Seq(Glyphs) /\ t = s \o one
    OBVIOUS
<1>2. bt = IF c \in K THEN Append(spots, Len(s) + 1) ELSE spots
    BY PlacesOfAppend
<1>3. ReplacedIn(s, K) \in Seq(Glyphs)
    BY ReplacedType
<1>4. ReplacedIn(t, K) = ReplacedIn(s, K) \o IF c \in K THEN Label ELSE one
    BY ReplacedOfAppend
<1>5. spots \in Seq(1..Len(s)) /\ Len(spots) \in Nat /\ Len(s) \in Nat
    BY PlacesAre
<1>6. t \o tail = s \o (one \o tail)
    <2> HIDE DEF one
    <2> QED BY <1>1
<1> HIDE DEF t, bt, spots, one
<1>7. CASE c \notin K
    <2>1. one \o tail \in Seq(Glyphs)
        BY <1>1
    <2>2. Redone(f, s \o (one \o tail), MatchesAt(spots))
        BY <1>2, <1>6, <1>7
    <2>3. f[Len(spots)] = ReplacedIn(s, K) \o (one \o tail)
        BY <2>1, <2>2 DEF Redoes, spots
    <2>4. ReplacedIn(s, K) \o (one \o tail) = (ReplacedIn(s, K) \o one) \o tail
        BY <1>1, <1>3
    <2> QED BY <2>3, <2>4, <1>2, <1>4, <1>7
<1>8. CASE c \in K
    <2> DEFINE M == Len(spots)
               ma == MatchesAt(spots)
               mb == MatchesAt(bt)
               m  == [start |-> Len(s), end |-> Len(s) + 1]
               g  == [n \in 0..M |-> f[n + 1]]
    <2>1. bt = Append(spots, Len(s) + 1) /\ M \in Nat
        BY <1>2, <1>5, <1>8
    <2>2. Len(bt) = M + 1 /\ bt[M + 1] = Len(s) + 1 /\ \A k \in 1..M : bt[k] = spots[k]
        BY <2>1, <1>5
    <2>3. /\ Len(ma) = M /\ Len(mb) = M + 1
          /\ \A k \in 1..M : mb[k] = ma[k]
          /\ mb[M + 1] = m
        <3>1. Len(ma) = M /\ \A k \in 1..M : ma[k] = [start |-> spots[k] - 1, end |-> spots[k]]
            BY <2>1 DEF MatchesAt
        <3>2. Len(mb) = M + 1 /\ \A k \in 1..M + 1 : mb[k] = [start |-> bt[k] - 1, end |-> bt[k]]
            BY <2>1, <2>2 DEF MatchesAt
        <3> HIDE DEF ma, mb, M
        <3>3. M + 1 \in 1..M + 1 /\ (Len(s) + 1) - 1 = Len(s) /\ \A k \in 1..M : k \in 1..M + 1
            BY <2>1, <1>5
        <3>4. mb[M + 1] = m
            BY <3>2, <3>3, <2>2
        <3>5. ASSUME NEW k \in 1..M PROVE mb[k] = ma[k]
            <4>1. k \in 1..M + 1 /\ bt[k] = spots[k]
                BY <3>3, <2>2
            <4> QED BY <4>1, <3>1, <3>2
        <3> QED BY <3>1, <3>2, <3>4, <3>5
    <2>4. /\ \A n \in 0..M + 1 : f[n] \in Seq(Glyphs)
          /\ f[0] = t \o tail
          /\ \A n \in 1..M + 1 : f[n] = ReplaceSpan(f[n - 1], mb[M + 1 + 1 - n])
        <3> HIDE DEF mb, M
        <3> QED BY <2>3 DEF Redone, mb
    <2> HIDE DEF ma, mb, M
    <2>5. f[1] = s \o (Label \o tail)
        <3> DEFINE u == s \o (one \o tail)
        <3>1. f[1] = ReplaceSpan(u, m)
            <4>1. 1 \in 1..M + 1 /\ M + 1 + 1 - 1 = M + 1 /\ 1 - 1 = 0
                BY <2>1
            <4>2. f[1] = ReplaceSpan(f[1 - 1], mb[M + 1 + 1 - 1])
                BY <2>4, <4>1
            <4> QED BY <4>1, <4>2, <2>3, <2>4, <1>6
        <3>2. SubSeq(u, 1, Len(s)) = s
            <4>1. one \o tail \in Seq(Glyphs)
                BY <1>1
            <4> QED BY <4>1, JoinedParts
        <3>3. SubSeq(u, Len(s) + 2, Len(u)) = tail
            <4>1. t \in Seq(Glyphs) /\ Len(t) = Len(s) + 1 /\ u = t \o tail
                BY <1>6, <1>5 DEF t
            <4>2. SubSeq(t \o tail, Len(t) + 1, Len(t \o tail)) = tail
                BY <4>1, JoinedParts
            <4>3. Len(t) + 1 = Len(s) + 2
                BY <4>1, <1>5
            <4> QED BY <4>1, <4>2, <4>3
        <3> HIDE DEF u
        <3>4. ReplaceSpan(u, m) = s \o Label \o tail
            <4>1. m.start = Len(s) /\ m.end + 1 = Len(s) + 2
                BY <1>5
            <4> QED BY <4>1, <3>2, <3>3 DEF ReplaceSpan
        <3>5. (s \o Label) \o tail = s \o (Label \o tail)
            BY LabelIs
        <3> QED BY <3>1, <3>4, <3>5
    <2>6. Redone(g, s \o (Label \o tail), ma)
        <3>1. /\ \A n \in 0..M : n + 1 \in 0..M + 1 /\ n + 1 \in 1..M + 1 /\ g[n] = f[n + 1]
              /\ 0 \in 0..M /\ 0 + 1 = 1
            BY <2>1
        <3> HIDE DEF g
        <3>2. ASSUME NEW n \in 1..M PROVE g[n] = ReplaceSpan(g[n - 1], ma[M + 1 - n])
            <4>1. /\ n \in 0..M /\ n - 1 \in 0..M /\ n + 1 \in 1..M + 1 /\ (n - 1) + 1 = n /\ (n + 1) - 1 = n
                  /\ M + 1 + 1 - (n + 1) = M + 1 - n /\ M + 1 - n \in 1..M
                BY <2>1
            <4>2. f[n + 1] = ReplaceSpan(f[(n + 1) - 1], mb[M + 1 + 1 - (n + 1)])
                BY <2>4, <4>1
            <4>3. g[n] = f[n + 1] /\ g[n - 1] = f[n]
                BY <3>1, <4>1
            <4>4. mb[M + 1 - n] = ma[M + 1 - n]
                BY <2>3, <4>1
            <4> QED BY <4>1, <4>2, <4>3, <4>4
        <3>3. g[0] = s \o (Label \o tail)
            BY <2>5, <3>1
        <3>4. \A n \in 0..M : g[n] \in Seq(Glyphs)
            BY <2>4, <3>1
        <3> QED BY <3>2, <3>3, <3>4, <2>3 DEF Redone
    <2>7. Label \o tail \in Seq(Glyphs)
        BY LabelIs
    <2>8. g[M] = ReplacedIn(s, K) \o (Label \o tail)
        <3> HIDE DEF g
        <3> QED BY <2>6, <2>7 DEF Redoes, spots, ma, M
    <2>9. g[M] = f[M + 1]
        BY <2>1
    <2>10. ReplacedIn(s, K) \o (Label \o tail) = (ReplacedIn(s, K) \o Label) \o tail
        BY <1>3, LabelIs
    <2> QED BY <2>2, <2>8, <2>9, <2>10, <1>4, <1>8
<1> QED BY <1>7, <1>8

LEMMA AllRedone ==
    ASSUME NEW K
    PROVE  \A s \in Seq(Glyphs) : Redoes(s, K)
<1> DEFINE T == {s \in Seq(Glyphs) : Redoes(s, K)}
<1>1. <<>> \in T
    BY RedoesNone
<1>2. ASSUME NEW s \in Seq(Glyphs), s \in T, NEW c \in Glyphs PROVE Append(s, c) \in T
    <2>1. Append(s, c) \in Seq(Glyphs)
        OBVIOUS
    <2> QED BY <1>2, <2>1, RedoesMore
<1>3. Seq(Glyphs) \subseteq T
    <2> HIDE DEF T
    <2> QED BY <1>1, <1>2, SeqInduction
<1> QED BY <1>3

(* Of a text in ASCII the matches are replaced, by either function.        *)
LEMMA AsciiRedone ==
    ASSUME NEW text, InAscii(text), NEW K
    PROVE  /\ RedactSpans(text, ScanMatches(text, K)) = ReplacedIn(text, K)
           /\ RedactLater(text, ScanMatches(text, K)) = ReplacedIn(text, K)
<1> DEFINE ms == ScanMatches(text, K)
           spots == Places(text, K)
<1>1. text \in Seq(Glyphs)
    <2>1. text \in Seq(Chars)
        BY DEF InAscii
    <2>2. \A i \in 1..Len(text) : text[i] \in Glyphs
        BY <2>1 DEF Glyphs
    <2> QED BY <2>1, <2>2, ElementsOf
<1>2. ms = MatchesAt(spots) /\ SpansIn(ms, text) /\ Len(ms) = Len(spots)
    BY ScanMatchesOfAscii
<1> HIDE DEF ms
<1>3. <<>> \in Seq(Glyphs) /\ text \o <<>> = text /\ ReplacedIn(text, K) \o <<>> = ReplacedIn(text, K)
    <2>1. ReplacedIn(text, K) \in Seq(Glyphs)
        BY <1>1, ReplacedType
    <2> QED BY <1>1, <2>1
<1>4. ASSUME NEW f, Redone(f, text, ms) PROVE f[Len(ms)] = ReplacedIn(text, K)
    <2>1. Redoes(text, K)
        BY <1>1, AllRedone
    <2> DEFINE tail == <<>>
    <2>2. tail \in Seq(Glyphs) /\ text \o tail = text /\ ReplacedIn(text, K) \o tail = ReplacedIn(text, K)
        BY <1>3
    <2> HIDE DEF tail
    <2>3. Redone(f, text \o tail, MatchesAt(spots))
        BY <1>2, <1>4, <2>2
    <2>4. f[Len(spots)] = ReplacedIn(text, K) \o tail
        BY <2>1, <2>2, <2>3 DEF Redoes
    <2> QED BY <1>2, <2>2, <2>4
<1>5. PICK f : Redone(f, text, ms) /\ RedactSpans(text, ms) = f[Len(ms)]
    BY <1>1, <1>2, SpansRedone
<1>6. PICK g : Redone(g, text, ms) /\ RedactLater(text, ms) = g[Len(ms)]
    BY <1>1, <1>2, LaterRedone
<1> QED BY <1>4, <1>5, <1>6 DEF ms

(* The units of a text in ASCII are its characters.                        *)
LEMMA UnitsOfAscii ==
    ASSUME NEW text, InAscii(text)
    PROVE  /\ Units(text) = text
           /\ \A i \in 1..Len(text) : UnitsOf(text[i]) = <<text[i]>>
<1>1. text \in Seq(Chars) /\ Len(text) \in Nat /\ text \in Seq(Glyphs)
    <2>1. text \in Seq(Chars)
        BY DEF InAscii
    <2>2. \A i \in 1..Len(text) : text[i] \in Glyphs
        BY <2>1 DEF Glyphs
    <2> QED BY <2>1, <2>2, ElementsOf
<1>2. ASSUME NEW i \in 1..Len(text) PROVE UnitsOf(text[i]) = <<text[i]>>
    <2>1. Bytes(text[i]) = 1
        BY DEF InAscii
    <2>2. text[i] # "emoji"
        BY <2>1 DEF Bytes
    <2> QED BY <2>2 DEF UnitsOf
<1>3. Units(text) = ReplacedIn(text, {})
    <2>1. Units(text) = FlattenSeq([i \in 1..Len(text) |-> UnitsOf(text[i])])
        BY DEF Units
    <2>2. [i \in 1..Len(text) |-> UnitsOf(text[i])] =
            [i \in 1..Len(text) |-> IF text[i] \in {} THEN Label ELSE <<text[i]>>]
        BY <1>2
    <2> QED BY <2>1, <2>2 DEF ReplacedIn
<1> DEFINE T == {s \in Seq(Glyphs) : ReplacedIn(s, {}) = s}
<1>4. <<>> \in T
    BY ReplacedOfNone
<1>5. ASSUME NEW s \in Seq(Glyphs), s \in T, NEW c \in Glyphs PROVE Append(s, c) \in T
    <2>1. ReplacedIn(Append(s, c), {}) = ReplacedIn(s, {}) \o <<c>>
        BY ReplacedOfAppend
    <2>2. s \o <<c>> = Append(s, c) /\ Append(s, c) \in Seq(Glyphs)
        OBVIOUS
    <2> QED BY <1>5, <2>1, <2>2
<1>6. Seq(Glyphs) \subseteq T
    <2> HIDE DEF T
    <2> QED BY <1>4, <1>5, SeqInduction
<1> QED BY <1>1, <1>2, <1>3, <1>6

(* Whatever engine looks at a text in ASCII, what it finds is replaced.    *)
LEMMA AsciiExpected ==
    ASSUME InAscii(content), monitor \in {"active", "other", "off"}
    PROVE  Redacted = Expected
<1>1. Units(content) = content /\ \A i \in 1..Len(content) : UnitsOf(content[i]) = <<content[i]>>
    BY UnitsOfAscii
<1>2. content \in Seq(Glyphs)
    <2>1. content \in Seq(Chars)
        BY DEF InAscii
    <2>2. \A i \in 1..Len(content) : content[i] \in Glyphs
        BY <2>1 DEF Glyphs
    <2> QED BY <2>1, <2>2, ElementsOf
<1>3. Expected = ReplacedIn(content, Findable)
    <2>1. [i \in 1..Len(content) |-> IF content[i] \in Findable THEN Label ELSE UnitsOf(content[i])] =
            [i \in 1..Len(content) |-> IF content[i] \in Findable THEN Label ELSE <<content[i]>>]
        BY <1>1
    <2> QED BY <2>1 DEF Expected, ReplacedIn
<1>4. \A s : RedactJs(s) = ReplacedIn(s, Numbers)
    BY DEF RedactJs, ReplacedIn
<1>5. ViaNative = ReplacedIn(content, Semantic \cup Numbers)
    BY <1>1, AsciiRedone DEF ViaNative
<1>6. RedactLater(content, ScanMatches(content, Semantic)) = ReplacedIn(content, Semantic)
    BY AsciiRedone
<1>7. ReplacedIn(ReplacedIn(content, Semantic), Numbers) = ReplacedIn(content, Semantic \cup Numbers)
    <2>1. "[" \notin Numbers /\ "]" \notin Numbers
        BY DEF Numbers
    <2> QED BY <1>2, <2>1, ReplacedTwice
<1>8. CASE native
    <2>1. Redacted = ViaNative
        BY <1>8 DEF Redacted, RedactPiiWithNer, RedactPii
    <2>2. Findable = Semantic \cup Numbers
        BY <1>8 DEF Findable
    <2> QED BY <2>1, <2>2, <1>3, <1>5
<1>9. CASE ~native /\ monitor = "active" /\ EndpointAnswers
    <2>1. Redacted = RedactJs(RedactLater(Units(content), ScanMatches(content, Semantic)))
        BY <1>9 DEF Redacted, RedactPiiWithNer
    <2>2. Findable = Semantic \cup Numbers
        BY <1>9 DEF Findable
    <2> QED BY <2>1, <2>2, <1>1, <1>3, <1>4, <1>6, <1>7
<1>10. CASE ~native /\ ~(monitor = "active" /\ EndpointAnswers)
    <2>1. Redacted = RedactJs(Units(content))
        BY <1>10 DEF Redacted, RedactPiiWithNer, RedactPii
    <2>2. Findable = Numbers
        BY <1>10 DEF Findable
    <2> QED BY <2>1, <2>2, <1>1, <1>3, <1>4
<1> QED BY <1>8, <1>9, <1>10

(* What a hook has returned is what it makes of the text.                  *)
HookInv ==
    /\ content \in Seq(Chars) /\ monitor \in {"active", "other", "off"}
    /\ result # <<>> => result[1].text = Redacted

LEMMA HookInitInv == HookInit => HookInv
<1> SUFFICES ASSUME HookInit PROVE HookInv
    OBVIOUS
<1>1. MaxChars \in Nat
    BY HookAssumption
<1>2. content \in Seq(Chars)
    BY <1>1, BoundedSeqIs DEF HookInit
<1> QED BY <1>2 DEF HookInit, HookInv

LEMMA HookStepInv == HookInv /\ [HookNext]_hookVars => HookInv'
<1> SUFFICES ASSUME HookInv, [HookNext]_hookVars PROVE HookInv'
    OBVIOUS
<1>1. CASE Hook
    <2>1. UNCHANGED <<content, hook, native, monitor, proxyUp, tokenKnown>>
        BY <1>1 DEF Hook
    <2>2. PICK threw \in BOOLEAN : result' = <<[text |-> Redacted, threw |-> threw]>>
        BY <1>1 DEF Hook
    <2>3. result'[1].text = Redacted
        BY <2>2
    <2>4. Redacted' = Redacted
        BY <2>1 DEF Redacted, RedactPiiWithNer, RedactPii, ViaNative, EndpointAnswers, NerHandlerAccepts
    <2> QED BY <2>1, <2>3, <2>4 DEF HookInv
<1>2. CASE UNCHANGED hookVars
    <2>1. UNCHANGED <<content, hook, native, monitor, proxyUp, tokenKnown, result>>
        BY <1>2 DEF hookVars
    <2>2. Redacted' = Redacted
        BY <2>1 DEF Redacted, RedactPiiWithNer, RedactPii, ViaNative, EndpointAnswers, NerHandlerAccepts
    <2> QED BY <2>1, <2>2 DEF HookInv
<1> QED BY <1>1, <1>2 DEF HookNext

(* A text in ASCII of any length leaves the hook with exactly what the     *)
(* engine finds replaced, whichever engine there is (redactViaNative,      *)
(* redactPiiWithNer, redactPiiJs).                                         *)
THEOREM HooksRedactAscii == HookSpec => []AsciiIsRedacted
<1>1. HookInv => AsciiIsRedacted
    <2> SUFFICES ASSUME HookInv, Returned, \A i \in DOMAIN content : Bytes(content[i]) = 1
                 PROVE  result[1].text = Expected
        BY DEF AsciiIsRedacted
    <2>1. InAscii(content) /\ monitor \in {"active", "other", "off"}
        BY DEF InAscii, HookInv
    <2> QED BY <2>1, AsciiExpected DEF HookInv, Returned
<1> QED BY <1>1, HookInitInv, HookStepInv, PTL DEF HookSpec
-----------------------------------------------------------------------------
(* Types of the detectors, the scanner, the hooks and the forwarded call.  *)

(* The entities are runs of tokens: what a begun entity reaches ends in    *)
(* the text, and is there.                                                 *)
LEMMA RunIs ==
    ASSUME NEW N \in Nat, NEW ls \in [1..N -> Labels], NEW i \in 1..N
    PROVE  RunOf(ls, i) \in i..Len(ls) /\ Len(ls) = N
<1>1. Len(ls) = N
    OBVIOUS
<1> DEFINE T == {j \in i..N : \A k \in i + 1..j : IsI(ls[k]) /\ TagOf(ls[k]) = TagOf(ls[i])}
<1>2. i \in T
    OBVIOUS
<1>3. T \in SUBSET (1..N)
    OBVIOUS
<1>4. PICK m \in T : \A x \in T : x <= m
    <2> HIDE DEF T
    <2> QED BY <1>2, <1>3, GreatestExists
<1>5. m \in i..N /\ \A k \in i + 1..m : IsI(ls[k]) /\ TagOf(ls[k]) = TagOf(ls[i])
    OBVIOUS
<1>6. m + 1 \notin T
    <2>1. ~(m + 1 <= m)
        BY <1>5
    <2> QED BY <1>4, <2>1
<1>7. CASE m < N
    <2>1. m + 1 \in i..N
        BY <1>5, <1>7
    <2>2. ~(\A k \in i + 1..m + 1 : IsI(ls[k]) /\ TagOf(ls[k]) = TagOf(ls[i]))
        BY <1>6, <2>1
    <2>3. ~(IsI(ls[m + 1]) /\ TagOf(ls[m + 1]) = TagOf(ls[i]))
        <3>1. \A k \in i + 1..m + 1 : k \in i + 1..m \/ k = m + 1
            BY <1>5
        <3> QED BY <1>5, <2>2, <3>1
    <2>4. TagOf(ls[m]) = TagOf(ls[i])
        <3>1. m = i \/ m \in i + 1..m
            BY <1>5
        <3> QED BY <1>5, <3>1
    <2>5. ls[m + 1] \in Labels /\ m + 1 # 1 /\ (m + 1) - 1 = m
        BY <2>1, <1>5
    <2>6. ls[m + 1] = 0 \/ IsB(ls[m + 1]) \/ IsI(ls[m + 1])
        <3>1. ls[m + 1] \in Nat
            BY <2>5, ModelAssumption DEF Labels
        <3> QED BY <3>1 DEF IsB, IsI
    <2>7. ls[m + 1] = 0 \/ Begins(ls, m + 1)
        BY <2>3, <2>4, <2>5, <2>6 DEF Begins
    <2> QED BY <1>1, <1>5, <1>7, <2>7 DEF RunOf
<1>8. CASE m = N
    BY <1>1, <1>5, <1>8 DEF RunOf
<1> QED BY <1>1, <1>5, <1>7, <1>8

(* Labels are chosen in the backward pass and read into tags at the end:   *)
(* one per token, and a tag ends in the text.                              *)
TagsOK ==
    /\ crfStage \in {"forward", "backward"} => labels = <<>> /\ pathScores = <<>>
    /\ crfStage \in {"decode", "done"} =>
         /\ Len(labels) = Len(weighed) /\ Len(pathScores) = Len(weighed)
    /\ crfStage # "done" => tags = {}
    /\ \A e \in tags : e.first <= e.last /\ e.last <= Len(weighed)

LEMMA CrfTypesInit == CrfInit => CrfInv /\ TagsOK
BY CrfInitInv DEF CrfInit, TagsOK

LEMMA CrfTypesStep == CrfInv /\ TagsOK /\ [CrfNext]_crfVars => CrfInv' /\ TagsOK'
<1> SUFFICES ASSUME CrfInv, TagsOK, [CrfNext]_crfVars PROVE CrfInv' /\ TagsOK'
    OBVIOUS
<1>1. CrfInv'
    BY CrfStepInv
<1>2. CASE Forward
    <2>1. UNCHANGED <<weighed, labels, pathScores, tags>> /\ crfStage = "forward"
          /\ crfStage' \in {"forward", "backward"}
        BY <1>2 DEF Forward
    <2> QED BY <1>1, <2>1 DEF TagsOK
<1>3. CASE Backward
    <2> DEFINE n == Len(weighed)
    <2>1. n \in Nat
        BY DEF CrfInv, WeighedOK
    <2>2. Len(labels') = n /\ Len(pathScores') = n
        BY <1>3, <2>1 DEF Backward
    <2>3. crfStage' = "decode" /\ UNCHANGED <<weighed, tags>> /\ crfStage = "backward"
        BY <1>3 DEF Backward
    <2> QED BY <1>1, <2>2, <2>3 DEF TagsOK
<1>4. CASE DecodeEntities
    <2>1. /\ crfStage = "decode" /\ crfStage' = "done"
          /\ UNCHANGED <<weighed, trellis, pointers, labels, pathScores>>
          /\ \A e \in tags' : \E i \in 1..Len(labels) : e.first = i /\ e.last = RunOf(labels, i)
        BY <1>4 DEF DecodeEntities
    <2>2. Len(weighed) \in Nat /\ labels \in [1..Len(weighed) -> Labels]
        BY <2>1 DEF CrfInv, WeighedOK, PathOK
    <2>3. \A e \in tags' : e.first <= e.last /\ e.last <= Len(weighed)
        <3> DEFINE N == Len(weighed)
        <3>1. N \in Nat /\ labels \in [1..N -> Labels] /\ Len(labels) = N
            BY <2>2
        <3> HIDE DEF N
        <3>2. \A i \in 1..N : RunOf(labels, i) \in i..N
            BY <3>1, RunIs
        <3>3. \A e \in tags' : e.first <= e.last /\ e.last <= N
            BY <2>1, <3>1, <3>2
        <3> QED BY <3>3 DEF N
    <2> QED BY <1>1, <2>1, <2>3 DEF TagsOK
<1>5. CASE UNCHANGED crfVars
    BY <1>1, <1>5 DEF crfVars, TagsOK
<1> QED BY <1>2, <1>3, <1>4, <1>5 DEF CrfNext

(* With what is known of the labels, the state of the tagger has its       *)
(* types.                                                                  *)
LEMMA CrfTypesHold == CrfInv /\ TagsOK => CrfTypeOK
<1> SUFFICES ASSUME CrfInv, TagsOK PROVE CrfTypeOK
    OBVIOUS
<1>1. /\ \A t \in DOMAIN trellis : trellis[t] \in [Labels -> Int]
      /\ \A t \in DOMAIN pointers : pointers[t] \in [Labels -> Labels]
      /\ Len(trellis) = Len(pointers)
    <2> DEFINE R == [Labels -> Int]
               P == [Labels -> Labels]
    <2>1. trellis \in Seq(R) /\ pointers \in Seq(P) /\ Len(pointers) = Len(trellis)
        BY DEF CrfInv, TrellisOK
    <2> HIDE DEF R, P
    <2>2. (\A t \in DOMAIN trellis : trellis[t] \in R) /\ \A t \in DOMAIN pointers : pointers[t] \in P
        BY <2>1
    <2> QED BY <2>1, <2>2 DEF R, P
<1>2. Len(labels) = Len(pathScores) /\ \A t \in DOMAIN labels : labels[t] \in Labels
    BY DEF CrfInv, StageOK, PathOK, TagsOK
<1> QED BY <1>1, <1>2 DEF CrfInv, StageOK, TagsOK, CrfTypeOK

-----------------------------------------------------------------------------
(* The scan does not run past the end of the text but by the one place     *)
(* that ends it.                                                           *)
InText == scanAt <= Len(markdown) + 1

LEMMA FenceTypesInit == FenceInit => PairInv /\ InText
<1> SUFFICES ASSUME FenceInit PROVE PairInv /\ InText
    OBVIOUS
<1>1. PairInv
    BY PairInitInv
<1>2. Len(markdown) \in Nat /\ scanAt = 1
    BY <1>1, IsTextMeans DEF PairInv, BlankInv, FenceInit
<1> QED BY <1>1, <1>2 DEF InText

LEMMA FenceTypesStep == PairInv /\ InText /\ [FenceNext]_fenceVars => PairInv' /\ InText'
<1> SUFFICES ASSUME PairInv, InText, [FenceNext]_fenceVars PROVE PairInv' /\ InText'
    OBVIOUS
<1>1. PairInv'
    BY PairStepInv
<1>2. IsText /\ Len(markdown) \in Nat /\ scanAt \in Nat /\ scanAt >= 1 /\ BlankInv
    BY IsTextMeans DEF PairInv, BlankInv, Copied
<1>3. CASE MaskFence
    <2>1. scanAt' <= Len(markdown) + 1 /\ UNCHANGED markdown
        BY <1>2, <1>3, FenceKeeps
    <2> QED BY <1>1, <2>1 DEF InText
<1>4. CASE MaskInline /\ NextTicks(scanAt) # {}
    <2>1. scanAt \in 1..Len(markdown) /\ UNCHANGED markdown
        BY <1>2, <1>4 DEF MaskInline
    <2>2. Min(NextTicks(scanAt)) \in 1..Len(markdown)
        BY <1>2, <1>4, <2>1, NextTickIs
    <2>3. scanAt' = Min(NextTicks(scanAt)) + 1
        BY <1>4 DEF MaskInline
    <2> QED BY <1>1, <1>2, <2>1, <2>2, <2>3 DEF InText
<1>5. CASE MaskInline /\ NextTicks(scanAt) = {}
    BY <1>1, <1>2, <1>5 DEF MaskInline, InText
<1>6. CASE PassUnclosed
    BY <1>1, <1>2, <1>6 DEF PassUnclosed, TicksAt, InText
<1>7. CASE PassByte
    BY <1>1, <1>2, <1>7 DEF PassByte, InText
<1>8. CASE UNCHANGED fenceVars
    BY <1>1, <1>8 DEF fenceVars, InText
<1> QED BY <1>3, <1>4, <1>5, <1>6, <1>7, <1>8 DEF FenceNext

(* With it the scan for fences has its types.                              *)
LEMMA FenceTypesHold == PairInv /\ InText => FenceTypeOK
<1> SUFFICES ASSUME PairInv, InText PROVE FenceTypeOK
    OBVIOUS
<1>1. Len(markdown) \in Nat
    BY IsTextMeans DEF PairInv, BlankInv
<1>2. /\ scanAt \in Nat /\ scanAt >= 1 /\ Len(blankedText) = Len(markdown)
      /\ blankedText \in Seq(TextBytes \cup {" "})
    BY DEF PairInv, BlankInv, Copied
<1>3. scanAt \in 1..Len(markdown) + 1
    <2> DEFINE N == Len(markdown)
    <2>1. N \in Nat /\ scanAt \in Nat /\ scanAt >= 1 /\ scanAt <= N + 1
        BY <1>1, <1>2 DEF InText
    <2> HIDE DEF N
    <2>2. scanAt \in 1..N + 1
        BY <2>1
    <2> QED BY <2>2 DEF N
<1> QED BY <1>2, <1>3 DEF FenceTypeOK

(* A match lies in the text it was found in.                               *)
LEMMA ScanInText ==
    ASSUME NEW t \in Seq(Vocabulary), NEW f \in ScanDictionary(t)
    PROVE  f.start < f.end /\ f.end <= Len(t) + 1
<1>1. PICK two : /\ Walked(two, Len(t), Window(t, 3), Window(t, 2), 2)
                 /\ ScanDictionary(t) = More(t, two) \cup Singles(t, two)
    BY ScanIs
<1>2. f \in Window(t, 3) \/ f \in Window(t, 2) \/ f \in Window(t, 1)
    <2>1. CASE f \in More(t, two)
        <3>1. Len(t) \in 0..Len(t)
            OBVIOUS
        <3> QED BY <1>1, <2>1, <3>1, MoreElements DEF More
    <2>2. CASE f \in Singles(t, two)
        BY <2>2 DEF Singles
    <2> QED BY <1>1, <2>1, <2>2
<1>3. \A n \in 1..3 : f \in Window(t, n) => f.start < f.end /\ f.end <= Len(t) + 1
    BY WindowElements
<1> QED BY <1>2, <1>3

(* Besides what RiInv says: flags lie in the prose, and the warning goes   *)
(* into a field of the body or nowhere.                                    *)
RiTypes ==
    /\ body \in AnswerShapes
    /\ sensitivity \in {"off", "low", "medium", "high"} /\ model \in {"absent", "loaded"}
    /\ stage \in {"received", "extracted", "flagged", "window", "merged", "reported", "done"}
    /\ \A f \in flags : f.start < f.end /\ f.end <= Len(prose) + 1
    /\ role \in {"not_used", "confirm", "suppress", "upgrade", "discover"}
    /\ report.tier \in 0..3
    /\ label \in 0..Len(body.fields)

LEMMA RiTypesInit == RiInit => RiInv /\ RiTypes
<1> SUFFICES ASSUME RiInit PROVE RiInv /\ RiTypes
    OBVIOUS
<1>1. RiInv
    BY RiInitInv
<1>2. Len(body.fields) \in Nat
    BY DEF RiInit, AnswerShapes
<1> QED BY <1>1, <1>2 DEF RiInit, RiTypes, NoReport

(* The field that takes the warning is one of the body.                    *)
LEMMA WarningIsInBody ==
    ASSUME NEW b \in AnswerShapes PROVE InjectWarning(b) \in 0..Len(b.fields)
<1>1. Len(b.fields) \in Nat
    BY DEF AnswerShapes
<1>2. CASE TextFields(b) = {}
    BY <1>1, <1>2 DEF InjectWarning
<1>3. CASE TextFields(b) # {}
    <2>1. TextFields(b) \in SUBSET (1..Len(b.fields))
        BY DEF TextFields
    <2>2. PICK m \in TextFields(b) : \A x \in TextFields(b) : m <= x
        BY <1>1, <1>3, <2>1, LeastExists
    <2>3. InjectWarning(b) \in TextFields(b)
        BY <1>3, <2>2 DEF InjectWarning
    <2> QED BY <1>1, <2>1, <2>3
<1> QED BY <1>2, <1>3

LEMMA RiTypesStep == RiInv /\ RiTypes /\ [RiNext]_riVars => RiInv' /\ RiTypes'
<1> SUFFICES ASSUME RiInv, RiTypes, [RiNext]_riVars PROVE RiInv' /\ RiTypes'
    OBVIOUS
<1>inv. RiInv'
    BY RiStepInv
<1>known. /\ prose \in Seq(Vocabulary) /\ (stage \in {"received", "extracted"} => flags = {})
          /\ Categories(flags) \subseteq CategoryNames
    BY DEF RiInv
<1>role. \A found : RoleOf(found) \in {"not_used", "confirm", "suppress", "upgrade", "discover"}
    BY DEF RoleOf
<1>1. CASE Extract
    <2>1. /\ stage = "received" /\ stage' \in {"extracted", "done"}
          /\ UNCHANGED <<flags, prediction, role, report, label, body, sensitivity, model>>
        BY <1>1 DEF Extract, OnlyScan
    <2>2. flags' = {}
        BY <1>known, <2>1
    <2> QED BY <1>inv, <2>1, <2>2 DEF RiTypes
<1>2. CASE ScanR1
    <2>1. /\ flags' = ScanDictionary(prose) /\ stage' = "flagged"
          /\ UNCHANGED <<prose, prediction, role, report, label, body, sensitivity, model>>
        BY <1>2 DEF ScanR1, OnlyScan
    <2>2. \A f \in flags' : f.start < f.end /\ f.end <= Len(prose) + 1
        BY <1>known, <2>1, ScanInText
    <2> QED BY <1>inv, <2>1, <2>2 DEF RiTypes
<1>3. CASE SkipR2 \/ R2Fails
    <2>1. /\ stage' = "merged"
          /\ UNCHANGED <<prose, flags, prediction, role, report, label, body, sensitivity, model>>
        BY <1>3 DEF SkipR2, R2Fails, OnlyScan
    <2> QED BY <1>inv, <2>1 DEF RiTypes
<1>4. CASE PredictWindow \/ PredictAll
    <2>1. /\ stage' \in {"merged", "window"}
          /\ UNCHANGED <<prose, flags, report, label, body, sensitivity, model>>
          /\ role' = role \/ \E found : role' = RoleOf(found)
        BY <1>4 DEF PredictWindow, PredictAll, OnlyScan
    <2> QED BY <1>inv, <1>role, <2>1 DEF RiTypes
<1>5. CASE Merge
    <2> DEFINE tier == Severity(flags, prediction.found, prediction.scores)
    <2>1. /\ stage' \in {"done", "reported"}
          /\ UNCHANGED <<prose, flags, prediction, role, label, body, sensitivity, model>>
          /\ report'.tier \in {tier, 0}
        BY <1>5 DEF Merge, OnlyScan, NoReport
    <2>2. tier \in 1..3
        BY DEF Severity
    <2> HIDE DEF tier
    <2> QED BY <1>inv, <2>1, <2>2 DEF RiTypes
<1>6. CASE Inject
    <2>1. /\ stage' = "done"
          /\ UNCHANGED <<prose, flags, prediction, role, report, body, sensitivity, model>>
          /\ label' \in {0, InjectWarning(body)}
        BY <1>6 DEF Inject, OnlyScan
    <2>2. InjectWarning(body) \in 0..Len(body.fields)
        BY WarningIsInBody DEF RiTypes
    <2>3. label' \in 0..Len(body.fields)
        BY <2>1, <2>2
    <2> QED BY <1>inv, <2>1, <2>3 DEF RiTypes
<1>7. CASE UNCHANGED riVars
    BY <1>inv, <1>7 DEF riVars, RiTypes
<1> QED BY <1>1, <1>2, <1>3, <1>4, <1>5, <1>6, <1>7 DEF RiNext

(* With it the check of a response has its types.                          *)
LEMMA RiTypesHold == RiInv /\ RiTypes => RiTypeOK
BY DEF RiInv, RiTypes, RiTypeOK, AnswerShapes

(* What a line is restored to has the letters of answers.                  *)
LEMMA RestoredType ==
    ASSUME NEW t \in Seq(AnswerCells) PROVE Restored(t) \in Seq(AnswerCells)
<1> DEFINE A == Seq(AnswerCells)
           N == Len(t)
           put(u, c) == IF c = "k" /\ u # <<>> /\ Last(u) = "t" THEN Front(u) \o <<"P">>
                        ELSE Append(u, c)
           step == [p \in (0 + 1..N) \X A |-> put(p[2], t[p[1]])]
           F(u) == [n \in 0..N |->
                      IF n = 0 THEN <<>>
                      ELSE IF t[n] = "k" /\ u[n - 1] # <<>> /\ Last(u[n - 1]) = "t"
                           THEN Front(u[n - 1]) \o <<"P">>
                           ELSE Append(u[n - 1], t[n])]
           upTo == CHOOSE u : u = F(u)
<1>1. N \in Nat /\ <<>> \in A /\ \A i \in 1..N : t[i] \in AnswerCells
    OBVIOUS
<1>2. \A u \in A, c \in AnswerCells : put(u, c) \in A
    <2> TAKE u \in A, c \in AnswerCells
    <2>1. Append(u, c) \in A
        OBVIOUS
    <2>2. u # <<>> => Front(u) \o <<"P">> \in A
        BY DEF Front, AnswerCells
    <2> QED BY <2>1, <2>2
<1>3. step \in [(0 + 1..N) \X A -> A]
    <2>1. \A p \in (0 + 1..N) \X A : t[p[1]] \in AnswerCells /\ p[2] \in A
        BY <1>1
    <2> HIDE DEF A, put, N
    <2> QED BY <1>2, <2>1
<1>4. PICK g \in [0..N -> A] : Recursion(g, 0, N, <<>>, step)
    <2>1. 0 \in Int /\ N \in Int /\ 0 <= N
        BY <1>1
    <2> HIDE DEF A, N, step
    <2> QED BY <1>1, <1>3, <2>1, RecursionExists
<1>5. ASSUME NEW n \in 1..N PROVE g[n] = put(g[n - 1], t[n])
    <2>1. n \in 0 + 1..N /\ n - 1 \in 0..N
        BY <1>1
    <2>2. <<n, g[n - 1]>> \in (0 + 1..N) \X A
        <3> HIDE DEF A, N
        <3> QED BY <1>4, <2>1
    <2>3. g[n] = step[<<n, g[n - 1]>>]
        <3> HIDE DEF A, N, step
        <3> QED BY <1>4, <2>1 DEF Recursion
    <2> HIDE DEF A, N, put
    <2> QED BY <2>2, <2>3
<1>6. g = F(g)
    <2>1. ASSUME NEW n \in 0..N PROVE g[n] = F(g)[n]
        <3>1. CASE n = 0
            BY <1>4, <3>1 DEF Recursion
        <3>2. CASE n # 0
            <4>1. n \in 1..N
                BY <1>1, <3>2
            <4> QED BY <1>5, <4>1, <3>2
        <3> QED BY <3>1, <3>2
    <2>2. F(g) = [n \in 0..N |-> F(g)[n]] /\ g = [n \in 0..N |-> g[n]]
        <3>1. F(g) = [n \in 0..N |-> F(g)[n]]
            OBVIOUS
        <3> HIDE DEF F, A, N
        <3> QED BY <1>4, <3>1
    <2> HIDE DEF F, N
    <2> QED BY <2>1, <2>2
<1>7. upTo = F(upTo)
    <2> HIDE DEF F
    <2> QED BY <1>6
<1> HIDE DEF upTo
<1>8. 0..N \subseteq {n \in 0..N : upTo[n] \in A}
    <2> DEFINE S == {n \in 0..N : upTo[n] \in A}
    <2>1. 0 \in S
        <3>1. 0 \in 0..N
            BY <1>1
        <3>2. upTo[0] = F(upTo)[0]
            <4> HIDE DEF F
            <4> QED BY <1>7
        <3>3. upTo[0] = <<>>
            BY <3>1, <3>2
        <3> HIDE DEF A
        <3> QED BY <1>1, <3>1, <3>3
    <2>2. ASSUME NEW n \in 0..N - 1, n \in S PROVE n + 1 \in S
        <3>1. n + 1 \in 0..N /\ n + 1 # 0 /\ (n + 1) - 1 = n /\ n + 1 \in 1..N
            BY <1>1
        <3>2. upTo[n + 1] = F(upTo)[n + 1]
            <4> HIDE DEF F
            <4> QED BY <1>7
        <3>3. upTo[n + 1] = put(upTo[n], t[n + 1])
            BY <3>1, <3>2
        <3>4. t[n + 1] \in AnswerCells /\ upTo[n] \in A
            BY <1>1, <2>2, <3>1
        <3> HIDE DEF A, put, N
        <3> QED BY <1>2, <3>1, <3>3, <3>4
    <2> HIDE DEF S, A, N
    <2>3. 0 \in Int /\ N \in Int
        BY <1>1
    <2>4. \A n \in 0..N - 1 : n \in S => n + 1 \in S
        BY <2>2
    <2>5. 0..N \subseteq S
        BY <2>1, <2>3, <2>4, IntervalInduction
    <2> QED BY <2>5 DEF S
<1>9. Restored(t) = upTo[N]
    BY DEF Restored, upTo
<1>10. N \in 0..N
    BY <1>1
<1> QED BY <1>8, <1>9, <1>10

(* The length of a body in lines is a number.                              *)
LEMMA BodySizeIsNat ==
    ASSUME NEW lines \in Seq(NdjsonLine) PROVE BodySize(lines) \in Nat
<1> DEFINE C  == AnswerCells \cup {"nl"}
           Y  == Seq(C)
           ss == [i \in DOMAIN lines |-> Append(lines[i].text, "nl")]
<1>1. Len(lines) \in Nat /\ DOMAIN lines = 1..Len(lines)
      /\ \A i \in 1..Len(lines) : lines[i].text \in Seq(AnswerCells)
    <2>1. Len(lines) \in Nat /\ DOMAIN lines = 1..Len(lines)
          /\ \A i \in 1..Len(lines) : lines[i] \in NdjsonLine
        OBVIOUS
    <2> QED BY <2>1 DEF NdjsonLine
<1>2. \A t \in Seq(AnswerCells) : Append(t, "nl") \in Y
    <2> TAKE t \in Seq(AnswerCells)
    <2>1. t \in Seq(C) /\ "nl" \in C
        OBVIOUS
    <2> HIDE DEF C
    <2> QED BY <2>1
<1>3. ss \in Seq(Y)
    <2>1. \A i \in 1..Len(lines) : ss[i] \in Y
        <3> HIDE DEF Y
        <3> QED BY <1>1, <1>2
    <2>2. ss = [i \in 1..Len(lines) |-> ss[i]]
        BY <1>1
    <2> HIDE DEF ss, Y
    <2> QED BY <1>1, <2>1, <2>2
<1>4. FlattenSeq(ss) \in Seq(C)
    <2> HIDE DEF ss, C
    <2> QED BY <1>3, FlattenType
<1>5. Len(FlattenSeq(ss)) \in Nat
    <2> HIDE DEF ss, C
    <2> QED BY <1>4
<1> QED BY <1>5 DEF BodySize

(* A declared length is a number or absent, and what is sent upstream has  *)
(* the letters of answers.                                                 *)
FwdLengths ==
    /\ outgoing.declared \in Nat \cup {Undeclared}
    /\ replied.declared \in Nat \cup {Undeclared}
    /\ outgoing.text \in Seq(AnswerCells) /\ call.text \in Seq(AnswerCells)
    /\ fwd \in [mode : {"proxy", "passthrough"}, scanning : BOOLEAN, integrity : BOOLEAN]
    /\ fwdStep \in {"route", "mask", "send", "await", "reply", "replied", "refused"}
    /\ chosen = <<>> \/ \E p \in Providers : chosen = <<p>>

(* What is masked has the letters of answers.                              *)
LEMMA MaskedType ==
    ASSUME NEW t \in Seq(AnswerCells) PROVE Masked(t) \in Seq(AnswerCells)
<1> DEFINE Y  == Seq(AnswerCells)
           ss == [i \in DOMAIN t |-> IF t[i] = "P" THEN <<"t", "k">> ELSE <<"x">>]
<1>1. <<"t", "k">> \in Y /\ <<"x">> \in Y /\ Len(t) \in Nat /\ DOMAIN t = 1..Len(t)
    BY DEF AnswerCells
<1>2. ss \in Seq(Y)
    <2>1. ss = [i \in 1..Len(t) |-> ss[i]] /\ \A i \in 1..Len(t) : ss[i] \in Y
        <3> HIDE DEF Y
        <3> QED BY <1>1
    <2> HIDE DEF ss, Y
    <2> QED BY <1>1, <2>1
<1>3. FlattenSeq(ss) \in Seq(AnswerCells)
    <2> HIDE DEF ss
    <2> QED BY <1>2, FlattenType
<1> QED BY <1>3 DEF Masked

(* The lines the client is given are lines.                                *)
LEMMA ProcessedType ==
    ASSUME answered.lines \in Seq(NdjsonLine) PROVE ProcessResponseBody \in Seq(NdjsonLine)
<1> DEFINE lines == answered.lines
<1>0. lines \in Seq(NdjsonLine)
    OBVIOUS
<1>1. Len(lines) \in Nat /\ DOMAIN lines = 1..Len(lines)
      /\ \A i \in 1..Len(lines) : lines[i] \in NdjsonLine
    OBVIOUS
<1>2. EachRestored(lines) \in Seq(NdjsonLine)
    <2>1. \A l \in NdjsonLine : [l EXCEPT !.text = Restored(@)] \in NdjsonLine
        <3> TAKE l \in NdjsonLine
        <3>1. l.text \in Seq(AnswerCells) /\ l = [kind |-> l.kind, text |-> l.text] /\ l.kind \in LineKinds
            BY DEF NdjsonLine
        <3>2. Restored(l.text) \in Seq(AnswerCells)
            BY <3>1, RestoredType
        <3>3. [l EXCEPT !.text = Restored(@)] = [kind |-> l.kind, text |-> Restored(l.text)]
            BY <3>1
        <3> QED BY <3>1, <3>2, <3>3 DEF NdjsonLine
    <2> HIDE DEF lines
    <2>2. \A i \in 1..Len(lines) : EachRestored(lines)[i] \in NdjsonLine
        BY <1>1, <2>1 DEF EachRestored
    <2>3. EachRestored(lines) = [i \in 1..Len(lines) |-> EachRestored(lines)[i]]
        BY <1>1 DEF EachRestored
    <2> QED BY <1>1, <2>2, <2>3
<1>3. ASSUME Collapsible(lines) PROVE CollapseNdjson(lines) \in Seq(NdjsonLine)
    <2> DEFINE S == {l \in ToSet(lines) : l.kind # "garbage"}
               parsed == Those(lines, S)
               one == [kind |-> lines[1].kind, text |-> Restored(Fields(lines[1].kind, lines))]
    <2>1. 1 \in 1..Len(lines) /\ lines[1].kind \in {"chat", "generate"}
        BY <1>1, <1>3 DEF Collapsible
    <2>2. one \in NdjsonLine
        <3>1. Fields(lines[1].kind, lines) \in Seq(AnswerCells)
            <4> HIDE DEF lines
            <4> QED BY TextsAre, FlattenType, <1>0
        <3>2. Restored(Fields(lines[1].kind, lines)) \in Seq(AnswerCells)
            <4> HIDE DEF lines
            <4> QED BY <3>1, RestoredType
        <3> HIDE DEF lines
        <3> QED BY <2>1, <3>2 DEF NdjsonLine, LineKinds
    <2>3. parsed \in Seq(NdjsonLine) /\ parsed # <<>>
        <3>1. parsed \in Seq(NdjsonLine \cap S) /\ ToSet(parsed) = ToSet(lines) \cap S
            <4> HIDE DEF S, lines
            <4> QED BY ThoseElements, <1>0
        <3>2. lines[1] \in ToSet(lines)
            BY <1>1, <2>1 DEF ToSet
        <3>3. lines[1] \in ToSet(parsed)
            <4> HIDE DEF parsed, lines
            <4> QED BY <2>1, <3>1, <3>2
        <3> HIDE DEF parsed, S, lines
        <3>4. parsed # <<>>
            BY <3>3 DEF ToSet
        <3>5. parsed \in Seq(NdjsonLine)
            BY <3>1
        <3> QED BY <3>4, <3>5
    <2>4. Last(parsed) \in NdjsonLine
        <3> HIDE DEF parsed
        <3> QED BY <2>3 DEF Last
    <2>5. CollapseNdjson(lines) = <<Last(parsed)>> \/ CollapseNdjson(lines) = <<one>>
        <3> HIDE DEF lines
        <3> QED BY DEF CollapseNdjson
    <2> HIDE DEF parsed, one, lines
    <2> QED BY <2>2, <2>4, <2>5
<1>4. ProcessResponseBody \in {lines, CollapseNdjson(lines), EachRestored(lines)}
      /\ \/ ProcessResponseBody = CollapseNdjson(lines) /\ Collapsible(lines)
         \/ ProcessResponseBody \in {lines, EachRestored(lines)}
    BY DEF ProcessResponseBody, EachRestored
<1> HIDE DEF lines
<1> QED BY <1>2, <1>3, <1>4, <1>0

LEMMA FwdTypesInit == ForwardInit => FwdInv /\ FwdLengths
<1> SUFFICES ASSUME ForwardInit PROVE FwdInv /\ FwdLengths
    OBVIOUS
<1>1. FwdInv
    BY FwdInitInv
<1>2. call.text \in Seq({"P", "x"})
    BY ForwardAssumption DEF ForwardInit
<1>3. call.text \in Seq(AnswerCells)
    BY <1>2 DEF AnswerCells
<1>4. outgoing.declared = Undeclared /\ outgoing.text = call.text
    BY DEF ForwardInit, NoCall
<1>5. replied.declared = Undeclared
    BY DEF ForwardInit, NoReply
<1> QED BY <1>1, <1>3, <1>4, <1>5 DEF ForwardInit, FwdLengths

LEMMA FwdTypesStep == FwdInv /\ FwdLengths /\ [ForwardNext]_forwardVars => FwdInv' /\ FwdLengths'
<1> SUFFICES ASSUME FwdInv, FwdLengths, [ForwardNext]_forwardVars PROVE FwdInv' /\ FwdLengths'
    OBVIOUS
<1>inv. FwdInv'
    BY FwdStepInv
<1>known. /\ outgoing = [path |-> outgoing.path, headers |-> outgoing.headers,
                         declared |-> outgoing.declared, text |-> outgoing.text]
          /\ answered.lines \in Seq(NdjsonLine)
          /\ answered.declared \in {Undeclared, BodySize(answered.lines)}
    BY DEF FwdInv, FwdTypes, FwdAnswer
<1>1. CASE Route
    <2>1. /\ fwdStep' \in {"refused", "mask", "send"}
          /\ chosen' = chosen \/ \E p \in ResolveProvider(call.path) : chosen' = <<p>>
          /\ UNCHANGED <<fwd, call, outgoing, exposed, answered, replied>>
        BY <1>1 DEF Route
    <2>2. ResolveProvider(call.path) \subseteq Providers
        BY DEF ResolveProvider
    <2> QED BY <1>inv, <2>1, <2>2 DEF FwdLengths
<1>2. CASE MaskCall
    <2>1. /\ fwdStep' \in {"send", "refused"}
          /\ UNCHANGED <<fwd, call, chosen, answered, replied>>
          /\ \/ outgoing' = outgoing
             \/ \E t \in {Masked(call.text), call.text} : outgoing' = [outgoing EXCEPT !.text = t]
        BY <1>2 DEF MaskCall
    <2>2. Masked(call.text) \in Seq(AnswerCells) /\ call.text \in Seq(AnswerCells)
        BY MaskedType DEF FwdLengths
    <2>3. outgoing'.declared = outgoing.declared /\ outgoing'.text \in Seq(AnswerCells)
        BY <1>known, <2>1, <2>2 DEF FwdLengths
    <2> QED BY <1>inv, <2>1, <2>3 DEF FwdLengths
<1>3. CASE SendUpstream
    <2>1. /\ fwdStep' = "await" /\ UNCHANGED <<fwd, call, chosen, exposed, answered, replied>>
          /\ outgoing' \in {BuildUpstreamRequest, PassthroughRequest}
        BY <1>3 DEF SendUpstream
    <2>2. /\ BuildUpstreamRequest.text = outgoing.text
          /\ BuildUpstreamRequest.declared = Len(outgoing.text)
          /\ PassthroughRequest.text = call.text
          /\ PassthroughRequest.declared = Len(call.text)
        BY <1>known DEF BuildUpstreamRequest, PassthroughRequest
    <2>3. outgoing'.text \in Seq(AnswerCells) /\ outgoing'.declared \in Nat
        BY <2>1, <2>2 DEF FwdLengths
    <2> QED BY <1>inv, <2>1, <2>3 DEF FwdLengths
<1>4. CASE UpstreamAnswers
    <2>1. /\ fwdStep' \in {"reply", "refused"}
          /\ UNCHANGED <<fwd, call, chosen, outgoing, exposed, replied>>
        BY <1>4 DEF UpstreamAnswers
    <2> QED BY <1>inv, <2>1 DEF FwdLengths
<1>5. CASE StreamReply \/ BufferedReply \/ PassthroughReply
    <2>1. /\ fwdStep' = "replied"
          /\ UNCHANGED <<fwd, call, chosen, outgoing, exposed, answered>>
          /\ replied'.declared \in {Undeclared, BodySize(ProcessResponseBody), answered.declared}
        BY <1>5 DEF StreamReply, BufferedReply, PassthroughReply, Reply1
    <2>2. BodySize(ProcessResponseBody) \in Nat /\ BodySize(answered.lines) \in Nat
        BY <1>known, ProcessedType, BodySizeIsNat
    <2>3. replied'.declared \in Nat \cup {Undeclared}
        BY <1>known, <2>1, <2>2
    <2> QED BY <1>inv, <2>1, <2>3 DEF FwdLengths
<1>6. CASE UNCHANGED forwardVars
    BY <1>inv, <1>6 DEF forwardVars, FwdLengths
<1> QED BY <1>1, <1>2, <1>3, <1>4, <1>5, <1>6 DEF ForwardNext

(* With it a forwarded call has its types, from the route to the reply.    *)
LEMMA FwdTypesHold == FwdInv /\ FwdLengths => ForwardTypeOK
<1> SUFFICES ASSUME FwdInv, FwdLengths PROVE ForwardTypeOK
    OBVIOUS
<1>1. ToSet(chosen) \subseteq Providers /\ Len(chosen) <= 1
    <2>1. CASE chosen = <<>>
        BY <2>1 DEF ToSet
    <2>2. CASE \E p \in Providers : chosen = <<p>>
        <3>1. PICK p \in Providers : chosen = <<p>>
            BY <2>2
        <3>2. Len(chosen) = 1 /\ \A i \in DOMAIN chosen : chosen[i] = p
            BY <3>1
        <3> QED BY <3>2 DEF ToSet
    <2> QED BY <2>1, <2>2 DEF FwdLengths
<1> QED BY <1>1 DEF FwdInv, FwdTypes, FwdLengths, ForwardTypeOK

(* Of the other languages' matches some are kept.                          *)
LEMMA LongerAreHits ==
    ASSUME NEW ms \in Seq(Hits) PROVE KeepLonger(ms) \subseteq ToSet(ms)
<1> DEFINE N == Len(ms)
           X == SUBSET (1..N)
           drop(i) == IF LengthOf(ms[i]) > LengthOf(ms[i - 1]) THEN i - 1 ELSE i
           next(i, v) == IF ms[i].from < ms[i - 1].to /\ i - 1 \in v THEN v \ {drop(i)} ELSE v
           step == [p \in (1 + 1..N) \X X |-> next(p[1], p[2])]
           F(k) == [i \in 1..N |->
                      IF i = 1 THEN 1..N
                      ELSE IF ms[i].from < ms[i - 1].to /\ i - 1 \in k[i - 1]
                           THEN k[i - 1] \ {IF LengthOf(ms[i]) > LengthOf(ms[i - 1]) THEN i - 1 ELSE i}
                           ELSE k[i - 1]]
           keep == CHOOSE k : k = F(k)
<1>1. CASE ms = <<>>
    BY <1>1 DEF KeepLonger
<1>2. CASE ms # <<>>
    <2>1. N \in Nat /\ N \in Int /\ 1 \in Int /\ 1 <= N /\ 1..N \in X
        BY <1>2
    <2>2. \A i, v : v \in X => next(i, v) \in X
        OBVIOUS
    <2>3. step \in [(1 + 1..N) \X X -> X]
        <3> HIDE DEF X, next, N
        <3> QED BY <2>2
    <2>4. PICK g \in [1..N -> X] : Recursion(g, 1, N, 1..N, step)
        <3> HIDE DEF N, step, X
        <3> QED BY <2>1, <2>3, RecursionExists
    <2>5. ASSUME NEW i \in 2..N PROVE g[i] = next(i, g[i - 1])
        <3>1. i \in 1 + 1..N /\ i - 1 \in 1..N
            BY <2>1
        <3>2. <<i, g[i - 1]>> \in (1 + 1..N) \X X
            <4> HIDE DEF N, X
            <4> QED BY <2>4, <3>1
        <3>3. g[i] = step[<<i, g[i - 1]>>]
            <4> HIDE DEF N, X, step
            <4> QED BY <2>4, <3>1 DEF Recursion
        <3> HIDE DEF N, X, next
        <3> QED BY <3>2, <3>3
    <2>6. g = F(g)
        <3>1. ASSUME NEW i \in 1..N PROVE g[i] = F(g)[i]
            <4>1. CASE i = 1
                BY <2>4, <4>1 DEF Recursion
            <4>2. CASE i # 1
                <5>1. i \in 2..N
                    BY <2>1, <4>2
                <5> QED BY <2>5, <4>2, <5>1
            <4> QED BY <4>1, <4>2
        <3>2. F(g) = [i \in 1..N |-> F(g)[i]]
            OBVIOUS
        <3>3. g = [i \in 1..N |-> g[i]]
            <4> HIDE DEF N, X
            <4> QED BY <2>4
        <3> HIDE DEF F, N
        <3> QED BY <3>1, <3>2, <3>3
    <2>7. keep = F(keep)
        <3> HIDE DEF F
        <3> QED BY <2>6
    <2> HIDE DEF keep
    <2> DEFINE T == {i \in 1..N : keep[i] \in X}
    <2>8. 1 \in T
        <3>1. 1 \in 1..N
            BY <2>1
        <3>2. keep[1] = F(keep)[1]
            <4> HIDE DEF F
            <4> QED BY <2>7
        <3>3. keep[1] = 1..N
            BY <3>1, <3>2
        <3> HIDE DEF X
        <3> QED BY <2>1, <3>1, <3>3
    <2>9. ASSUME NEW i \in 1..N - 1, i \in T PROVE i + 1 \in T
        <3>1. i + 1 \in 1..N /\ i + 1 # 1 /\ (i + 1) - 1 = i
            BY <2>1
        <3>2. keep[i + 1] = F(keep)[i + 1]
            <4> HIDE DEF F
            <4> QED BY <2>7
        <3>3. keep[i + 1] = next(i + 1, keep[i])
            BY <3>1, <3>2
        <3> HIDE DEF X, next
        <3> QED BY <2>2, <2>9, <3>1, <3>3
    <2>10. 1..N \subseteq T
        <3> HIDE DEF T, N
        <3> QED BY <2>1, <2>8, <2>9, IntervalInduction
    <2>11. keep[N] \subseteq 1..N
        <3>1. N \in 1..N
            BY <2>1
        <3> QED BY <2>10, <3>1
    <2>12. KeepLonger(ms) = {ms[i] : i \in keep[N]}
        BY <1>2 DEF KeepLonger, keep
    <2>13. DOMAIN ms = 1..N
        OBVIOUS
    <2> HIDE DEF N
    <2> QED BY <2>11, <2>12, <2>13 DEF ToSet
<1> QED BY <1>1, <1>2

(* Besides what DetInv says: keywords and names end in the sentence, and   *)
(* what is kept was matched.                                               *)
DetTypes ==
    /\ \A m \in keywords : m.from < m.to /\ m.to <= Len(sentence) + 1
    /\ \A n \in names : n.from < n.to /\ n.to <= Len(sentence) + 1
    /\ kept \subseteq ToSet(patternHits) /\ langKept \subseteq ToSet(patternHits)

LEMMA DetTypesInit == DetInit => DetInv /\ DetTypes
BY DetInitInv DEF DetInit, DetTypes

LEMMA DetTypesStep == DetInv /\ DetTypes /\ [DetNext]_detVars => DetInv' /\ DetTypes'
<1> SUFFICES ASSUME DetInv, DetTypes, [DetNext]_detVars PROVE DetInv' /\ DetTypes'
    OBVIOUS
<1>inv. DetInv'
    BY DetStepInv
<1>known. IsSentence /\ patternHits \in Seq(Hits) /\ Len(sentence) \in Nat
    BY DEF DetInv, IsSentence
<1>sort. Sorted(patternHits) \in HitsInOrder /\ ToSet(Sorted(patternHits)) = ToSet(patternHits)
    BY <1>known, SortedIs
<1>2. CASE ScanKeywords
    <2>1. UNCHANGED <<sentence, names, patternHits, kept, langKept>>
        BY <1>2 DEF ScanKeywords
    <2>2. PICK f : TakesPairs(f) /\ keywords' = Reported(f[Len(sentence)])
        BY <1>2, <1>known, PairsTaken
    <2>3. f[Len(sentence)] \subseteq Windows(2) \cup Windows(3)
        <3>1. Len(sentence) \in 0..Len(sentence)
            BY <1>known
        <3> QED BY <2>2, <3>1 DEF TakesPairs
    <2>4. keywords' \subseteq Windows(1) \cup Windows(2) \cup Windows(3)
        BY <2>2, <2>3 DEF Reported
    <2>5. \A n \in 1..3 : \A m \in Windows(n) : m.from < m.to /\ m.to <= Len(sentence) + 1
        <3> SUFFICES ASSUME NEW n \in 1..3, NEW m \in Windows(n)
                     PROVE  m.from < m.to /\ m.to <= Len(sentence) + 1
            OBVIOUS
        <3>1. PICK i \in 1..Len(sentence) - n + 1 : m = Span(i, i + n)
            BY DEF Windows
        <3>2. m.from = i /\ m.to = i + n
            BY <3>1 DEF Span
        <3> QED BY <1>known, <3>2
    <2>6. \A m \in keywords' : m.from < m.to /\ m.to <= Len(sentence) + 1
        BY <2>4, <2>5
    <2> QED BY <1>inv, <2>1, <2>6 DEF DetTypes
<1>3. CASE ScanNames
    <2>1. UNCHANGED <<sentence, keywords, patternHits, kept, langKept>>
        BY <1>3 DEF ScanNames
    <2>2. \A m \in FullNames \cup LoneNames : m.from < m.to /\ m.to <= Len(sentence) + 1
        <3>1. ASSUME NEW m \in FullNames PROVE m.from < m.to /\ m.to <= Len(sentence) + 1
            <4>1. PICK i \in 1..Len(sentence) - 1 : m = Span(i, i + 2)
                BY DEF FullNames
            <4>2. m.from = i /\ m.to = i + 2
                BY <4>1 DEF Span
            <4> QED BY <1>known, <4>2
        <3>2. ASSUME NEW m \in LoneNames PROVE m.from < m.to /\ m.to <= Len(sentence) + 1
            <4>1. PICK i \in 1..Len(sentence) : m = Span(i, i + 1)
                BY DEF LoneNames
            <4>2. m.from = i /\ m.to = i + 1
                BY <4>1 DEF Span
            <4> QED BY <1>known, <4>2
        <3> QED BY <3>1, <3>2
    <2>3. \A n \in names' : \E m \in FullNames \cup LoneNames : n.from = m.from /\ n.to = m.to
        BY <1>3 DEF ScanNames, AtConfidence
    <2>4. \A n \in names' : n.from < n.to /\ n.to <= Len(sentence) + 1
        BY <2>2, <2>3
    <2> QED BY <1>inv, <2>1, <2>4 DEF DetTypes
<1>4. CASE Deduplicate
    <2>1. kept' = KeepFirst(Sorted(patternHits)) /\ UNCHANGED <<sentence, keywords, names, patternHits, langKept>>
        BY <1>4 DEF Deduplicate
    <2>2. kept' \subseteq ToSet(patternHits)
        BY <1>sort, <2>1, KeptStandFor
    <2> QED BY <1>inv, <2>1, <2>2 DEF DetTypes
<1>5. CASE DedupOverlapping
    <2>1. langKept' = KeepLonger(Sorted(patternHits)) /\ UNCHANGED <<sentence, keywords, names, patternHits, kept>>
        BY <1>5 DEF DedupOverlapping
    <2>2. Sorted(patternHits) \in Seq(Hits)
        BY <1>sort DEF HitsInOrder
    <2>3. langKept' \subseteq ToSet(patternHits)
        BY <1>sort, <2>1, <2>2, LongerAreHits
    <2> QED BY <1>inv, <2>1, <2>3 DEF DetTypes
<1>6. CASE UNCHANGED detVars
    BY <1>inv, <1>6 DEF detVars, DetTypes
<1> QED BY <1>2, <1>3, <1>4, <1>5, <1>6 DEF DetNext

(* With it the detectors have their types.                                 *)
LEMMA DetTypesHold == DetInv /\ DetTypes => DetTypeOK
<1> SUFFICES ASSUME DetInv, DetTypes PROVE DetTypeOK
    OBVIOUS
<1>1. \A m \in {[from |-> n.from, to |-> n.to] : n \in names} : m.from < m.to /\ m.to <= Len(sentence) + 1
    BY DEF DetTypes
<1> QED BY <1>1 DEF DetTypes, DetInv, DetTypeOK

(* The size of a text is a number.                                         *)
LEMMA SizeIsNat ==
    ASSUME NEW text \in Seq(Chars) PROVE Size(text) \in Nat
<1> DEFINE N == Len(text)
           X == Nat
           base == 0
           next(n, v) == v + Bytes(text[n])
           step == [p \in (0 + 1..N) \X X |-> next(p[1], p[2])]
           F(u) == [n \in 0..N |-> IF n = 0 THEN 0 ELSE u[n - 1] + Bytes(text[n])]
           upTo == CHOOSE u : u = F(u)
<1>1. N \in Nat /\ N \in Int /\ 0 \in Int /\ 0 <= N
    OBVIOUS
<1>2. base \in X
    OBVIOUS
<1>3. \A n \in 1..N : \A v \in X : next(n, v) \in X
    <2>1. \A c : Bytes(c) \in Nat
        BY DEF Bytes
    <2> QED BY <2>1
<1>4. step \in [(0 + 1..N) \X X -> X]
    <2>1. \A p \in (0 + 1..N) \X X : p[1] \in 1..N /\ p[2] \in X
        BY <1>1
    <2> HIDE DEF X, next, N
    <2> QED BY <1>3, <2>1
<1>5. PICK g \in [0..N -> X] : Recursion(g, 0, N, base, step)
    <2> HIDE DEF N, step, X, base
    <2> QED BY <1>1, <1>2, <1>4, RecursionExists
<1>6. ASSUME NEW n \in 1..N PROVE g[n] = next(n, g[n - 1])
    <2>1. n \in 0 + 1..N /\ n - 1 \in 0..N
        BY <1>1
    <2>2. <<n, g[n - 1]>> \in (0 + 1..N) \X X
        <3> HIDE DEF N, X
        <3> QED BY <1>5, <2>1
    <2>3. g[n] = step[<<n, g[n - 1]>>]
        <3> HIDE DEF N, X, step
        <3> QED BY <1>5, <2>1 DEF Recursion
    <2> HIDE DEF N, X, next
    <2> QED BY <2>2, <2>3
<1>7. g = F(g)
    <2>1. ASSUME NEW n \in 0..N PROVE g[n] = F(g)[n]
        <3>1. CASE n = 0
            BY <1>5, <3>1 DEF Recursion
        <3>2. CASE n # 0
            <4>1. n \in 1..N
                BY <1>1, <3>2
            <4> QED BY <1>6, <3>2, <4>1
        <3> QED BY <3>1, <3>2
    <2>2. F(g) = [n \in 0..N |-> F(g)[n]]
        OBVIOUS
    <2>3. g = [n \in 0..N |-> g[n]]
        <3> HIDE DEF N, X
        <3> QED BY <1>5
    <2> HIDE DEF F, N
    <2> QED BY <2>1, <2>2, <2>3
<1>8. upTo = F(upTo)
    <2> HIDE DEF F
    <2> QED BY <1>7
<1> HIDE DEF upTo
<1> DEFINE T == {n \in 0..N : upTo[n] \in X}
<1>9. 0 \in T
    <2>1. 0 \in 0..N
        BY <1>1
    <2>2. upTo[0] = F(upTo)[0]
        <3> HIDE DEF F
        <3> QED BY <1>8
    <2>3. upTo[0] = base
        BY <2>1, <2>2
    <2> HIDE DEF X, base
    <2> QED BY <1>2, <2>1, <2>3
<1>10. ASSUME NEW n \in 0..N - 1, n \in T PROVE n + 1 \in T
    <2>1. n + 1 \in 0..N /\ n + 1 # 0 /\ (n + 1) - 1 = n /\ n + 1 \in 1..N
        BY <1>1
    <2>2. upTo[n + 1] = F(upTo)[n + 1]
        <3> HIDE DEF F
        <3> QED BY <1>8
    <2>3. upTo[n + 1] = next(n + 1, upTo[n])
        BY <2>1, <2>2
    <2> HIDE DEF X, next
    <2> QED BY <1>3, <1>10, <2>1, <2>3
<1>11. 0..N \subseteq T
    <2> HIDE DEF T, N
    <2> QED BY <1>1, <1>9, <1>10, IntervalInduction
<1>12. upTo[N] \in X
    <2>1. N \in 0..N
        BY <1>1
    <2> QED BY <1>11, <2>1
<1> QED BY <1>12 DEF Size, upTo

(* A match of what is found begins and ends in bytes, two at the most.     *)
ByteMatch == {m \in [start : Nat, end : Nat] : m.start < m.end /\ m.end <= m.start + 2}

(* What the native scanner reports of a text are matches with offsets in   *)
(* bytes.                                                                  *)
LEMMA ScanMatchesType ==
    ASSUME NEW text \in Seq(Chars), NEW K, K \subseteq Semantic \cup Numbers
    PROVE  ScanMatches(text, K) \in Seq(ByteMatch)
<1> DEFINE spots == Places(text, K)
<1>1. spots \in Seq(1..Len(text)) /\ Len(spots) \in Nat
    BY PlacesAre
<1>2. \A k \in 1..Len(spots) : text[spots[k]] \in K
    <2> DEFINE all == [i \in 1..Len(text) |-> i]
               S == {i \in 1..Len(text) : text[i] \in K}
    <2>1. all \in Seq(1..Len(text))
        OBVIOUS
    <2>2. Those(all, S) \in Seq((1..Len(text)) \cap S)
        <3> HIDE DEF all, S
        <3> QED BY <2>1, ThoseElements
    <2>3. spots \in Seq((1..Len(text)) \cap S)
        BY <2>2 DEF Places
    <2> HIDE DEF spots
    <2> QED BY <2>3
<1>3. ScanMatches(text, K) = [k \in 1..Len(spots) |-> ByteSpan(text, spots[k])]
    BY DEF ScanMatches, Places
<1> HIDE DEF spots
<1>4. ASSUME NEW k \in 1..Len(spots) PROVE ByteSpan(text, spots[k]) \in ByteMatch
    <2> DEFINE i == spots[k]
               p == SubSeq(text, 1, i - 1)
    <2>1. i \in 1..Len(text) /\ text[i] \in Semantic \cup Numbers
        BY <1>1, <1>2
    <2> HIDE DEF i
    <2>2. p \in Seq(Chars)
        BY <2>1
    <2> HIDE DEF p
    <2>3. Size(p) \in Nat
        BY <2>2, SizeIsNat
    <2>4. Bytes(text[i]) \in 1..2
        BY <2>1 DEF Bytes, Semantic, Numbers
    <2>5. ByteSpan(text, i) = [start |-> Size(p), end |-> Size(p) + Bytes(text[i])]
        BY DEF ByteSpan, p
    <2>6. ByteSpan(text, i) \in ByteMatch
        BY <2>3, <2>4, <2>5 DEF ByteMatch
    <2> QED BY <2>6 DEF i
<1> QED BY <1>1, <1>3, <1>4

(* A replacement makes no text shorter.                                    *)
LEMMA SpanReplaced ==
    ASSUME NEW v \in Seq(Glyphs), NEW m \in ByteMatch, m.end <= Len(v)
    PROVE  ReplaceSpan(v, m) \in Seq(Glyphs) /\ Len(ReplaceSpan(v, m)) >= Len(v)
<1> DEFINE i == m.start
           k == m.end
           a == SubSeq(v, 1, i)
           b == SubSeq(v, k + 1, Len(v))
<1>1. Len(v) \in Nat /\ i \in Nat /\ k \in Nat /\ i < k /\ k <= i + 2 /\ k \in 0..Len(v) /\ i <= Len(v)
    BY DEF ByteMatch
<1>2. ReplaceSpan(v, m) = a \o Label \o b
    BY DEF ReplaceSpan
<1> HIDE DEF i, k
<1>3. a \in Seq(Glyphs) /\ Len(a) = i
    BY <1>1
<1>4. b \in Seq(Glyphs) /\ Len(b) = Len(v) - k
    BY <1>1, SuffixElements
<1> HIDE DEF a, b
<1>5. a \o Label \in Seq(Glyphs) /\ Len(a \o Label) = i + 2
    <2> DEFINE l == Label
    <2>1. l \in Seq(Glyphs) /\ Len(l) = 2
        BY LabelIs
    <2> HIDE DEF l
    <2>2. a \o l \in Seq(Glyphs) /\ Len(a \o l) = Len(a) + Len(l)
        BY <1>3, <2>1, ConcatElements
    <2>3. Len(a \o l) = i + 2
        BY <1>3, <2>1, <2>2
    <2> QED BY <2>2, <2>3 DEF l
<1> DEFINE q == a \o Label
<1>6. q \in Seq(Glyphs) /\ Len(q) = i + 2
    BY <1>5
<1> HIDE DEF q
<1>7. q \o b \in Seq(Glyphs) /\ Len(q \o b) = (i + 2) + (Len(v) - k)
    BY <1>1, <1>4, <1>6
<1> QED BY <1>1, <1>2, <1>7 DEF q

(* Replacing spans from the last to the first leaves a text, whatever the  *)
(* spans.                                                                  *)
LEMMA RedactSpansType ==
    ASSUME NEW s \in Seq(Glyphs), NEW ms \in Seq(ByteMatch)
    PROVE  RedactSpans(s, ms) \in Seq(Glyphs)
<1> DEFINE N == Len(ms)
           X == Longer(s)
           base == s
           next(n, v) == IF Inside(s, ms[N + 1 - n]) THEN ReplaceSpan(v, ms[N + 1 - n]) ELSE v
           step == [p \in (0 + 1..N) \X X |-> next(p[1], p[2])]
           F(u) == [n \in 0..N |-> IF n = 0 THEN s
                                 ELSE IF Inside(s, ms[N + 1 - n])
                                      THEN ReplaceSpan(u[n - 1], ms[N + 1 - n])
                                      ELSE u[n - 1]]
           upTo == CHOOSE u : u = F(u)
<1>1. N \in Nat /\ N \in Int /\ 0 \in Int /\ 0 <= N
    OBVIOUS
<1>2. base \in X
    BY DEF Longer
<1>3. \A n \in 1..N : \A v \in X : next(n, v) \in X
    <2> SUFFICES ASSUME NEW n \in 1..N, NEW v \in X PROVE next(n, v) \in X
        OBVIOUS
    <2> DEFINE m == ms[N + 1 - n]
    <2>1. m \in ByteMatch
        <3>1. N + 1 - n \in 1..Len(ms)
            BY <1>1
        <3> QED BY <3>1
    <2>2. v \in Seq(Glyphs) /\ Len(v) \in Nat /\ Len(s) \in Nat /\ Len(v) >= Len(s)
        BY DEF Longer
    <2>3. next(n, v) = IF Inside(s, m) THEN ReplaceSpan(v, m) ELSE v
        OBVIOUS
    <2> HIDE DEF m, next
    <2>4. Inside(s, m) => m.end <= Len(v)
        BY <2>1, <2>2 DEF Inside, ByteMatch
    <2>5. Inside(s, m) => ReplaceSpan(v, m) \in Seq(Glyphs) /\ Len(ReplaceSpan(v, m)) >= Len(v)
        BY <2>1, <2>2, <2>4, SpanReplaced
    <2>6. Inside(s, m) => ReplaceSpan(v, m) \in Longer(s)
        <3> DEFINE w == ReplaceSpan(v, m)
        <3>1. w \in Seq(Glyphs) => Len(w) \in Nat
            OBVIOUS
        <3> HIDE DEF w
        <3>2. Inside(s, m) => w \in Longer(s)
            BY <2>2, <2>5, <3>1 DEF Longer, w
        <3> QED BY <3>2 DEF w
    <2> QED BY <2>3, <2>6
<1>4. step \in [(0 + 1..N) \X X -> X]
    <2>1. \A p \in (0 + 1..N) \X X : p[1] \in 1..N /\ p[2] \in X
        BY <1>1
    <2> HIDE DEF X, next, N
    <2> QED BY <1>3, <2>1
<1>5. PICK g \in [0..N -> X] : Recursion(g, 0, N, base, step)
    <2> HIDE DEF N, step, X, base
    <2> QED BY <1>1, <1>2, <1>4, RecursionExists
<1>6. ASSUME NEW n \in 1..N PROVE g[n] = next(n, g[n - 1])
    <2>1. n \in 0 + 1..N /\ n - 1 \in 0..N
        BY <1>1
    <2>2. <<n, g[n - 1]>> \in (0 + 1..N) \X X
        <3> HIDE DEF N, X
        <3> QED BY <1>5, <2>1
    <2>3. g[n] = step[<<n, g[n - 1]>>]
        <3> HIDE DEF N, X, step
        <3> QED BY <1>5, <2>1 DEF Recursion
    <2> HIDE DEF N, X, next
    <2> QED BY <2>2, <2>3
<1>7. g = F(g)
    <2>1. ASSUME NEW n \in 0..N PROVE g[n] = F(g)[n]
        <3>1. CASE n = 0
            BY <1>5, <3>1 DEF Recursion
        <3>2. CASE n # 0
            <4>1. n \in 1..N
                BY <1>1, <3>2
            <4> QED BY <1>6, <3>2, <4>1
        <3> QED BY <3>1, <3>2
    <2>2. F(g) = [n \in 0..N |-> F(g)[n]]
        OBVIOUS
    <2>3. g = [n \in 0..N |-> g[n]]
        <3> HIDE DEF N, X
        <3> QED BY <1>5
    <2> HIDE DEF F, N
    <2> QED BY <2>1, <2>2, <2>3
<1>8. upTo = F(upTo)
    <2> HIDE DEF F
    <2> QED BY <1>7
<1> HIDE DEF upTo
<1> DEFINE T == {n \in 0..N : upTo[n] \in X}
<1>9. 0 \in T
    <2>1. 0 \in 0..N
        BY <1>1
    <2>2. upTo[0] = F(upTo)[0]
        <3> HIDE DEF F
        <3> QED BY <1>8
    <2>3. upTo[0] = base
        BY <2>1, <2>2
    <2> HIDE DEF X, base
    <2> QED BY <1>2, <2>1, <2>3
<1>10. ASSUME NEW n \in 0..N - 1, n \in T PROVE n + 1 \in T
    <2>1. n + 1 \in 0..N /\ n + 1 # 0 /\ (n + 1) - 1 = n /\ n + 1 \in 1..N
        BY <1>1
    <2>2. upTo[n + 1] = F(upTo)[n + 1]
        <3> HIDE DEF F
        <3> QED BY <1>8
    <2>3. upTo[n + 1] = next(n + 1, upTo[n])
        BY <2>1, <2>2
    <2> HIDE DEF X, next
    <2> QED BY <1>3, <1>10, <2>1, <2>3
<1>11. 0..N \subseteq T
    <2> HIDE DEF T, N
    <2> QED BY <1>1, <1>9, <1>10, IntervalInduction
<1>12. upTo[N] \in X
    <2>1. N \in 0..N
        BY <1>1
    <2> QED BY <1>11, <2>1
<1>13. RedactSpans(s, ms) = upTo[N]
    BY DEF RedactSpans, upTo
<1> HIDE DEF N
<1> QED BY <1>12, <1>13 DEF Longer

(* So does the replacement that asks each span against the text so far.    *)
LEMMA RedactLaterType ==
    ASSUME NEW s \in Seq(Glyphs), NEW ms \in Seq(ByteMatch)
    PROVE  RedactLater(s, ms) \in Seq(Glyphs)
<1> DEFINE N == Len(ms)
           X == Longer(s)
           base == s
           next(n, v) == IF Inside(v, ms[N + 1 - n]) THEN ReplaceSpan(v, ms[N + 1 - n]) ELSE v
           step == [p \in (0 + 1..N) \X X |-> next(p[1], p[2])]
           F(u) == [n \in 0..N |-> IF n = 0 THEN s
                                 ELSE IF Inside(u[n - 1], ms[N + 1 - n])
                                      THEN ReplaceSpan(u[n - 1], ms[N + 1 - n])
                                      ELSE u[n - 1]]
           upTo == CHOOSE u : u = F(u)
<1>1. N \in Nat /\ N \in Int /\ 0 \in Int /\ 0 <= N
    OBVIOUS
<1>2. base \in X
    BY DEF Longer
<1>3. \A n \in 1..N : \A v \in X : next(n, v) \in X
    <2> SUFFICES ASSUME NEW n \in 1..N, NEW v \in X PROVE next(n, v) \in X
        OBVIOUS
    <2> DEFINE m == ms[N + 1 - n]
    <2>1. m \in ByteMatch
        <3>1. N + 1 - n \in 1..Len(ms)
            BY <1>1
        <3> QED BY <3>1
    <2>2. v \in Seq(Glyphs) /\ Len(v) \in Nat /\ Len(s) \in Nat /\ Len(v) >= Len(s)
        BY DEF Longer
    <2>3. next(n, v) = IF Inside(v, m) THEN ReplaceSpan(v, m) ELSE v
        OBVIOUS
    <2> HIDE DEF m, next
    <2>4. Inside(v, m) => m.end <= Len(v)
        BY <2>1, <2>2 DEF Inside, ByteMatch
    <2>5. Inside(v, m) => ReplaceSpan(v, m) \in Seq(Glyphs) /\ Len(ReplaceSpan(v, m)) >= Len(v)
        BY <2>1, <2>2, <2>4, SpanReplaced
    <2>6. Inside(v, m) => ReplaceSpan(v, m) \in Longer(s)
        <3> DEFINE w == ReplaceSpan(v, m)
        <3>1. w \in Seq(Glyphs) => Len(w) \in Nat
            OBVIOUS
        <3> HIDE DEF w
        <3>2. Inside(v, m) => w \in Longer(s)
            BY <2>2, <2>5, <3>1 DEF Longer, w
        <3> QED BY <3>2 DEF w
    <2> QED BY <2>3, <2>6
<1>4. step \in [(0 + 1..N) \X X -> X]
    <2>1. \A p \in (0 + 1..N) \X X : p[1] \in 1..N /\ p[2] \in X
        BY <1>1
    <2> HIDE DEF X, next, N
    <2> QED BY <1>3, <2>1
<1>5. PICK g \in [0..N -> X] : Recursion(g, 0, N, base, step)
    <2> HIDE DEF N, step, X, base
    <2> QED BY <1>1, <1>2, <1>4, RecursionExists
<1>6. ASSUME NEW n \in 1..N PROVE g[n] = next(n, g[n - 1])
    <2>1. n \in 0 + 1..N /\ n - 1 \in 0..N
        BY <1>1
    <2>2. <<n, g[n - 1]>> \in (0 + 1..N) \X X
        <3> HIDE DEF N, X
        <3> QED BY <1>5, <2>1
    <2>3. g[n] = step[<<n, g[n - 1]>>]
        <3> HIDE DEF N, X, step
        <3> QED BY <1>5, <2>1 DEF Recursion
    <2> HIDE DEF N, X, next
    <2> QED BY <2>2, <2>3
<1>7. g = F(g)
    <2>1. ASSUME NEW n \in 0..N PROVE g[n] = F(g)[n]
        <3>1. CASE n = 0
            BY <1>5, <3>1 DEF Recursion
        <3>2. CASE n # 0
            <4>1. n \in 1..N
                BY <1>1, <3>2
            <4> QED BY <1>6, <3>2, <4>1
        <3> QED BY <3>1, <3>2
    <2>2. F(g) = [n \in 0..N |-> F(g)[n]]
        OBVIOUS
    <2>3. g = [n \in 0..N |-> g[n]]
        <3> HIDE DEF N, X
        <3> QED BY <1>5
    <2> HIDE DEF F, N
    <2> QED BY <2>1, <2>2, <2>3
<1>8. upTo = F(upTo)
    <2> HIDE DEF F
    <2> QED BY <1>7
<1> HIDE DEF upTo
<1> DEFINE T == {n \in 0..N : upTo[n] \in X}
<1>9. 0 \in T
    <2>1. 0 \in 0..N
        BY <1>1
    <2>2. upTo[0] = F(upTo)[0]
        <3> HIDE DEF F
        <3> QED BY <1>8
    <2>3. upTo[0] = base
        BY <2>1, <2>2
    <2> HIDE DEF X, base
    <2> QED BY <1>2, <2>1, <2>3
<1>10. ASSUME NEW n \in 0..N - 1, n \in T PROVE n + 1 \in T
    <2>1. n + 1 \in 0..N /\ n + 1 # 0 /\ (n + 1) - 1 = n /\ n + 1 \in 1..N
        BY <1>1
    <2>2. upTo[n + 1] = F(upTo)[n + 1]
        <3> HIDE DEF F
        <3> QED BY <1>8
    <2>3. upTo[n + 1] = next(n + 1, upTo[n])
        BY <2>1, <2>2
    <2> HIDE DEF X, next
    <2> QED BY <1>3, <1>10, <2>1, <2>3
<1>11. 0..N \subseteq T
    <2> HIDE DEF T, N
    <2> QED BY <1>1, <1>9, <1>10, IntervalInduction
<1>12. upTo[N] \in X
    <2>1. N \in 0..N
        BY <1>1
    <2> QED BY <1>11, <2>1
<1>13. RedactLater(s, ms) = upTo[N]
    BY DEF RedactLater, upTo
<1> HIDE DEF N
<1> QED BY <1>12, <1>13 DEF Longer

(* The units of a text.                                                    *)
LEMMA UnitsType ==
    ASSUME NEW text \in Seq(Chars) PROVE Units(text) \in Seq(Glyphs)
<1> DEFINE Y == Seq(Glyphs)
           ss == [i \in 1..Len(text) |-> UnitsOf(text[i])]
<1>1. \A c \in Chars : UnitsOf(c) \in Y
    <2> TAKE c \in Chars
    <2>1. <<"high", "low">> \in Seq(Glyphs) /\ <<c>> \in Seq(Glyphs)
        BY DEF Glyphs
    <2> QED BY <2>1 DEF UnitsOf
<1>2. Len(text) \in Nat /\ \A i \in 1..Len(text) : text[i] \in Chars
    OBVIOUS
<1>3. ss \in Seq(Y)
    <2> HIDE DEF Y
    <2> QED BY <1>1, <1>2
<1>4. FlattenSeq(ss) \in Seq(Glyphs)
    <2> HIDE DEF ss
    <2> QED BY <1>3, FlattenType
<1> QED BY <1>4 DEF Units

(* So the redaction of a content is a text, whichever engine made it.      *)
LEMMA RedactedType ==
    ASSUME content \in Seq(Chars) PROVE Redacted \in Seq(Glyphs)
<1>1. \A s \in Seq(Glyphs) : RedactJs(s) \in Seq(Glyphs)
    <2> TAKE s \in Seq(Glyphs)
    <2>1. RedactJs(s) = ReplacedIn(s, Numbers)
        BY DEF RedactJs, ReplacedIn
    <2> QED BY <2>1, ReplacedType
<1>2. Units(content) \in Seq(Glyphs)
    BY UnitsType
<1>3. ViaNative \in Seq(Glyphs)
    BY <1>2, ScanMatchesType, RedactSpansType DEF ViaNative
<1>4. RedactLater(Units(content), ScanMatches(content, Semantic)) \in Seq(Glyphs)
    BY <1>2, ScanMatchesType, RedactLaterType
<1> QED BY <1>1, <1>2, <1>3, <1>4 DEF Redacted, RedactPiiWithNer, RedactPii

(* Besides what HookInv says: the content is bounded, and a hook either    *)
(* threw or not.                                                           *)
HookTypes ==
    /\ Len(content) <= MaxChars
    /\ hook \in {"tool_result_persist", "before_tool_call"}
    /\ native \in BOOLEAN /\ proxyUp \in BOOLEAN /\ tokenKnown \in BOOLEAN
    /\ result # <<>> => result[1].threw \in BOOLEAN

LEMMA HookTypesInit == HookInit => HookInv /\ HookTypes
<1> SUFFICES ASSUME HookInit PROVE HookInv /\ HookTypes
    OBVIOUS
<1>1. HookInv
    BY HookInitInv
<1>2. Len(content) <= MaxChars
    BY HookAssumption, BoundedSeqIs DEF HookInit
<1> QED BY <1>1, <1>2 DEF HookInit, HookTypes

LEMMA HookTypesStep == HookInv /\ HookTypes /\ [HookNext]_hookVars => HookInv' /\ HookTypes'
<1> SUFFICES ASSUME HookInv, HookTypes, [HookNext]_hookVars PROVE HookInv' /\ HookTypes'
    OBVIOUS
<1>1. HookInv'
    BY HookStepInv
<1>2. CASE Hook
    <2>1. PICK threw \in BOOLEAN : result' = <<[text |-> Redacted, threw |-> threw]>>
        BY <1>2 DEF Hook
    <2>2. result'[1].threw \in BOOLEAN /\ UNCHANGED <<content, hook, native, proxyUp, tokenKnown>>
        BY <1>2, <2>1 DEF Hook
    <2> QED BY <1>1, <2>2 DEF HookTypes
<1>3. CASE UNCHANGED hookVars
    BY <1>1, <1>3 DEF hookVars, HookTypes
<1> QED BY <1>2, <1>3 DEF HookNext

(* With it the hooks have their types.                                     *)
LEMMA HookTypesHold == HookInv /\ HookTypes => HookTypeOK
<1> SUFFICES ASSUME HookInv, HookTypes PROVE HookTypeOK
    OBVIOUS
<1>1. result # <<>> => result[1].text \in Seq(Glyphs)
    BY RedactedType DEF HookInv
<1> QED BY <1>1 DEF HookInv, HookTypes, HookTypeOK, Glyphs

(* A hit is an entry, a cell and the value found there.                    *)
HitCells == Nat \X Nat \X Values

(* What a string adds to the vector of its entry.                          *)
LEMMA HitsInType ==
    ASSUME NEW s \in BodyStrings, NEW k \in Nat, NEW v \in Seq(HitCells)
    PROVE  HitsIn(s, k, v) \in Seq(HitCells)
<1>1. Len(s.cells) \in Nat
    BY DEF BodyStrings
<1>2. HitsOf(s, k, HitCells)
    BY <1>1 DEF HitsOf, HitCells
<1>3. CASE ~s.nested
    <2>1. HitsIn(s, k, v) = RawHits(s, k, v)
        BY <1>3 DEF HitsIn, RawHits
    <2> QED BY <1>2, <2>1, RawHitsType
<1>4. CASE s.nested
    <2>1. PICK f : Adds(f, s, k, v, HitCells)
        BY <1>2, <1>4, AddsExist
    <2>2. Len(s.cells) \in 0..Len(s.cells)
        BY <1>1
    <2> QED BY <2>1, <2>2 DEF Adds
<1> QED BY <1>3, <1>4

(* The types of a scan rest on the votes and on the nested bodies.         *)
ScanTypes == VoteInv /\ NestedInv /\ ScanTypeOK

(* A walk that has not begun, and no match.                                *)
LEMMA UnscannedTypes ==
    ASSUME engine = "regex", tagged = <<>>, results = {},
           jsonBody \in Seq(Seq(BodyStrings)),
           at = [e \in DOMAIN jsonBody |-> 1], hits = [e \in DOMAIN jsonBody |-> <<>>]
    PROVE  ScanTypes
<1>1. tagged \in Seq(Match)
    OBVIOUS
<1>2. VoteInv
    BY <1>1 DEF VoteInv, TaggedOK, ResultsDisjoint, StrongIsAnswered
<1>3. NestedInv
    BY DEF NestedInv
<1>4. engine \in ToSet(Engines)
    BY DEF ToSet, Engines
<1>5. \A e \in DOMAIN jsonBody : jsonBody[e] \in Seq(BodyStrings) /\ hits[e] \in Seq(HitCells)
    OBVIOUS
<1>6. at \in [DOMAIN jsonBody -> Nat]
    OBVIOUS
<1>7. ScanTypeOK
    BY <1>1, <1>4, <1>5, <1>6 DEF ScanTypeOK, BodyStrings, HitCells
<1> QED BY <1>2, <1>3, <1>7 DEF ScanTypes

LEMMA ScanTypesInit == ScanInit => ScanTypes
<1> SUFFICES ASSUME ScanInit PROVE ScanTypes
    OBVIOUS
<1>1. jsonBody \in Seq(Seq(BodyStrings))
    BY BodyAssumption DEF ScanInit, BodyStrings
<1> QED BY <1>1, UnscannedTypes DEF ScanInit

LEMMA ScanTypesStep == ScanTypes /\ [ScanNext]_scanVars => ScanTypes'
<1> SUFFICES ASSUME VoteInv, NestedInv, ScanTypeOK, [ScanNext]_scanVars PROVE ScanTypeOK'
    BY VoteStepInv, NestedStepInv DEF ScanTypes
<1>0. VoteInv' /\ tagged' \in Seq(Match)
    <2>1. VoteInv'
        BY VoteStepInv
    <2> QED BY <2>1 DEF VoteInv, TaggedOK
<1>1. ASSUME UNCHANGED walkVars, engine' \in ToSet(Engines), results' \subseteq Match
      PROVE  ScanTypeOK'
    <2>1. jsonBody' = jsonBody /\ at' = at /\ hits' = hits
        BY <1>1 DEF walkVars
    <2> QED BY <1>0, <1>1, <2>1 DEF ScanTypeOK
<1>2. ToSet(Engines) = {"regex", "keyword", "gazetteer", "semantic", "multilingual", "vote", "voted"}
    BY DEF ToSet, Engines
<1>3. CASE RunEngine
    <2> DEFINE i == CHOOSE i \in DOMAIN Engines : Engines[i] = engine
    <2>0. engine \in {"regex", "keyword", "gazetteer", "semantic", "multilingual"}
          /\ engine' = Engines[1 + i] /\ UNCHANGED results /\ UNCHANGED walkVars
        BY <1>3 DEF RunEngine, After
    <2>1. \E j \in DOMAIN Engines : Engines[j] = engine
        BY <2>0 DEF Engines
    <2>2. i \in 1..7 /\ Engines[i] = engine
        BY <2>1 DEF Engines
    <2> HIDE DEF i
    <2>3. i # 6 /\ i # 7
        BY <2>0, <2>2 DEF Engines
    <2>4. 1 + i \in 2..6
        BY <2>2, <2>3
    <2>5. engine' \in {"regex", "keyword", "gazetteer", "semantic", "multilingual", "vote", "voted"}
        BY <2>0, <2>4 DEF Engines
    <2> QED BY <1>1, <1>2, <2>0, <2>5 DEF ScanTypeOK
<1>4. CASE Vote
    <2>1. engine' = "voted" /\ UNCHANGED walkVars
        BY <1>4 DEF Vote
    <2>2. PICK winner :
            /\ \A c \in Clusters : winner[c] \in Winners(c)
            /\ results' = {m \in {winner[c] : c \in Clusters} : m.score >= MinConfidence}
        BY <1>4 DEF Vote
    <2>3. ASSUME NEW c \in Clusters PROVE winner[c] \in Match
        <3>1. c \in SUBSET Indices
            BY ClustersApart DEF Apart, VoteInv
        <3> QED BY <2>2, <3>1, WinnerIs DEF VoteInv
    <2>4. results' \subseteq Match
        BY <2>2, <2>3
    <2> QED BY <1>1, <1>2, <2>1, <2>4
<1>5. CASE UNCHANGED scanVars
    BY <1>5 DEF scanVars, ScanTypeOK
<1>6. ASSUME NEW e \in DOMAIN jsonBody, ScanString(e) PROVE ScanTypeOK'
    <2>1. /\ at[e] <= Len(jsonBody[e]) /\ UNCHANGED jsonBody /\ UNCHANGED voteVars
          /\ at' = [at EXCEPT ![e] = at[e] + 1]
          /\ hits' = [hits EXCEPT ![e] = HitsIn(jsonBody[e][at[e]], at[e], hits[e])]
        BY <1>6 DEF ScanString
    <2>2. at[e] \in Nat /\ at[e] >= 1 /\ jsonBody[e] \in Seq(BodyStrings)
        BY DEF NestedInv
    <2>3. at[e] \in 1..Len(jsonBody[e])
        BY <2>1, <2>2
    <2>4. jsonBody[e][at[e]] \in BodyStrings
        BY <2>2, <2>3, ElementsOf
    <2>5. hits[e] \in Seq(HitCells)
        BY DEF ScanTypeOK, HitCells
    <2>6. HitsIn(jsonBody[e][at[e]], at[e], hits[e]) \in Seq(HitCells)
        BY <2>2, <2>4, <2>5, HitsInType
    <2>7. \A d \in DOMAIN jsonBody : hits'[d] \in Seq(HitCells)
        <3> DEFINE h == HitsIn(jsonBody[e][at[e]], at[e], hits[e])
        <3> HIDE DEF h
        <3>1. \A d \in DOMAIN jsonBody : hits'[d] = IF d = e THEN h ELSE hits[d]
            BY <2>1 DEF h, NestedInv
        <3> QED BY <2>6, <3>1 DEF h, ScanTypeOK, HitCells
    <2>8. at' \in [DOMAIN jsonBody -> Nat]
        BY <2>1, <2>2 DEF ScanTypeOK
    <2> QED BY <1>0, <2>1, <2>7, <2>8 DEF ScanTypeOK, HitCells, voteVars
<1> QED BY <1>3, <1>4, <1>5, <1>6 DEF ScanNext
=============================================================================
