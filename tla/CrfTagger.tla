----------------------------- MODULE CrfTagger -----------------------------
(***************************************************************************)
(* The CRF scanner: the weights of the features of each token, the Viterbi *)
(* pass over them, and the entities made of the labels.  Weights are       *)
(* integers; an entity is confident when the mean of its scores reaches    *)
(* Cutoff, as the sigmoid of the mean reaches the threshold in the code.   *)
(***************************************************************************)
EXTENDS Integers, Sequences, FiniteSets

CONSTANTS
    TagTypes,     \* types of entities, one after the other (five in the code)
    Weighings,    \* what compute_state_scores may give: per label a weight
    Transitions,  \* per pair of labels a weight
    Cutoff,       \* mean score of the least confidence
    MaxTags       \* bound: tokens of a text

Labels  == 0..2 * Len(TagTypes)
IsB(l)  == l % 2 = 1
IsI(l)  == l # 0 /\ l % 2 = 0
TagOf(l) == TagTypes[(l + 1) \div 2]

\* CrfModel::from_json takes square, not empty matrices only.
ASSUME ModelAssumption ==
    /\ TagTypes \in Seq(STRING)
    /\ Transitions \in [Labels -> [Labels -> Int]]
    /\ Weighings \subseteq [Labels -> Int]
    /\ Cutoff \in Int /\ MaxTags \in Nat

VARIABLES
    weighed,   \* the state scores, token by token
    trellis,   \* viterbi_scores as far as the forward pass is
    pointers,  \* backpointers
    labels,    \* the labels chosen
    pathScores, \* and the score each is given
    tags,      \* the entities: type, first and last token, whether confident
    crfStage   \* "forward", "backward", "decode" or "done"

crfVars == <<weighed, trellis, pointers, labels, pathScores, tags, crfStage>>

CrfTypeOK ==
    /\ \A t \in DOMAIN trellis : trellis[t] \in [Labels -> Int]
    /\ \A t \in DOMAIN pointers : pointers[t] \in [Labels -> Labels]
    /\ \A t \in DOMAIN labels : labels[t] \in Labels
    /\ Len(trellis) = Len(pointers) /\ Len(labels) = Len(pathScores)
    /\ \A e \in tags : e.first <= e.last /\ e.last <= Len(weighed)
    /\ crfStage \in {"forward", "backward", "decode", "done"}

-----------------------------------------------------------------------------
\* The first label with the largest value.
ArgMax(f) ==
    CHOOSE l \in Labels : /\ \A k \in Labels : f[l] >= f[k]
                          /\ \A k \in 0..l - 1 : f[l] > f[k]

Arriving(t, j) == [i \in Labels |-> trellis[t][i] + Transitions[i][j]]

CrfInit ==
    /\ \E n \in 1..MaxTags : weighed \in [1..n -> Weighings]
    /\ trellis = <<weighed[1]>>
    /\ pointers = <<[j \in Labels |-> 0]>>
    /\ labels = <<>> /\ pathScores = <<>>
    /\ tags = {}
    /\ crfStage = "forward"

\* Mutant: the label before is chosen by its score alone.
ForwardNoTransition ==
    /\ crfStage = "forward"
    /\ LET t == Len(trellis)
       IN  IF t = Len(weighed) THEN crfStage' = "backward" /\ UNCHANGED <<trellis, pointers>>
           ELSE /\ trellis' = Append(trellis, [j \in Labels |->
                     Arriving(t, j)[ArgMax(trellis[t])] + weighed[t + 1][j]])
                /\ pointers' = Append(pointers, [j \in Labels |-> ArgMax(trellis[t])])
                /\ UNCHANGED crfStage
    /\ UNCHANGED <<weighed, labels, pathScores, tags>>

(* One token of the forward pass.                                          *)
Forward ==
    /\ crfStage = "forward"
    /\ LET t == Len(trellis)
       IN  IF t = Len(weighed) THEN crfStage' = "backward" /\ UNCHANGED <<trellis, pointers>>
           ELSE /\ trellis' = Append(trellis, [j \in Labels |->
                     Arriving(t, j)[ArgMax(Arriving(t, j))] + weighed[t + 1][j]])
                /\ pointers' = Append(pointers, [j \in Labels |-> ArgMax(Arriving(t, j))])
                /\ UNCHANGED crfStage
    /\ UNCHANGED <<weighed, labels, pathScores, tags>>

(* The backward pass.  The score kept for a token is that of the best path *)
(* up to it, all tokens before it included.                                *)
Backward ==
    /\ crfStage = "backward"
    /\ LET n == Len(weighed)
           path[t \in 1..n] ==
             IF t = n THEN ArgMax(trellis[n]) ELSE pointers[t + 1][path[t + 1]]
       IN  /\ labels' = [t \in 1..n |-> path[t]]
           /\ pathScores' = [t \in 1..n |-> trellis[t][path[t]]]
    /\ crfStage' = "decode"
    /\ UNCHANGED <<weighed, trellis, pointers, tags>>

-----------------------------------------------------------------------------
\* An entity begins at a B tag, and at an I tag that continues nothing.
Begins(ls, i) ==
    \/ IsB(ls[i])
    \/ IsI(ls[i]) /\ (IF i = 1 THEN TRUE ELSE ls[i - 1] = 0 \/ TagOf(ls[i - 1]) # TagOf(ls[i]))
RunOf(ls, i) ==
    CHOOSE j \in i..Len(ls) :
        /\ \A k \in i + 1..j : IsI(ls[k]) /\ TagOf(ls[k]) = TagOf(ls[i])
        /\ IF j = Len(ls) THEN TRUE ELSE ls[j + 1] = 0 \/ Begins(ls, j + 1)
Total(ss, i, j) ==
    LET sum[k \in i - 1..j] == IF k < i THEN 0 ELSE sum[k - 1] + ss[k] IN sum[j]

(* decode_entities and push_entity.                                        *)
DecodeEntities ==
    /\ crfStage = "decode"
    /\ tags' =
         {e \in {[type |-> TagOf(labels[i]), first |-> i, last |-> RunOf(labels, i)]
                   : i \in {k \in 1..Len(labels) : Begins(labels, k)}} :
            Total(pathScores, e.first, e.last) >= Cutoff * (e.last - e.first + 1)}
    /\ crfStage' = "done"
    /\ UNCHANGED <<weighed, trellis, pointers, labels, pathScores>>

CrfNext == Forward \/ Backward \/ DecodeEntities

CrfSpec == CrfInit /\ [][CrfNext]_crfVars
-----------------------------------------------------------------------------
\* The weight of a whole labelling, by its definition.
WeightOf(ls) ==
    LET sum[k \in 1..Len(ls)] ==
          IF k = 1 THEN weighed[1][ls[1]]
          ELSE sum[k - 1] + Transitions[ls[k - 1]][ls[k]] + weighed[k][ls[k]]
    IN  sum[Len(ls)]

(* The labels the two passes choose weigh as much as the best of all       *)
(* labellings: no choice made on the way forward costs the best one.       *)
LabelsAreBest ==
    crfStage \in {"decode", "done"} =>
        \A other \in [1..Len(weighed) -> Labels] : WeightOf(labels) >= WeightOf(other)
=============================================================================
