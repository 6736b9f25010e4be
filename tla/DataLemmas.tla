----------------------------- MODULE DataLemmas -----------------------------
(***************************************************************************)
(* Induction over the naturals and what it gives: that the functions the   *)
(* models define by recursion over 0..n exist, so that their equations may *)
(* be used, and what folds, flattened and filtered sequences are.          *)
(*                                                                         *)
(* The induction principles of the library take an operator as parameter,  *)
(* which the provers do not instantiate.  These take a set.                *)
(***************************************************************************)
EXTENDS Selection, SequencesExt, WellFoundedInduction, TLAPS

(* Below each number there is its predecessor.                             *)
LEMMA LessIsWellFounded ==
    \E R : IsWellFoundedOn(R, Nat) /\ \A n \in Nat : <<n, n + 1>> \in R
<1>1. \A n \in Nat : <<n, n + 1>> \in {ss \in Nat \X Nat : ss[1] < ss[2]}
    OBVIOUS
<1>2. \A n \in Nat : <<n, n + 1>> \in OpToRel(<, Nat)
    BY <1>1, Zenon DEF OpToRel
<1> QED BY <1>2, NatLessThanWellFounded, Zenon

(* A set with 0, and with the successor of each of its numbers, has all.   *)
LEMMA NatSetInduction ==
    ASSUME NEW S, 0 \in S, \A n \in Nat : n \in S => n + 1 \in S
    PROVE  Nat \subseteq S
<1> SUFFICES ASSUME Nat \ S # {} PROVE FALSE
    OBVIOUS
<1>1. PICK R : IsWellFoundedOn(R, Nat) /\ \A n \in Nat : <<n, n + 1>> \in R
    BY LessIsWellFounded
<1>2. PICK x \in Nat \ S : \A y \in Nat \ S : ~ (<<y, x>> \in R)
    BY <1>1, WFMin
<1>3. x # 0 /\ x - 1 \in Nat /\ x = (x - 1) + 1
    OBVIOUS
<1>4. <<x - 1, x>> \in R
    BY <1>1, <1>3
<1> QED BY <1>2, <1>3, <1>4

(* The same from a to b.                                                   *)
LEMMA IntervalInduction ==
    ASSUME NEW a \in Int, NEW b \in Int, NEW S,
           a <= b => a \in S, \A n \in a..b - 1 : n \in S => n + 1 \in S
    PROVE  a..b \subseteq S
<1> DEFINE T == {n \in Nat : a + n <= b => a + n \in S}
<1>1. 0 \in T
    OBVIOUS
<1>2. ASSUME NEW n \in Nat, n \in T PROVE n + 1 \in T
    <2> SUFFICES ASSUME a + n + 1 <= b PROVE a + n + 1 \in S
        OBVIOUS
    <2>1. a + n \in a..b - 1 /\ a + n \in S
        BY <1>2
    <2> QED BY <2>1
<1>3. Nat \subseteq T
    <2> HIDE DEF T
    <2> QED BY <1>1, <1>2, NatSetInduction
<1>4. ASSUME NEW k \in a..b PROVE k \in S
    <2>1. k - a \in T /\ a + (k - a) = k
        BY <1>3
    <2> QED BY <2>1
<1> QED BY <1>4

(* From b down to a.                                                       *)
LEMMA DownwardInduction ==
    ASSUME NEW a \in Int, NEW b \in Int, NEW S,
           a <= b => b \in S, \A n \in a + 1..b : n \in S => n - 1 \in S
    PROVE  a..b \subseteq S
<1> DEFINE T == {n \in a..b : a + b - n \in S}
<1>1. a <= b => a \in T
    OBVIOUS
<1>2. \A n \in a..b - 1 : n \in T => n + 1 \in T
    <2> SUFFICES ASSUME NEW n \in a..b - 1, n \in T PROVE n + 1 \in T
        OBVIOUS
    <2>1. a + b - n \in a + 1..b /\ a + b - n \in S
        OBVIOUS
    <2>2. (a + b - n) - 1 \in S
        BY <2>1
    <2>3. (a + b - n) - 1 = a + b - (n + 1)
        OBVIOUS
    <2> QED BY <2>2, <2>3
<1>3. a..b \subseteq T
    <2> HIDE DEF T
    <2> QED BY <1>1, <1>2, IntervalInduction
<1>4. ASSUME NEW k \in a..b PROVE k \in S
    <2>1. a + b - k \in T /\ a + b - (a + b - k) = k
        BY <1>3
    <2> QED BY <2>1
<1> QED BY <1>4

(* A set of numbers up to N has a greatest one.                            *)
LEMMA GreatestExists ==
    ASSUME NEW N \in Nat, NEW T \in SUBSET (1..N), T # {}
    PROVE  \E m \in T : \A x \in T : x <= m
<1> DEFINE S == {n \in 0..N : \A U \in SUBSET (1..n) :
                   U # {} => \E m \in U : \A x \in U : x <= m}
<1>1. 0 \in S
    <2>1. 0 \in 0..N
        OBVIOUS
    <2>2. \A U \in SUBSET (1..0) : U = {}
        OBVIOUS
    <2> QED BY <2>1, <2>2
<1>2. ASSUME NEW n \in 0..N - 1, n \in S PROVE n + 1 \in S
    <2> SUFFICES ASSUME NEW U \in SUBSET (1..n + 1), U # {}
                 PROVE  \E m \in U : \A x \in U : x <= m
        OBVIOUS
    <2>1. CASE n + 1 \in U
        BY <2>1
    <2>2. CASE n + 1 \notin U
        <3>1. U \in SUBSET (1..n)
            BY <2>2
        <3> QED BY <1>2, <3>1
    <2> QED BY <2>1, <2>2
<1>3. 0..N \subseteq S
    <2>1. 0 \in Int /\ N \in Int
        OBVIOUS
    <2> HIDE DEF S
    <2> QED BY <1>1, <1>2, <2>1, IntervalInduction
<1>4. N \in S
    <2> HIDE DEF S
    <2> QED BY <1>3
<1> QED BY <1>4

(* And a least one.                                                        *)
LEMMA LeastExists ==
    ASSUME NEW N \in Nat, NEW T \in SUBSET (1..N), T # {}
    PROVE  \E m \in T : \A x \in T : m <= x
<1> DEFINE U == {N + 1 - x : x \in T}
<1>1. U \in SUBSET (1..N) /\ U # {}
    <2>1. \A x \in T : N + 1 - x \in 1..N
        OBVIOUS
    <2>2. PICK t \in T : TRUE
        OBVIOUS
    <2>3. N + 1 - t \in U
        OBVIOUS
    <2> QED BY <2>1, <2>3
<1>2. PICK n \in U : \A y \in U : y <= n
    <2> HIDE DEF U
    <2> QED BY <1>1, GreatestExists
<1>3. PICK m \in T : n = N + 1 - m
    OBVIOUS
<1>4. ASSUME NEW x \in T PROVE m <= x
    <2>1. N + 1 - x <= N + 1 - m /\ x \in 1..N /\ m \in 1..N
        BY <1>2, <1>3
    <2> QED BY <2>1
<1> QED BY <1>4

-----------------------------------------------------------------------------
(* f is defined by recursion over a..b: base at a, a step at each above.   *)
Recursion(f, a, b, base, step) ==
    f[a] = base /\ \A n \in a + 1..b : f[n] = step[<<n, f[n - 1]>>]

(* Such a function exists.                                                 *)
LEMMA RecursionExists ==
    ASSUME NEW a \in Int, NEW b \in Int, a <= b, NEW X, NEW base \in X,
           NEW step \in [(a + 1..b) \X X -> X]
    PROVE  \E f \in [a..b -> X] : Recursion(f, a, b, base, step)
<1> DEFINE Good(f, m) ==
      f = [n \in a..m |-> IF n = a THEN base ELSE step[<<n, f[n - 1]>>]]
    S == {m \in a..b : \E f \in [a..m -> X] : Good(f, m)}
<1>1. a \in S
    <2> DEFINE f0 == [n \in a..a |-> base]
    <2>1. f0 \in [a..a -> X] /\ Good(f0, a) /\ a \in a..b
        OBVIOUS
    <2> HIDE DEF Good, f0
    <2> QED BY <2>1
<1>2. ASSUME NEW m \in a..b - 1, m \in S PROVE m + 1 \in S
    <2>1. PICK f \in [a..m -> X] : Good(f, m)
        BY <1>2
    <2> DEFINE g == [n \in a..m + 1 |-> IF n = m + 1 THEN step[<<m + 1, f[m]>>] ELSE f[n]]
    <2>2. m + 1 \in a + 1..b /\ m \in a..m /\ f[m] \in X
        OBVIOUS
    <2>3. step[<<m + 1, f[m]>>] \in X
        BY <2>2
    <2>4. g \in [a..m + 1 -> X]
        BY <2>3
    <2>5. ASSUME NEW n \in a..m + 1
          PROVE  g[n] = IF n = a THEN base ELSE step[<<n, g[n - 1]>>]
        <3>1. CASE n = m + 1
            <4>1. g[n] = step[<<m + 1, f[m]>>] /\ g[m] = f[m] /\ n # a /\ n - 1 = m
                BY <3>1
            <4> QED BY <4>1, <3>1
        <3>2. CASE n # m + 1 /\ n = a
            <4>1. g[n] = f[n] /\ n \in a..m
                BY <3>2
            <4>2. f[n] = base
                BY <2>1, <4>1, <3>2
            <4> QED BY <4>1, <4>2, <3>2
        <3>3. CASE n # m + 1 /\ n # a
            <4>1. g[n] = f[n] /\ n \in a..m /\ g[n - 1] = f[n - 1]
                BY <3>3
            <4>2. f[n] = step[<<n, f[n - 1]>>]
                BY <2>1, <4>1, <3>3
            <4> QED BY <4>1, <4>2, <3>3
        <3> QED BY <3>1, <3>2, <3>3
    <2>6. Good(g, m + 1)
        BY <2>4, <2>5
    <2>7. m + 1 \in a..b
        OBVIOUS
    <2> HIDE DEF Good, g
    <2> QED BY <2>4, <2>6, <2>7
<1>3. a..b \subseteq S
    <2> HIDE DEF S
    <2> QED BY <1>1, <1>2, IntervalInduction
<1>4. PICK f \in [a..b -> X] : Good(f, b)
    BY <1>3
<1>5. \A n \in a..b : f[n] = IF n = a THEN base ELSE step[<<n, f[n - 1]>>]
    BY <1>4
<1>6. f[a] = base
    <2>1. a \in a..b
        OBVIOUS
    <2> QED BY <1>5, <2>1
<1>7. \A n \in a + 1..b : f[n] = step[<<n, f[n - 1]>>]
    BY <1>5
<1> QED BY <1>6, <1>7 DEF Recursion

-----------------------------------------------------------------------------
(* Sequences with the same elements are the same.                          *)
LEMMA SameSequence ==
    ASSUME NEW X, NEW s \in Seq(X), NEW t \in Seq(X), Len(s) = Len(t),
           \A i \in 1..Len(s) : s[i] = t[i]
    PROVE  s = t
<1>1. s = [i \in 1..Len(s) |-> s[i]] /\ t = [i \in 1..Len(t) |-> t[i]]
    OBVIOUS
<1>2. [i \in 1..Len(s) |-> s[i]] = [i \in 1..Len(s) |-> t[i]]
    OBVIOUS
<1> QED BY <1>1, <1>2

(* The elements of a sequence, and that they alone make its type.          *)
LEMMA ElementsOf ==
    ASSUME NEW X, NEW s \in Seq(X)
    PROVE  /\ Len(s) \in Nat /\ \A i \in 1..Len(s) : s[i] \in X
           /\ \A Y : (\A i \in 1..Len(s) : s[i] \in Y) => s \in Seq(Y)
<1>1. s = [i \in 1..Len(s) |-> s[i]] /\ Len(s) \in Nat
    OBVIOUS
<1>2. ASSUME NEW Y, \A i \in 1..Len(s) : s[i] \in Y PROVE s \in Seq(Y)
    BY <1>1, <1>2
<1> QED BY <1>2

(* The elements of two joined sequences.                                   *)
LEMMA ConcatElements ==
    ASSUME NEW X, NEW s \in Seq(X), NEW t \in Seq(X)
    PROVE  /\ s \o t \in Seq(X) /\ Len(s \o t) = Len(s) + Len(t)
           /\ Len(s) \in Nat /\ Len(t) \in Nat
           /\ \A i \in 1..Len(s) + Len(t) : (s \o t)[i] = IF i <= Len(s) THEN s[i] ELSE t[i - Len(s)]
           /\ \A i \in 1..Len(s) : (s \o t)[i] = s[i]
           /\ \A i \in 1..Len(t) : (s \o t)[Len(s) + i] = t[i]
OBVIOUS

(* Joining associates.                                                     *)
LEMMA ConcatAssociates ==
    \A X : \A r, s, t \in Seq(X) : (r \o s) \o t = r \o (s \o t)
    OBVIOUS

(* The elements of what is left behind a prefix.                           *)
LEMMA SuffixElements ==
    ASSUME NEW X, NEW s \in Seq(X), NEW m \in 0..Len(s)
    PROVE  /\ SubSeq(s, m + 1, Len(s)) \in Seq(X)
           /\ Len(SubSeq(s, m + 1, Len(s))) = Len(s) - m
           /\ \A i \in 1..Len(s) - m : SubSeq(s, m + 1, Len(s))[i] = s[m + i]
<1>1. Len(s) \in Nat /\ m \in Nat /\ m <= Len(s)
    OBVIOUS
<1>2. SubSeq(s, m + 1, Len(s)) = [i \in 1..Len(s) - m |-> s[m + i]]
    BY <1>1
<1>3. \A i \in 1..Len(s) - m : s[m + i] \in X
    <2> SUFFICES ASSUME NEW i \in 1..Len(s) - m PROVE s[m + i] \in X
        OBVIOUS
    <2>1. m + i \in 1..Len(s)
        BY <1>1
    <2> QED BY <2>1
<1>4. Len(s) - m \in Nat
    BY <1>1
<1> QED BY <1>2, <1>3, <1>4

(* The elements of joined sequences.                                       *)
LEMMA ToSetConcat ==
    ASSUME NEW S, NEW s \in Seq(S), NEW t \in Seq(S)
    PROVE  ToSet(s \o t) = ToSet(s) \cup ToSet(t)
<1>1. /\ DOMAIN (s \o t) = 1..Len(s) + Len(t)
      /\ DOMAIN s = 1..Len(s) /\ DOMAIN t = 1..Len(t)
      /\ Len(s) \in Nat /\ Len(t) \in Nat
      /\ \A i \in 1..Len(s) + Len(t) :
            (s \o t)[i] = IF i <= Len(s) THEN s[i] ELSE t[i - Len(s)]
    OBVIOUS
<1>2. ASSUME NEW x \in ToSet(s \o t) PROVE x \in ToSet(s) \cup ToSet(t)
    <2>1. PICK i \in 1..Len(s) + Len(t) : x = (s \o t)[i]
        BY <1>1 DEF ToSet
    <2>2. CASE i <= Len(s)
        BY <1>1, <2>1, <2>2 DEF ToSet
    <2>3. CASE i > Len(s)
        <3>1. i - Len(s) \in 1..Len(t) /\ x = t[i - Len(s)]
            BY <1>1, <2>1, <2>3
        <3> QED BY <1>1, <3>1 DEF ToSet
    <2> QED BY <1>1, <2>2, <2>3
<1>3. ASSUME NEW x \in ToSet(s) PROVE x \in ToSet(s \o t)
    <2>1. PICK i \in 1..Len(s) : x = s[i]
        BY <1>1 DEF ToSet
    <2>2. i \in 1..Len(s) + Len(t) /\ x = (s \o t)[i]
        BY <1>1, <2>1
    <2> QED BY <1>1, <2>2 DEF ToSet
<1>4. ASSUME NEW x \in ToSet(t) PROVE x \in ToSet(s \o t)
    <2>1. PICK i \in 1..Len(t) : x = t[i]
        BY <1>1 DEF ToSet
    <2>2. i + Len(s) \in 1..Len(s) + Len(t) /\ x = (s \o t)[i + Len(s)]
        BY <1>1, <2>1
    <2> QED BY <1>1, <2>2 DEF ToSet
<1> QED BY <1>2, <1>3, <1>4

(* One element more.                                                       *)
LEMMA ToSetAppend ==
    ASSUME NEW S, NEW s \in Seq(S), NEW x \in S
    PROVE  ToSet(Append(s, x)) = ToSet(s) \cup {x}
<1>1. /\ DOMAIN Append(s, x) = 1..Len(s) + 1 /\ DOMAIN s = 1..Len(s) /\ Len(s) \in Nat
      /\ \A i \in 1..Len(s) : Append(s, x)[i] = s[i]
      /\ Append(s, x)[Len(s) + 1] = x
    OBVIOUS
<1>2. ASSUME NEW y \in ToSet(Append(s, x)) PROVE y \in ToSet(s) \cup {x}
    BY <1>1 DEF ToSet
<1>3. ASSUME NEW y \in ToSet(s) PROVE y \in ToSet(Append(s, x))
    BY <1>1 DEF ToSet
<1>4. x \in ToSet(Append(s, x))
    BY <1>1 DEF ToSet
<1> QED BY <1>2, <1>3, <1>4

(* ToSet in terms of the indices.                                          *)
LEMMA ToSetElements ==
    ASSUME NEW S, NEW s \in Seq(S)
    PROVE  /\ ToSet(s) \subseteq S
           /\ \A i \in 1..Len(s) : s[i] \in ToSet(s)
           /\ \A x \in ToSet(s) : \E i \in 1..Len(s) : x = s[i]
BY DEF ToSet

(* A bounded sequence is a sequence within the bound.                      *)
LEMMA BoundedSeqIs ==
    ASSUME NEW S, NEW n \in Nat
    PROVE  \A s : s \in BoundedSeq(S, n) <=> s \in Seq(S) /\ Len(s) <= n
<1>1. ASSUME NEW s \in BoundedSeq(S, n) PROVE s \in Seq(S) /\ Len(s) <= n
    <2>1. PICK m \in 0..n : s \in [1..m -> S]
        BY DEF BoundedSeq, SeqOf
    <2>2. m \in Nat
        OBVIOUS
    <2> QED BY <2>1, <2>2
<1>2. ASSUME NEW s \in Seq(S), Len(s) <= n PROVE s \in BoundedSeq(S, n)
    <2>1. Len(s) \in 0..n /\ s \in [1..Len(s) -> S]
        BY <1>2
    <2> QED BY <2>1 DEF BoundedSeq, SeqOf
<1> QED BY <1>1, <1>2

-----------------------------------------------------------------------------
(* A set with the empty sequence, and with the extension of each of its    *)
(* sequences by an element, has all sequences.                             *)
LEMMA SeqInduction ==
    ASSUME NEW X, NEW T, <<>> \in T,
           \A s \in Seq(X) : s \in T => \A x \in X : Append(s, x) \in T
    PROVE  Seq(X) \subseteq T
<1> DEFINE S == {n \in Nat : \A s \in Seq(X) : Len(s) = n => s \in T}
<1>1. 0 \in S
    <2>1. \A s \in Seq(X) : Len(s) = 0 => s = <<>>
        OBVIOUS
    <2> QED BY <2>1
<1>2. ASSUME NEW n \in Nat, n \in S PROVE n + 1 \in S
    <2> SUFFICES ASSUME NEW s \in Seq(X), Len(s) = n + 1 PROVE s \in T
        OBVIOUS
    <2> DEFINE r == SubSeq(s, 1, n)
    <2>1. r \in Seq(X) /\ Len(r) = n /\ s[n + 1] \in X /\ s = Append(r, s[n + 1])
        OBVIOUS
    <2>2. r \in T
        BY <1>2, <2>1
    <2> HIDE DEF r
    <2> QED BY <2>1, <2>2
<1>3. Nat \subseteq S
    <2> HIDE DEF S
    <2> QED BY <1>1, <1>2, NatSetInduction
<1> QED BY <1>3

(* f has what is selected of each beginning of s.                          *)
Picks(f, s, S) ==
    /\ f[0] = <<>>
    /\ \A n \in 1..Len(s) :
         f[n] = IF s[n] \in S THEN Append(f[n - 1], s[n]) ELSE f[n - 1]

(* Those(s, S) is computed from the front.                                 *)
LEMMA ThoseByRecursion ==
    ASSUME NEW X, NEW s \in Seq(X), NEW S
    PROVE  \E f \in [0..Len(s) -> Seq(X)] : Picks(f, s, S) /\ Those(s, S) = f[Len(s)]
<1> DEFINE N    == Len(s)
           step == [p \in (0 + 1..N) \X Seq(X) |->
                      IF s[p[1]] \in S THEN Append(p[2], s[p[1]]) ELSE p[2]]
           F(f) == [n \in 0..N |-> IF n = 0 THEN <<>>
                                   ELSE IF s[n] \in S THEN Append(f[n - 1], s[n]) ELSE f[n - 1]]
           f    == CHOOSE g : g = F(g)
<1>1. N \in Nat /\ N \in Int /\ 0 \in Int /\ 0 <= N /\ <<>> \in Seq(X)
    OBVIOUS
<1>2. step \in [(0 + 1..N) \X Seq(X) -> Seq(X)]
    <2>1. \A n \in 0 + 1..N : s[n] \in X
        OBVIOUS
    <2> HIDE DEF N
    <2> QED BY <2>1
<1>3. PICK g \in [0..N -> Seq(X)] : Recursion(g, 0, N, <<>>, step)
    <2> HIDE DEF N, step, F, f
    <2> QED BY <1>1, <1>2, RecursionExists
<1>4. g[0] = <<>>
    BY <1>3 DEF Recursion
<1>5. ASSUME NEW n \in 1..N
      PROVE  g[n] = IF s[n] \in S THEN Append(g[n - 1], s[n]) ELSE g[n - 1]
    <2>1. n \in 0 + 1..N /\ n - 1 \in 0..N
        BY <1>1
    <2>2. <<n, g[n - 1]>> \in (0 + 1..N) \X Seq(X) /\ g[n] = step[<<n, g[n - 1]>>]
        <3> HIDE DEF step, N
        <3> QED BY <2>1, <1>3 DEF Recursion
    <2>3. step[<<n, g[n - 1]>>] = IF s[n] \in S THEN Append(g[n - 1], s[n]) ELSE g[n - 1]
        BY <2>2
    <2> HIDE DEF step
    <2> QED BY <2>2, <2>3
<1>6. g = F(g)
    <2>1. \A n \in 0..N : g[n] = F(g)[n]
        <3> SUFFICES ASSUME NEW n \in 0..N PROVE g[n] = F(g)[n]
            OBVIOUS
        <3>1. CASE n = 0
            BY <1>4, <3>1
        <3>2. CASE n # 0
            <4>1. n \in 1..N
                BY <1>1, <3>2
            <4> HIDE DEF step, N
            <4> QED BY <1>5, <3>2, <4>1
        <3> HIDE DEF F
        <3> QED BY <3>1, <3>2
    <2> HIDE DEF step, N
    <2> QED BY <1>3, <2>1
<1>7. f = F(f)
    <2> HIDE DEF F
    <2> QED BY <1>6
<1>8. Those(s, S) = f[N]
    BY DEF Those
<1>9. f[0] = <<>> /\ f \in [0..N -> Seq(X)]
    <2> DEFINE T == {n \in 0..N : f[n] \in Seq(X)}
    <2>1. f[0] = <<>>
        <3> HIDE DEF f, N
        <3> QED BY <1>1, <1>7
    <2>2. ASSUME NEW n \in 0..N - 1, n \in T PROVE n + 1 \in T
        <3>1. n + 1 \in 0..N /\ n + 1 # 0 /\ (n + 1) - 1 = n /\ s[n + 1] \in X /\ f[n] \in Seq(X)
            BY <2>2
        <3>2. f[n + 1] = IF s[n + 1] \in S THEN Append(f[n], s[n + 1]) ELSE f[n]
            <4> HIDE DEF f, N
            <4> QED BY <1>7, <3>1
        <3> HIDE DEF f, N
        <3>3. f[n + 1] \in Seq(X)
            BY <3>1, <3>2
        <3> QED BY <3>1, <3>3
    <2>3. 0 \in T
        <3>1. f[0] \in Seq(X) /\ 0 \in 0..N
            <4> HIDE DEF f
            <4> QED BY <1>1, <2>1
        <3> HIDE DEF f, N
        <3> QED BY <3>1
    <2>4. 0..N \subseteq T
        <3> HIDE DEF T, N, f, F, step
        <3> QED BY <1>1, <2>2, <2>3, IntervalInduction
    <2>5. f = [n \in 0..N |-> f[n]]
        <3> HIDE DEF f
        <3> QED BY <1>7
    <2> HIDE DEF f, N
    <2> QED BY <2>1, <2>4, <2>5
<1>10. \A n \in 1..N : f[n] = IF s[n] \in S THEN Append(f[n - 1], s[n]) ELSE f[n - 1]
    <2>1. \A n \in 1..N : n \in 0..N /\ n # 0
        BY <1>1
    <2> HIDE DEF f, N
    <2> QED BY <1>7, <2>1
<1>11. Picks(f, s, S)
    <2> HIDE DEF f
    <2> QED BY <1>9, <1>10 DEF Picks
<1> HIDE DEF f
<1> QED BY <1>8, <1>9, <1>11

(* Nothing is selected of nothing.                                         *)
LEMMA ThoseOfNone ==
    ASSUME NEW S
    PROVE  Those(<<>>, S) = <<>>
<1>1. <<>> \in Seq({}) /\ Len(<<>>) = 0
    OBVIOUS
<1>2. PICK f \in [0..Len(<<>>) -> Seq({})] : Picks(f, <<>>, S) /\ Those(<<>>, S) = f[Len(<<>>)]
    BY <1>1, ThoseByRecursion
<1> QED BY <1>1, <1>2 DEF Picks

(* What an element more adds to a selection.                               *)
LEMMA ThoseOfAppend ==
    ASSUME NEW X, NEW s \in Seq(X), NEW x \in X, NEW S
    PROVE  Those(Append(s, x), S) = IF x \in S THEN Append(Those(s, S), x) ELSE Those(s, S)
<1> DEFINE t == Append(s, x)
           N == Len(s)
<1>1. /\ t \in Seq(X) /\ N \in Nat /\ Len(t) = N + 1 /\ t[N + 1] = x
      /\ \A n \in 1..N : t[n] = s[n]
    OBVIOUS
<1>2. PICK f \in [0..N -> Seq(X)] : Picks(f, s, S) /\ Those(s, S) = f[N]
    BY ThoseByRecursion
<1>3. PICK g \in [0..N + 1 -> Seq(X)] : Picks(g, t, S) /\ Those(t, S) = g[N + 1]
    <2>1. PICK g \in [0..Len(t) -> Seq(X)] : Picks(g, t, S) /\ Those(t, S) = g[Len(t)]
        <3> HIDE DEF t, N
        <3> QED BY <1>1, ThoseByRecursion
    <2> HIDE DEF t, N
    <2> QED BY <1>1, <2>1
<1> HIDE DEF t, N
<1> DEFINE T == {n \in 0..N : g[n] = f[n]}
<1>4. 0 \in T
    BY <1>1, <1>2, <1>3 DEF Picks
<1>5. ASSUME NEW n \in 0..N - 1, n \in T PROVE n + 1 \in T
    <2>1. n + 1 \in 1..N /\ n + 1 \in 1..N + 1 /\ n + 1 \in 0..N /\ (n + 1) - 1 = n /\ g[n] = f[n]
        BY <1>1, <1>5
    <2>2. f[n + 1] = IF s[n + 1] \in S THEN Append(f[n], s[n + 1]) ELSE f[n]
        BY <1>2, <2>1 DEF Picks, N
    <2>3. g[n + 1] = IF s[n + 1] \in S THEN Append(f[n], s[n + 1]) ELSE f[n]
        BY <1>1, <1>3, <2>1 DEF Picks
    <2> QED BY <2>1, <2>2, <2>3
<1>6. N \in T
    <2>1. 0..N \subseteq T
        <3>1. 0 \in Int /\ N \in Int
            BY <1>1
        <3> HIDE DEF T
        <3> QED BY <1>4, <1>5, <3>1, IntervalInduction
    <2> QED BY <1>1, <2>1
<1>7. N + 1 \in 1..N + 1 /\ (N + 1) - 1 = N
    BY <1>1
<1>8. g[N + 1] = IF t[N + 1] \in S THEN Append(g[N], t[N + 1]) ELSE g[N]
    BY <1>1, <1>3, <1>7 DEF Picks
<1> QED BY <1>1, <1>2, <1>3, <1>6, <1>8 DEF t

(* What is selected is of the sequence and in the set, and all of that.    *)
LEMMA ThoseElements ==
    ASSUME NEW X, NEW s \in Seq(X), NEW S
    PROVE  Those(s, S) \in Seq(X \cap S) /\ ToSet(Those(s, S)) = ToSet(s) \cap S
<1> DEFINE T == {r \in Seq(X) : /\ Those(r, S) \in Seq(X \cap S)
                                /\ ToSet(Those(r, S)) = ToSet(r) \cap S}
<1>1. <<>> \in T
    <2>1. ToSet(<<>>) = {} /\ <<>> \in Seq(X) /\ <<>> \in Seq(X \cap S)
        BY DEF ToSet
    <2>2. Those(<<>>, S) = <<>>
        BY ThoseOfNone
    <2> QED BY <2>1, <2>2
<1>2. ASSUME NEW r \in Seq(X), r \in T, NEW x \in X PROVE Append(r, x) \in T
    <2> DEFINE t == Those(r, S)
               q == Those(Append(r, x), S)
    <2>1. q = IF x \in S THEN Append(t, x) ELSE t
        BY ThoseOfAppend
    <2>2. t \in Seq(X \cap S) /\ ToSet(t) = ToSet(r) \cap S
        BY <1>2
    <2>3. ToSet(Append(r, x)) = ToSet(r) \cup {x} /\ Append(r, x) \in Seq(X)
        BY ToSetAppend
    <2> HIDE DEF t, q
    <2>4. CASE x \in S
        <3>1. x \in X \cap S
            BY <2>4
        <3>2. ToSet(Append(t, x)) = ToSet(t) \cup {x} /\ Append(t, x) \in Seq(X \cap S)
            BY <2>2, <3>1, ToSetAppend
        <3>3. q \in Seq(X \cap S) /\ ToSet(q) = ToSet(Append(r, x)) \cap S
            BY <2>1, <2>2, <2>3, <2>4, <3>2
        <3> QED BY <2>3, <3>3 DEF q
    <2>5. CASE x \notin S
        <3>3. q \in Seq(X \cap S) /\ ToSet(q) = ToSet(Append(r, x)) \cap S
            BY <2>1, <2>2, <2>3, <2>5
        <3> QED BY <2>3, <3>3 DEF q
    <2> QED BY <2>4, <2>5
<1>3. Seq(X) \subseteq T
    <2> HIDE DEF T
    <2> QED BY <1>1, <1>2, SeqInduction
<1> QED BY <1>3

(* A selection of joined sequences joins the selections.                   *)
LEMMA ThoseOfConcat ==
    ASSUME NEW X, NEW s \in Seq(X), NEW t \in Seq(X), NEW S
    PROVE  Those(s \o t, S) = Those(s, S) \o Those(t, S)
<1> DEFINE T == {r \in Seq(X) : Those(s \o r, S) = Those(s, S) \o Those(r, S)}
<1>0. Those(s, S) \in Seq(X)
    <2>1. Those(s, S) \in Seq(X \cap S)
        BY ThoseElements
    <2> HIDE DEF T
    <2> QED BY <2>1
<1>1. <<>> \in T
    <2>1. s \o <<>> = s /\ Those(s, S) \o <<>> = Those(s, S) /\ <<>> \in Seq(X)
        BY <1>0
    <2>2. Those(<<>>, S) = <<>>
        BY ThoseOfNone
    <2> QED BY <2>1, <2>2
<1>2. ASSUME NEW r \in Seq(X), r \in T, NEW x \in X PROVE Append(r, x) \in T
    <2>1. s \o Append(r, x) = Append(s \o r, x) /\ s \o r \in Seq(X) /\ Append(r, x) \in Seq(X)
        OBVIOUS
    <2>2. Those(r, S) \in Seq(X)
        <3>1. Those(r, S) \in Seq(X \cap S)
            BY ThoseElements
        <3> HIDE DEF T
        <3> QED BY <3>1
    <2>3. Those(s \o r, S) = Those(s, S) \o Those(r, S)
        BY <1>2
    <2>4. Those(s \o Append(r, x), S) = IF x \in S THEN Append(Those(s \o r, S), x) ELSE Those(s \o r, S)
        BY <2>1, ThoseOfAppend
    <2>5. Those(Append(r, x), S) = IF x \in S THEN Append(Those(r, S), x) ELSE Those(r, S)
        BY ThoseOfAppend
    <2>6. Those(s, S) \o Append(Those(r, S), x) = Append(Those(s, S) \o Those(r, S), x)
        BY <1>0, <2>2
    <2> QED BY <2>1, <2>3, <2>4, <2>5, <2>6
<1>3. Seq(X) \subseteq T
    <2> HIDE DEF T
    <2> QED BY <1>1, <1>2, SeqInduction
<1> QED BY <1>3

(* R is a relation, as a set of pairs, that holds along s.                 *)
Ordered(s, R) == \A i, j \in 1..Len(s) : i < j => <<s[i], s[j]>> \in R

(* Two sequences join to one that is ordered if each is and the first is   *)
(* before the second.                                                      *)
LEMMA OrderedConcat ==
    ASSUME NEW X, NEW s \in Seq(X), NEW t \in Seq(X), NEW R, Ordered(s, R), Ordered(t, R),
           \A x \in ToSet(s), y \in ToSet(t) : <<x, y>> \in R
    PROVE  Ordered(s \o t, R)
<1>1. /\ Len(s \o t) = Len(s) + Len(t) /\ Len(s) \in Nat /\ Len(t) \in Nat
      /\ \A i \in 1..Len(s) + Len(t) : (s \o t)[i] = IF i <= Len(s) THEN s[i] ELSE t[i - Len(s)]
    OBVIOUS
<1> SUFFICES ASSUME NEW i \in 1..Len(s) + Len(t), NEW j \in 1..Len(s) + Len(t), i < j
             PROVE  <<(s \o t)[i], (s \o t)[j]>> \in R
    BY <1>1 DEF Ordered
<1>2. CASE j <= Len(s)
    <2>1. i \in 1..Len(s) /\ j \in 1..Len(s) /\ (s \o t)[i] = s[i] /\ (s \o t)[j] = s[j]
        BY <1>1, <1>2
    <2> QED BY <2>1 DEF Ordered
<1>3. CASE i > Len(s)
    <2>1. /\ i - Len(s) \in 1..Len(t) /\ j - Len(s) \in 1..Len(t) /\ i - Len(s) < j - Len(s)
          /\ (s \o t)[i] = t[i - Len(s)] /\ (s \o t)[j] = t[j - Len(s)]
        BY <1>1, <1>3
    <2> QED BY <2>1 DEF Ordered
<1>4. CASE i <= Len(s) /\ j > Len(s)
    <2>1. /\ i \in 1..Len(s) /\ j - Len(s) \in 1..Len(t)
          /\ (s \o t)[i] = s[i] /\ (s \o t)[j] = t[j - Len(s)]
        BY <1>1, <1>4
    <2>2. s[i] \in ToSet(s) /\ t[j - Len(s)] \in ToSet(t)
        BY <2>1, ToSetElements
    <2> QED BY <2>1, <2>2
<1>5. j <= Len(s) \/ i > Len(s) \/ (i <= Len(s) /\ j > Len(s))
    BY <1>1
<1> QED BY <1>2, <1>3, <1>4, <1>5

(* A selection keeps the order.                                            *)
LEMMA ThoseOrdered ==
    ASSUME NEW X, NEW s \in Seq(X), NEW S, NEW R, Ordered(s, R)
    PROVE  Ordered(Those(s, S), R)
<1> DEFINE T == {r \in Seq(X) : Ordered(r, R) => Ordered(Those(r, S), R)}
<1>1. <<>> \in T
    <2>1. Those(<<>>, S) = <<>> /\ <<>> \in Seq(X)
        BY ThoseOfNone
    <2> QED BY <2>1 DEF Ordered
<1>2. ASSUME NEW r \in Seq(X), r \in T, NEW x \in X PROVE Append(r, x) \in T
    <2> SUFFICES ASSUME Ordered(Append(r, x), R) PROVE Ordered(Those(Append(r, x), S), R)
        OBVIOUS
    <2> DEFINE t == Those(r, S)
    <2>1. /\ Len(Append(r, x)) = Len(r) + 1 /\ Len(r) \in Nat
          /\ \A i \in 1..Len(r) : Append(r, x)[i] = r[i]
          /\ Append(r, x)[Len(r) + 1] = x
        OBVIOUS
    <2>2. Ordered(r, R) /\ \A i \in 1..Len(r) : <<r[i], x>> \in R
        <3>1. \A i \in 1..Len(r) : i \in 1..Len(r) + 1 /\ i < Len(r) + 1
            BY <2>1
        <3>2. Len(r) + 1 \in 1..Len(r) + 1
            BY <2>1
        <3> QED BY <2>1, <3>1, <3>2 DEF Ordered
    <2>3. Ordered(t, R)
        BY <1>2, <2>2
    <2>4. t \in Seq(X) /\ ToSet(t) \subseteq ToSet(r)
        <3>1. t \in Seq(X \cap S) /\ ToSet(t) = ToSet(r) \cap S
            BY ThoseElements
        <3> HIDE DEF t
        <3> QED BY <3>1
    <2>5. Those(Append(r, x), S) = IF x \in S THEN Append(t, x) ELSE t
        BY ThoseOfAppend
    <2> HIDE DEF t
    <2>6. \A i \in 1..Len(t) : <<t[i], x>> \in R
        <3> TAKE i \in 1..Len(t)
        <3>1. t[i] \in ToSet(r)
            BY <2>4, ToSetElements
        <3>2. PICK j \in 1..Len(r) : t[i] = r[j]
            BY <3>1, ToSetElements
        <3> QED BY <2>2, <3>2
    <2>7. Ordered(Append(t, x), R)
        <3>1. /\ Len(Append(t, x)) = Len(t) + 1 /\ Len(t) \in Nat
              /\ \A i \in 1..Len(t) : Append(t, x)[i] = t[i]
              /\ Append(t, x)[Len(t) + 1] = x
              /\ \A i \in 1..Len(t) + 1 : i \in 1..Len(t) \/ i = Len(t) + 1
            BY <2>4
        <3> QED BY <2>3, <2>6, <3>1 DEF Ordered
    <2> QED BY <2>3, <2>5, <2>7
<1>3. Seq(X) \subseteq T
    <2> HIDE DEF T
    <2> QED BY <1>1, <1>2, SeqInduction
<1> QED BY <1>3

(* Selecting all leaves the sequence as it is.                             *)
LEMMA ThoseOfAll ==
    ASSUME NEW X, NEW s \in Seq(X), NEW S, ToSet(s) \subseteq S
    PROVE  Those(s, S) = s
<1> DEFINE T == {r \in Seq(X) : ToSet(r) \subseteq S => Those(r, S) = r}
<1>1. <<>> \in T
    <2>1. Those(<<>>, S) = <<>> /\ <<>> \in Seq(X)
        BY ThoseOfNone
    <2> QED BY <2>1
<1>2. ASSUME NEW r \in Seq(X), r \in T, NEW x \in X PROVE Append(r, x) \in T
    <2>1. ToSet(Append(r, x)) = ToSet(r) \cup {x} /\ Append(r, x) \in Seq(X)
        BY ToSetAppend
    <2>2. Those(Append(r, x), S) = IF x \in S THEN Append(Those(r, S), x) ELSE Those(r, S)
        BY ThoseOfAppend
    <2> QED BY <1>2, <2>1, <2>2
<1>3. Seq(X) \subseteq T
    <2> HIDE DEF T
    <2> QED BY <1>1, <1>2, SeqInduction
<1> QED BY <1>3

(* Nothing is selected by a set of other elements.                         *)
LEMMA ThoseOfOthers ==
    ASSUME NEW X, NEW s \in Seq(X), NEW S, ToSet(s) \cap S = {}
    PROVE  Those(s, S) = <<>>
<1> DEFINE t == Those(s, S)
<1>1. t \in Seq(X \cap S) /\ ToSet(t) = {}
    BY ThoseElements
<1> HIDE DEF t
<1>2. Len(t) = 0
    <2> SUFFICES ASSUME Len(t) # 0 PROVE FALSE
        OBVIOUS
    <2>1. 1 \in 1..Len(t)
        BY <1>1
    <2> QED BY <1>1, <2>1, ToSetElements
<1>3. t = <<>>
    BY <1>1, <1>2
<1> QED BY <1>3 DEF t

-----------------------------------------------------------------------------
(* Rising sequences of integers are told by their elements.                *)
Rising == {p \in Int \X Int : p[1] < p[2]}

(* A rising sequence goes on with a number above all it has.               *)
LEMMA RisingAppend ==
    ASSUME NEW X, X \subseteq Int, NEW s \in Seq(X), NEW x \in X
    PROVE  Ordered(Append(s, x), Rising) <=> Ordered(s, Rising) /\ \A y \in ToSet(s) : y < x
<1>1. /\ Len(Append(s, x)) = Len(s) + 1 /\ Len(s) \in Nat
      /\ \A i \in 1..Len(s) : Append(s, x)[i] = s[i] /\ s[i] \in Int
      /\ Append(s, x)[Len(s) + 1] = x
      /\ \A i \in 1..Len(s) + 1 : i \in 1..Len(s) \/ i = Len(s) + 1
      /\ \A i \in 1..Len(s) : i \in 1..Len(s) + 1 /\ i < Len(s) + 1 /\ Len(s) + 1 \in 1..Len(s) + 1
    <2>1. \A i \in 1..Len(s) : s[i] \in X
        OBVIOUS
    <2>2. \A i \in 1..Len(s) : s[i] \in Int
        BY <2>1
    <2> QED BY <2>2
<1>2. ASSUME Ordered(Append(s, x), Rising)
      PROVE  Ordered(s, Rising) /\ \A y \in ToSet(s) : y < x
    <2>1. Ordered(s, Rising)
        BY <1>1, <1>2 DEF Ordered
    <2>2. \A i \in 1..Len(s) : <<s[i], x>> \in Rising
        BY <1>1, <1>2 DEF Ordered
    <2>3. \A i \in 1..Len(s) : s[i] < x
        BY <1>1, <2>2 DEF Rising
    <2> QED BY <2>1, <2>3, ToSetElements
<1>3. ASSUME Ordered(s, Rising), \A y \in ToSet(s) : y < x
      PROVE  Ordered(Append(s, x), Rising)
    <2>1. \A i \in 1..Len(s) : s[i] < x
        BY <1>3, ToSetElements
    <2>2. \A i \in 1..Len(s) : <<s[i], x>> \in Rising
        BY <1>1, <2>1 DEF Rising
    <2> SUFFICES ASSUME NEW i \in 1..Len(s) + 1, NEW j \in 1..Len(s) + 1, i < j
                 PROVE  <<Append(s, x)[i], Append(s, x)[j]>> \in Rising
        BY <1>1 DEF Ordered
    <2>3. i \in 1..Len(s)
        BY <1>1
    <2>4. CASE j \in 1..Len(s)
        BY <1>1, <1>3, <2>3, <2>4 DEF Ordered
    <2>5. CASE j = Len(s) + 1
        BY <1>1, <2>2, <2>3, <2>5
    <2> QED BY <1>1, <2>4, <2>5
<1> QED BY <1>2, <1>3

(* A rising sequence is known by its elements.                             *)
LEMMA RisingUnique ==
    ASSUME NEW X, X \subseteq Int, NEW s \in Seq(X), NEW t \in Seq(X), Ordered(s, Rising), Ordered(t, Rising),
           ToSet(s) = ToSet(t)
    PROVE  s = t
<1> DEFINE T == {r \in Seq(X) : \A q \in Seq(X) :
                   Ordered(r, Rising) /\ Ordered(q, Rising) /\ ToSet(r) = ToSet(q) => r = q}
<1>1. <<>> \in T
    <2>1. ASSUME NEW q \in Seq(X), ToSet(<<>>) = ToSet(q) PROVE q = <<>>
        <3>1. ToSet(q) = {}
            BY <2>1 DEF ToSet
        <3>2. \A i \in 1..Len(q) : q[i] \in ToSet(q)
            BY ToSetElements
        <3>3. Len(q) = 0
            <4> SUFFICES ASSUME Len(q) # 0 PROVE FALSE
                OBVIOUS
            <4>1. 1 \in 1..Len(q)
                OBVIOUS
            <4> QED BY <3>1, <3>2, <4>1
        <3> QED BY <3>3
    <2> QED BY <2>1
<1>2. ASSUME NEW r \in Seq(X), r \in T, NEW x \in X PROVE Append(r, x) \in T
    <2> SUFFICES ASSUME NEW q \in Seq(X), Ordered(Append(r, x), Rising), Ordered(q, Rising),
                        ToSet(Append(r, x)) = ToSet(q)
                 PROVE  Append(r, x) = q
        OBVIOUS
    <2>1. ToSet(q) = ToSet(r) \cup {x}
        <3>1. ToSet(Append(r, x)) = ToSet(r) \cup {x}
            BY ToSetAppend
        <3> QED BY <3>1
    <2>2. Len(q) # 0
        <3> SUFFICES ASSUME Len(q) = 0 PROVE FALSE
            OBVIOUS
        <3>1. \E i \in 1..Len(q) : x = q[i]
            <4>1. x \in ToSet(q)
                BY <2>1
            <4> QED BY <4>1, ToSetElements
        <3> QED BY <3>1
    <2> DEFINE p == SubSeq(q, 1, Len(q) - 1)
               y == q[Len(q)]
    <2>3. p \in Seq(X) /\ y \in X /\ q = Append(p, y)
        BY <2>2
    <2> HIDE DEF p, y
    <2>4. ToSet(q) = ToSet(p) \cup {y}
        <3>1. ToSet(Append(p, y)) = ToSet(p) \cup {y}
            BY <2>3, ToSetAppend
        <3> QED BY <2>3, <3>1
    <2>5. Ordered(p, Rising) /\ \A z \in ToSet(p) : z < y
        BY <2>3, RisingAppend
    <2>6. Ordered(r, Rising) /\ \A z \in ToSet(r) : z < x
        BY RisingAppend
    <2>7. x \in Int /\ y \in Int /\ ToSet(p) \subseteq Int /\ ToSet(r) \subseteq Int
        BY <2>3, ToSetElements
    <2>8. x = y
        <3>1. x <= y
            <4>1. x \in ToSet(p) \/ x = y
                BY <2>1, <2>4
            <4> QED BY <2>5, <2>7, <4>1
        <3>2. y <= x
            <4>1. y \in ToSet(r) \/ x = y
                BY <2>1, <2>4
            <4> QED BY <2>6, <2>7, <4>1
        <3> QED BY <2>7, <3>1, <3>2
    <2>9. ToSet(r) = ToSet(p)
        <3>1. x \notin ToSet(r) /\ x \notin ToSet(p)
            BY <2>5, <2>6, <2>8
        <3>2. ASSUME NEW z PROVE z \in ToSet(r) <=> z \in ToSet(p)
            BY <2>1, <2>4, <2>8, <3>1
        <3> QED BY <3>2
    <2>10. r = p
        BY <1>2, <2>3, <2>5, <2>6, <2>9
    <2> QED BY <2>3, <2>8, <2>10
<1>3. Seq(X) \subseteq T
    <2> HIDE DEF T
    <2> QED BY <1>1, <1>2, SeqInduction
<1> QED BY <1>3

-----------------------------------------------------------------------------
(* What joined sequences are made of.                                      *)

(* f is what is joined of each beginning of ss.                            *)
Joins(f, ss) == f[1] = ss[1] /\ \A n \in 2..Len(ss) : f[n] = f[n - 1] \o ss[n]

(* FlattenSeq(ss) is computed from the front.                              *)
LEMMA FlattenByRecursion ==
    ASSUME NEW X, NEW ss \in Seq(Seq(X)), Len(ss) # 0
    PROVE  \E f \in [1..Len(ss) -> Seq(X)] : Joins(f, ss) /\ FlattenSeq(ss) = f[Len(ss)]
<1> DEFINE N    == Len(ss)
           step == [p \in (1 + 1..N) \X Seq(X) |-> p[2] \o ss[p[1]]]
           F(f) == [i \in 1..N |-> IF i = 1 THEN ss[i] ELSE f[i - 1] \o ss[i]]
           f    == CHOOSE g : g = F(g)
<1>1. N \in Nat /\ N \in Int /\ 1 \in Int /\ 1 <= N
    OBVIOUS
<1>2. \A i \in 1..N : ss[i] \in Seq(X)
    OBVIOUS
<1>3. step \in [(1 + 1..N) \X Seq(X) -> Seq(X)] /\ ss[1] \in Seq(X)
    <2>1. \A p \in (1 + 1..N) \X Seq(X) : p[1] \in 1..N /\ p[2] \in Seq(X)
        BY <1>1
    <2> HIDE DEF N
    <2> QED BY <1>1, <1>2, <2>1
<1>4. PICK g \in [1..N -> Seq(X)] : Recursion(g, 1, N, ss[1], step)
    <2> HIDE DEF N, step
    <2> QED BY <1>1, <1>3, RecursionExists
<1>5. ASSUME NEW i \in 2..N PROVE g[i] = g[i - 1] \o ss[i]
    <2>1. i \in 1 + 1..N /\ i - 1 \in 1..N
        BY <1>1
    <2>2. g[i] = step[<<i, g[i - 1]>>] /\ <<i, g[i - 1]>> \in (1 + 1..N) \X Seq(X)
        <3> HIDE DEF N, step
        <3> QED BY <1>4, <2>1 DEF Recursion
    <2> HIDE DEF N
    <2> QED BY <2>2
<1>6. g[1] = ss[1]
    BY <1>4 DEF Recursion
<1>7. g = F(g)
    <2>1. ASSUME NEW i \in 1..N PROVE g[i] = F(g)[i]
        <3>1. i = 1 \/ i \in 2..N
            BY <1>1
        <3>2. F(g)[i] = IF i = 1 THEN ss[i] ELSE g[i - 1] \o ss[i]
            OBVIOUS
        <3> HIDE DEF F, N
        <3> QED BY <1>5, <1>6, <3>1, <3>2
    <2>2. F(g) = [i \in 1..N |-> F(g)[i]]
        OBVIOUS
    <2>3. g = [i \in 1..N |-> g[i]]
        <3> HIDE DEF N
        <3> QED BY <1>4
    <2> HIDE DEF F, N
    <2> QED BY <2>1, <2>2, <2>3
<1>8. f = F(f)
    <2> HIDE DEF F
    <2> QED BY <1>7
<1>9. f[1] = ss[1]
    <2>1. 1 \in 1..N
        BY <1>1
    <2>2. f[1] = F(f)[1]
        <3> HIDE DEF F, f
        <3> QED BY <1>8
    <2> HIDE DEF f
    <2> QED BY <2>1, <2>2
<1>10. ASSUME NEW i \in 2..N PROVE f[i] = f[i - 1] \o ss[i]
    <2>1. i \in 1..N /\ i # 1
        BY <1>1
    <2>2. f[i] = F(f)[i]
        <3> HIDE DEF F, f
        <3> QED BY <1>8
    <2> HIDE DEF f
    <2> QED BY <2>1, <2>2
<1>11. f = [i \in 1..N |-> f[i]]
    <2>1. F(f) = [i \in 1..N |-> F(f)[i]]
        OBVIOUS
    <2> HIDE DEF F, f
    <2> QED BY <1>8, <2>1
<1>12. \A i \in 1..N : f[i] = g[i]
    <2> DEFINE S == {i \in 1..N : f[i] = g[i]}
    <2>1. 1 \in S
        BY <1>1, <1>6, <1>9
    <2>2. ASSUME NEW i \in 1..N - 1, i \in S PROVE i + 1 \in S
        <3>1. i + 1 \in 2..N /\ (i + 1) - 1 = i /\ i + 1 \in 1..N
            BY <1>1
        <3>2. f[i + 1] = f[i] \o ss[i + 1] /\ g[i + 1] = g[i] \o ss[i + 1]
            <4> DEFINE j == i + 1
            <4>1. j \in 2..N /\ j - 1 = i
                BY <3>1
            <4> HIDE DEF j, f, N
            <4>2. f[j] = f[i] \o ss[j] /\ g[j] = g[i] \o ss[j]
                BY <1>5, <1>10, <4>1
            <4> QED BY <4>2 DEF j
        <3> HIDE DEF f, N
        <3> QED BY <2>2, <3>1, <3>2
    <2>3. 1..N \subseteq S
        <3> HIDE DEF S, N, f
        <3> QED BY <1>1, <2>1, <2>2, IntervalInduction
    <2> QED BY <2>3
<1>13. FlattenSeq(ss) = f[N]
    BY DEF FlattenSeq
<1> HIDE DEF f, N
<1>14. f \in [1..N -> Seq(X)]
    BY <1>4, <1>11, <1>12
<1>15. Joins(f, ss)
    BY <1>9, <1>10 DEF Joins, N
<1> QED BY <1>13, <1>14, <1>15 DEF N

(* One part more at the end.                                               *)
LEMMA FlattenOfAppend ==
    ASSUME NEW X, NEW ss \in Seq(Seq(X)), NEW s \in Seq(X)
    PROVE  FlattenSeq(Append(ss, s)) = FlattenSeq(ss) \o s
<1> DEFINE N == Len(ss)
           tt == Append(ss, s)
<1>1. /\ N \in Nat /\ N \in Int /\ 1 \in Int
      /\ tt \in Seq(Seq(X)) /\ Len(tt) = N + 1 /\ Len(tt) # 0
      /\ \A i \in 1..N : tt[i] = ss[i]
      /\ tt[N + 1] = s
    <2>1. ss \in Seq(Seq(X)) /\ s \in Seq(X)
        OBVIOUS
    <2> DEFINE Y == Seq(X)
    <2> HIDE DEF Y
    <2>2. ss \in Seq(Y) /\ s \in Y
        BY <2>1 DEF Y
    <2>3. /\ N \in Nat /\ N \in Int /\ 1 \in Int
          /\ tt \in Seq(Y) /\ Len(tt) = N + 1 /\ Len(tt) # 0
          /\ \A i \in 1..N : tt[i] = ss[i]
          /\ tt[N + 1] = s
        BY <2>2
    <2> QED BY <2>3 DEF Y
<1> HIDE DEF tt
<1>2. PICK g \in [1..Len(tt) -> Seq(X)] : Joins(g, tt) /\ FlattenSeq(tt) = g[Len(tt)]
    BY <1>1, FlattenByRecursion
<1>3. CASE N = 0
    <2>1. ss = <<>> /\ FlattenSeq(ss) = ss
        BY <1>3 DEF FlattenSeq
    <2>2. FlattenSeq(tt) = s
        BY <1>1, <1>2, <1>3 DEF Joins
    <2>3. <<>> \o s = s
        OBVIOUS
    <2> QED BY <2>1, <2>2, <2>3 DEF tt
<1>4. CASE N # 0
    <2>1. PICK f \in [1..N -> Seq(X)] : Joins(f, ss) /\ FlattenSeq(ss) = f[N]
        BY <1>4, FlattenByRecursion
    <2> DEFINE T == {i \in 1..N : f[i] = g[i]}
    <2>2. 1 \in T
        <3>1. 1 \in 1..N
            BY <1>1, <1>4
        <3> QED BY <1>1, <1>2, <2>1, <3>1 DEF Joins
    <2>3. ASSUME NEW i \in 1..N - 1, i \in T PROVE i + 1 \in T
        <3> DEFINE j == i + 1
        <3>1. j \in 2..N /\ j \in 1..N /\ j \in 2..N + 1 /\ j - 1 = i
            BY <1>1
        <3> HIDE DEF j
        <3>2. f[j] = f[i] \o ss[j] /\ g[j] = g[i] \o tt[j]
            BY <1>1, <1>2, <2>1, <3>1 DEF Joins
        <3>3. j \in T
            BY <1>1, <2>3, <3>1, <3>2
        <3> QED BY <3>3 DEF j
    <2>4. 1..N \subseteq T
        <3> HIDE DEF T, N
        <3> QED BY <1>1, <2>2, <2>3, IntervalInduction
    <2>5. N \in 1..N /\ N + 1 \in 2..N + 1 /\ (N + 1) - 1 = N
        BY <1>1, <1>4
    <2>6. f[N] = g[N]
        BY <2>4, <2>5
    <2>7. g[N + 1] = g[N] \o s
        BY <1>1, <1>2, <2>5 DEF Joins
    <2> QED BY <1>1, <1>2, <2>1, <2>6, <2>7 DEF tt
<1> QED BY <1>3, <1>4

(* No part.                                                                *)
LEMMA FlattenOfNone == FlattenSeq(<<>>) = <<>>
BY DEF FlattenSeq

(* What is joined is a sequence of the elements of the parts.              *)
LEMMA FlattenElements ==
    ASSUME NEW X, NEW ss \in Seq(Seq(X))
    PROVE  /\ FlattenSeq(ss) \in Seq(X)
           /\ ToSet(FlattenSeq(ss)) = UNION {ToSet(ss[i]) : i \in 1..Len(ss)}
<1> DEFINE Y == Seq(X)
           T == {r \in Seq(Y) : /\ FlattenSeq(r) \in Seq(X)
                                /\ ToSet(FlattenSeq(r)) = UNION {ToSet(r[i]) : i \in 1..Len(r)}}
<1>1. <<>> \in T
    <2>1. ToSet(<<>>) = {} /\ <<>> \in Seq(X) /\ <<>> \in Seq(Y)
        BY DEF ToSet
    <2>2. UNION {ToSet(<<>>[i]) : i \in 1..Len(<<>>)} = {}
        <3>1. \A i : i \notin 1..Len(<<>>)
            OBVIOUS
        <3> QED BY <3>1
    <2> QED BY <2>1, <2>2, FlattenOfNone
<1>2. ASSUME NEW r \in Seq(Y), r \in T, NEW x \in Y PROVE Append(r, x) \in T
    <2>1. FlattenSeq(Append(r, x)) = FlattenSeq(r) \o x
        BY FlattenOfAppend
    <2>2. FlattenSeq(r) \in Seq(X) /\ x \in Seq(X)
        BY <1>2
    <2>3. FlattenSeq(r) \o x \in Seq(X) /\ ToSet(FlattenSeq(r) \o x) = ToSet(FlattenSeq(r)) \cup ToSet(x)
        BY <2>2, ToSetConcat
    <2> HIDE DEF Y
    <2>4. /\ Append(r, x) \in Seq(Y) /\ Len(Append(r, x)) = Len(r) + 1 /\ Len(r) \in Nat
          /\ \A i \in 1..Len(r) : Append(r, x)[i] = r[i]
          /\ Append(r, x)[Len(r) + 1] = x
          /\ \A i : i \in 1..Len(r) + 1 <=> i \in 1..Len(r) \/ i = Len(r) + 1
        OBVIOUS
    <2> DEFINE q == Append(r, x)
    <2>5. q[Len(r) + 1] = x /\ Len(q) = Len(r) + 1 /\ \A i \in 1..Len(r) : q[i] = r[i]
        BY <2>4
    <2> HIDE DEF q
    <2>6. UNION {ToSet(q[i]) : i \in 1..Len(q)} = (UNION {ToSet(r[i]) : i \in 1..Len(r)}) \cup ToSet(x)
        BY <2>4, <2>5
    <2> QED BY <1>2, <2>1, <2>3, <2>4, <2>6 DEF q
<1>3. Seq(Y) \subseteq T
    <2> HIDE DEF T, Y
    <2> QED BY <1>1, <1>2, SeqInduction
<1> QED BY <1>3

(* One part alone is what it is.                                           *)
LEMMA FlattenOfOne == \A t : FlattenSeq(<<t>>) = t
<1> SUFFICES ASSUME NEW t PROVE FlattenSeq(<<t>>) = t
    OBVIOUS
<1> DEFINE ss == <<t>>
           F(u) == [i \in 1..Len(ss) |-> IF i = 1 THEN ss[i] ELSE u[i - 1] \o ss[i]]
           f == CHOOSE u : u = F(u)
           one == [i \in 1..1 |-> t]
<1>1. Len(ss) = 1 /\ 1 \in 1..1 /\ (\A i \in 1..1 : i = 1) /\ ss[1] = t
    OBVIOUS
<1>2. \A u : F(u) = one
    <2> HIDE DEF ss
    <2> QED BY <1>1
<1>3. f = F(f)
    <2> HIDE DEF F, one
    <2> QED BY <1>2
<1>4. f[1] = t
    <2> HIDE DEF f, F
    <2> QED BY <1>1, <1>2, <1>3
<1>5. FlattenSeq(ss) = f[Len(ss)]
    <2> HIDE DEF ss
    <2> QED BY <1>1 DEF FlattenSeq
<1> HIDE DEF f
<1> QED BY <1>1, <1>4, <1>5

(* Joined one by one, the elements of a sequence are it again.             *)
LEMMA FlattenOfSingles ==
    ASSUME NEW X, NEW p \in Seq(X)
    PROVE  FlattenSeq([i \in 1..Len(p) |-> <<p[i]>>]) = p
<1> DEFINE One(r) == [i \in 1..Len(r) |-> <<r[i]>>]
           T == {r \in Seq(X) : FlattenSeq(One(r)) = r}
<1>1. <<>> \in T
    <2>1. One(<<>>) = <<>>
        OBVIOUS
    <2> HIDE DEF One
    <2> QED BY <2>1, FlattenOfNone
<1>2. ASSUME NEW r \in Seq(X), r \in T, NEW x \in X PROVE Append(r, x) \in T
    <2> DEFINE q == Append(r, x)
               n == Len(r)
    <2>1. /\ n \in Nat /\ q \in Seq(X) /\ Len(q) = n + 1 /\ q[n + 1] = x
          /\ \A i \in 1..n : q[i] = r[i] /\ r[i] \in X
          /\ \A i \in 1..n + 1 : q[i] \in X
        OBVIOUS
    <2>2. <<x>> \in Seq(X) /\ r \o <<x>> = q
        OBVIOUS
    <2>3. One(r) = [i \in 1..n |-> <<r[i]>>] /\ One(q) = [i \in 1..n + 1 |-> <<q[i]>>]
        BY <2>1
    <2> HIDE DEF n, q, One
    <2> DEFINE a == One(r)
               b == One(q)
    <2>4. /\ a \in Seq(Seq(X)) /\ Len(a) = n /\ b \in Seq(Seq(X)) /\ Len(b) = n + 1
          /\ \A i \in 1..n : a[i] = <<r[i]>>
          /\ \A i \in 1..n + 1 : b[i] = <<q[i]>>
        <3>1. /\ \A i \in 1..n : <<r[i]>> \in Seq(X)
              /\ \A i \in 1..n + 1 : <<q[i]>> \in Seq(X)
            BY <2>1
        <3>2. [i \in 1..n |-> <<r[i]>>] \in Seq(Seq(X)) /\ [i \in 1..n + 1 |-> <<q[i]>>] \in Seq(Seq(X))
            BY <3>1, <2>1
        <3> QED BY <3>2, <2>1, <2>3
    <2> HIDE DEF a, b
    <2>5. b = Append(a, <<x>>)
        <3> DEFINE y == <<x>>
                   c == Append(a, y)
        <3>1. y \in Seq(X)
            BY <2>2
        <3> HIDE DEF y
        <3>2. c \in Seq(Seq(X)) /\ Len(c) = n + 1 /\ c[n + 1] = y /\ \A i \in 1..n : c[i] = a[i]
            BY <3>1, <2>1, <2>4
        <3> HIDE DEF c
        <3>3. \A i \in 1..n + 1 : i \in 1..n \/ i = n + 1
            BY <2>1
        <3>4. \A i \in 1..n : b[i] = c[i]
            <4>1. \A i \in 1..n : i \in 1..n + 1
                BY <2>1
            <4> QED BY <4>1, <3>2, <2>1, <2>4
        <3>5. n + 1 \in 1..n + 1 /\ b[n + 1] = c[n + 1]
            BY <3>2, <2>1, <2>4 DEF y
        <3>6. \A i \in 1..Len(b) : b[i] = c[i]
            BY <3>3, <3>4, <3>5, <2>4
        <3>7. b = c
            BY <3>2, <3>6, <2>4, SameSequence
        <3> QED BY <3>7 DEF c, y
    <2>6. FlattenSeq(b) = FlattenSeq(a) \o <<x>>
        BY <2>2, <2>4, <2>5, FlattenOfAppend
    <2>7. FlattenSeq(a) = r
        BY <1>2 DEF a
    <2>8. FlattenSeq(One(q)) = q
        BY <2>2, <2>6, <2>7 DEF b
    <2> QED BY <2>1, <2>8 DEF q
<1>3. Seq(X) \subseteq T
    <2> HIDE DEF T
    <2> QED BY <1>1, <1>2, SeqInduction
<1>4. FlattenSeq(One(p)) = p
    <2> HIDE DEF One
    <2> QED BY <1>3
<1> QED BY <1>4

(* It is empty if and only if all its parts are.                           *)
LEMMA FlattenType ==
    ASSUME NEW X, NEW ss \in Seq(Seq(X))
    PROVE  /\ FlattenSeq(ss) \in Seq(X)
           /\ FlattenSeq(ss) = <<>> <=> \A i \in 1..Len(ss) : ss[i] = <<>>
           /\ Len(ss) = 1 => FlattenSeq(ss) = ss[1]
<1> DEFINE all == FlattenSeq(ss)
<1>1. all \in Seq(X) /\ ToSet(all) = UNION {ToSet(ss[i]) : i \in 1..Len(ss)}
    BY FlattenElements
<1>2. \A s \in Seq(X) : s = <<>> <=> ToSet(s) = {}
    <2> TAKE s \in Seq(X)
    <2>1. CASE Len(s) = 0
        BY <2>1 DEF ToSet
    <2>2. CASE Len(s) # 0
        <3>1. 1 \in 1..Len(s)
            BY <2>2
        <3> QED BY <2>2, <3>1, ToSetElements
    <2> QED BY <2>1, <2>2
<1>3. \A i \in 1..Len(ss) : ss[i] \in Seq(X)
    OBVIOUS
<1>4. Len(ss) = 1 => all = ss[1]
    <2>1. SUFFICES ASSUME Len(ss) = 1 PROVE all = ss[1]
        OBVIOUS
    <2>2. ss = <<ss[1]>>
        BY <2>1
    <2>3. FlattenSeq(<<ss[1]>>) = ss[1]
        BY FlattenOfOne
    <2> QED BY <2>2, <2>3
<1> HIDE DEF all
<1>5. all = <<>> <=> \A i \in 1..Len(ss) : ss[i] = <<>>
    <2>1. all = <<>> <=> ToSet(all) = {}
        BY <1>1, <1>2
    <2>2. ToSet(all) = {} <=> \A i \in 1..Len(ss) : ToSet(ss[i]) = {}
        <3>1. ToSet(all) = {} => \A i \in 1..Len(ss) : ToSet(ss[i]) = {}
            BY <1>1
        <3>2. ASSUME \A i \in 1..Len(ss) : ToSet(ss[i]) = {}, NEW x \in ToSet(all) PROVE FALSE
            <4>1. PICK i \in 1..Len(ss) : x \in ToSet(ss[i])
                BY <1>1
            <4> QED BY <3>2, <4>1
        <3> QED BY <3>1, <3>2
    <2> QED BY <1>2, <1>3, <2>1, <2>2
<1> QED BY <1>1, <1>4, <1>5 DEF all

(* A relation that holds in the parts and from each to the later ones holds*)
(* in the whole.                                                           *)
LEMMA FlattenOrdered ==
    ASSUME NEW X, NEW ss \in Seq(Seq(X)), NEW R,
           \A i \in 1..Len(ss) : Ordered(ss[i], R),
           \A i, j \in 1..Len(ss) : i < j => \A x \in ToSet(ss[i]), y \in ToSet(ss[j]) : <<x, y>> \in R
    PROVE  Ordered(FlattenSeq(ss), R)
<1> DEFINE Y == Seq(X)
           Fit(r) == /\ \A i \in 1..Len(r) : Ordered(r[i], R)
                     /\ \A i, j \in 1..Len(r) : i < j =>
                          \A x \in ToSet(r[i]), y \in ToSet(r[j]) : <<x, y>> \in R
           T == {r \in Seq(Y) : Fit(r) => Ordered(FlattenSeq(r), R)}
<1>1. <<>> \in T
    <2>1. <<>> \in Seq(Y)
        OBVIOUS
    <2> QED BY <2>1, FlattenOfNone DEF Ordered
<1>2. ASSUME NEW r \in Seq(Y), r \in T, NEW z \in Y PROVE Append(r, z) \in T
    <2>1. FlattenSeq(Append(r, z)) = FlattenSeq(r) \o z
        BY FlattenOfAppend
    <2>2. /\ FlattenSeq(r) \in Seq(X) /\ z \in Seq(X)
          /\ ToSet(FlattenSeq(r)) = UNION {ToSet(r[i]) : i \in 1..Len(r)}
        BY FlattenElements
    <2> HIDE DEF Y
    <2> DEFINE q == Append(r, z)
    <2>3. /\ q \in Seq(Y) /\ Len(q) = Len(r) + 1 /\ Len(r) \in Nat
          /\ \A i \in 1..Len(r) : q[i] = r[i]
          /\ q[Len(r) + 1] = z
          /\ \A i \in 1..Len(r) : i \in 1..Len(r) + 1 /\ i < Len(r) + 1
          /\ Len(r) + 1 \in 1..Len(r) + 1
        OBVIOUS
    <2> HIDE DEF q
    <2>4. ASSUME Fit(q) PROVE Ordered(FlattenSeq(q), R)
        <3>1. Fit(r)
            BY <2>3, <2>4
        <3>2. Ordered(FlattenSeq(r), R)
            BY <1>2, <3>1
        <3>3. Ordered(z, R)
            BY <2>3, <2>4
        <3>4. \A x \in ToSet(FlattenSeq(r)), y \in ToSet(z) : <<x, y>> \in R
            BY <2>2, <2>3, <2>4
        <3> HIDE DEF Fit
        <3>5. Ordered(FlattenSeq(r) \o z, R)
            BY <2>2, <3>2, <3>3, <3>4, OrderedConcat
        <3> QED BY <2>1, <3>5 DEF q
    <2> HIDE DEF Fit
    <2> QED BY <2>3, <2>4 DEF q
<1>3. Seq(Y) \subseteq T
    <2> HIDE DEF T, Y
    <2> QED BY <1>1, <1>2, SeqInduction
<1>4. Fit(ss)
    OBVIOUS
<1> QED BY <1>3, <1>4

(* A selection of the whole is that of its parts, one after the other.     *)
LEMMA ThoseOfFlatten ==
    ASSUME NEW X, NEW ss \in Seq(Seq(X)), NEW S
    PROVE  Those(FlattenSeq(ss), S) = FlattenSeq([i \in 1..Len(ss) |-> Those(ss[i], S)])
<1> DEFINE Y == Seq(X)
           Each(r) == [i \in 1..Len(r) |-> Those(r[i], S)]
           T == {r \in Seq(Y) : Those(FlattenSeq(r), S) = FlattenSeq(Each(r))}
<1>0. \A s \in Seq(X) : Those(s, S) \in Seq(X)
    <2> TAKE s \in Seq(X)
    <2>1. Those(s, S) \in Seq(X \cap S)
        BY ThoseElements
    <2> QED BY <2>1
<1>1. <<>> \in T
    <2>1. <<>> \in Seq(Y) /\ Each(<<>>) = <<>>
        OBVIOUS
    <2> QED BY <2>1, FlattenOfNone, ThoseOfNone
<1>2. ASSUME NEW r \in Seq(Y), r \in T, NEW z \in Y PROVE Append(r, z) \in T
    <2>1. FlattenSeq(Append(r, z)) = FlattenSeq(r) \o z
        BY FlattenOfAppend
    <2>2. FlattenSeq(r) \in Seq(X) /\ z \in Seq(X)
        BY FlattenElements
    <2>3. Those(FlattenSeq(r) \o z, S) = Those(FlattenSeq(r), S) \o Those(z, S)
        BY <2>2, ThoseOfConcat
    <2>4. Each(r) \in Seq(Y) /\ Those(z, S) \in Seq(X)
        <3>1. \A i \in 1..Len(r) : r[i] \in Seq(X) /\ Those(r[i], S) \in Y
            BY <1>0
        <3>2. Len(r) \in Nat
            OBVIOUS
        <3> HIDE DEF Y
        <3> QED BY <1>0, <3>1, <3>2 DEF Y
    <2>5. FlattenSeq(Append(Each(r), Those(z, S))) = FlattenSeq(Each(r)) \o Those(z, S)
        <3> HIDE DEF Each, T
        <3> QED BY <2>4, FlattenOfAppend
    <2> HIDE DEF Y
    <2> DEFINE q == Append(r, z)
    <2>6. /\ q \in Seq(Y) /\ Len(q) = Len(r) + 1 /\ Len(r) \in Nat
          /\ \A i \in 1..Len(r) : q[i] = r[i]
          /\ q[Len(r) + 1] = z
        OBVIOUS
    <2> HIDE DEF q
    <2>7. Each(q) = Append(Each(r), Those(z, S))
        <3> DEFINE e == Each(r)
                   t == Those(z, S)
                   a == Append(e, t)
        <3>1. e \in Seq(Y) /\ t \in Y /\ Len(e) = Len(r) /\ \A i \in 1..Len(r) : e[i] = Those(r[i], S)
            BY <2>4, <2>6 DEF Y
        <3>2. /\ a \in Seq(Y) /\ Len(a) = Len(r) + 1 /\ a[Len(r) + 1] = t
              /\ \A i \in 1..Len(r) : a[i] = Those(r[i], S)
            <4> HIDE DEF e, t
            <4> QED BY <2>6, <3>1
        <3>3. /\ DOMAIN Each(q) = 1..Len(r) + 1
              /\ \A i \in 1..Len(r) + 1 : Each(q)[i] = Those(q[i], S)
            BY <2>6
        <3>4. Each(q) = [i \in 1..Len(r) + 1 |-> Each(q)[i]]
            BY <2>6
        <3> HIDE DEF a, Each
        <3>5. a = [i \in 1..Len(r) + 1 |-> a[i]]
            BY <3>2
        <3>6. \A i \in 1..Len(r) + 1 : Each(q)[i] = a[i]
            BY <2>6, <3>2, <3>3 DEF t
        <3>7. Each(q) = a
            BY <3>4, <3>5, <3>6
        <3> QED BY <3>7 DEF a
    <2>8. Those(FlattenSeq(r), S) = FlattenSeq(Each(r))
        BY <1>2
    <2>9. Those(FlattenSeq(q), S) = FlattenSeq(Each(q))
        <3> HIDE DEF Each, T
        <3> QED BY <2>1, <2>3, <2>5, <2>7, <2>8 DEF q
    <2> QED BY <2>6, <2>9 DEF q
<1>3. Seq(Y) \subseteq T
    <2> HIDE DEF T, Y
    <2> QED BY <1>1, <1>2, SeqInduction
<1> QED BY <1>3

(* The length of the whole is told by the lengths of the parts.            *)
LEMMA FlattenLength ==
    ASSUME NEW X, NEW ss \in Seq(Seq(X)), NEW Z, NEW tt \in Seq(Seq(Z)), Len(ss) = Len(tt),
           \A i \in 1..Len(ss) : Len(ss[i]) = Len(tt[i])
    PROVE  Len(FlattenSeq(ss)) = Len(FlattenSeq(tt))
<1> DEFINE Y == Seq(X)
           W == Seq(Z)
           Same(r, u) == Len(r) = Len(u) /\ \A i \in 1..Len(r) : Len(r[i]) = Len(u[i])
           T == {r \in Seq(Y) : \A u \in Seq(W) : Same(r, u) => Len(FlattenSeq(r)) = Len(FlattenSeq(u))}
<1>1. <<>> \in T
    <2>1. \A u \in Seq(W) : Len(u) = 0 => u = <<>>
        OBVIOUS
    <2>2. <<>> \in Seq(Y) /\ Len(<<>>) = 0
        OBVIOUS
    <2> QED BY <2>1, <2>2
<1>2. ASSUME NEW r \in Seq(Y), r \in T, NEW z \in Y PROVE Append(r, z) \in T
    <2> DEFINE q == Append(r, z)
    <2>1. /\ q \in Seq(Y) /\ Len(q) = Len(r) + 1 /\ Len(r) \in Nat
          /\ \A i \in 1..Len(r) : q[i] = r[i]
          /\ q[Len(r) + 1] = z
          /\ \A i \in 1..Len(r) : i \in 1..Len(r) + 1
          /\ Len(r) + 1 \in 1..Len(r) + 1
        <3> HIDE DEF Y, T
        <3> QED OBVIOUS
    <2>2. FlattenSeq(q) = FlattenSeq(r) \o z /\ FlattenSeq(r) \in Seq(X) /\ z \in Seq(X)
        BY FlattenOfAppend, FlattenElements
    <2> HIDE DEF q
    <2>3. ASSUME NEW u \in Seq(W), Same(q, u) PROVE Len(FlattenSeq(q)) = Len(FlattenSeq(u))
        <3> DEFINE n == Len(r)
                   v == SubSeq(u, 1, n)
                   w == u[n + 1]
        <3>1. Len(u) = n + 1 /\ \A i \in 1..n + 1 : Len(q[i]) = Len(u[i])
            BY <2>1, <2>3
        <3>2. v \in Seq(W) /\ Len(v) = n /\ w \in W /\ u = Append(v, w) /\ \A i \in 1..n : v[i] = u[i]
            <4> HIDE DEF W, Y, T
            <4> QED BY <2>1, <3>1
        <3> HIDE DEF v, w
        <3>3. FlattenSeq(u) = FlattenSeq(v) \o w /\ FlattenSeq(v) \in Seq(Z) /\ w \in Seq(Z)
            BY <3>2, FlattenOfAppend, FlattenElements
        <3>4. Same(r, v)
            BY <2>1, <3>1, <3>2
        <3>5. Len(FlattenSeq(r)) = Len(FlattenSeq(v))
            BY <1>2, <3>2, <3>4
        <3>6. Len(z) = Len(w)
            BY <2>1, <3>1 DEF w
        <3>7. Len(FlattenSeq(r) \o z) = Len(FlattenSeq(r)) + Len(z)
            BY <2>2, ConcatElements
        <3>8. Len(FlattenSeq(v) \o w) = Len(FlattenSeq(v)) + Len(w)
            BY <3>3, ConcatElements
        <3> QED BY <2>2, <3>3, <3>5, <3>6, <3>7, <3>8
    <2> HIDE DEF Same
    <2> QED BY <2>1, <2>3 DEF q
<1>3. Seq(Y) \subseteq T
    <2> HIDE DEF T, Y
    <2> QED BY <1>1, <1>2, SeqInduction
<1>4. ss \in T /\ tt \in Seq(W)
    BY <1>3
<1> QED BY <1>4

-----------------------------------------------------------------------------
(* Selecting twice.                                                        *)
LEMMA ThoseOfThose ==
    ASSUME NEW X, NEW s \in Seq(X), NEW A, NEW B
    PROVE  Those(Those(s, A), B) = Those(s, A \cap B)
<1> DEFINE T == {r \in Seq(X) : Those(Those(r, A), B) = Those(r, A \cap B)}
<1>1. <<>> \in T
    BY ThoseOfNone
<1>2. ASSUME NEW r \in Seq(X), r \in T, NEW x \in X PROVE Append(r, x) \in T
    <2> DEFINE t == Those(r, A)
    <2>1. t \in Seq(X)
        <3>1. t \in Seq(X \cap A)
            BY ThoseElements
        <3> HIDE DEF t
        <3> QED BY <3>1
    <2>2. Those(Append(r, x), A) = IF x \in A THEN Append(t, x) ELSE t
        BY ThoseOfAppend
    <2>3. Those(Append(r, x), A \cap B) =
            IF x \in A \cap B THEN Append(Those(r, A \cap B), x) ELSE Those(r, A \cap B)
        BY ThoseOfAppend
    <2> HIDE DEF t
    <2>4. Those(Append(t, x), B) = IF x \in B THEN Append(Those(t, B), x) ELSE Those(t, B)
        BY <2>1, ThoseOfAppend
    <2>5. Those(t, B) = Those(r, A \cap B) /\ Append(r, x) \in Seq(X)
        BY <1>2 DEF t
    <2>6. Those(Those(Append(r, x), A), B) = Those(Append(r, x), A \cap B)
        <3>1. CASE x \in A /\ x \in B
            BY <2>2, <2>3, <2>4, <2>5, <3>1
        <3>3. CASE x \in A /\ x \notin B
            BY <2>2, <2>3, <2>4, <2>5, <3>3
        <3>2. CASE x \notin A
            BY <2>2, <2>3, <2>5, <3>2
        <3> QED BY <3>1, <3>2, <3>3
    <2> QED BY <2>5, <2>6
<1>3. Seq(X) \subseteq T
    <2> HIDE DEF T
    <2> QED BY <1>1, <1>2, SeqInduction
<1> QED BY <1>3

(* Each element under a function.                                          *)
Image(s, g) == [i \in 1..Len(s) |-> g[s[i]]]

(* A selection of images is as long as the one of what they are images of. *)
LEMMA ThoseOfImage ==
    ASSUME NEW X, NEW s \in Seq(X), NEW Z, NEW g \in [X -> Z], NEW S
    PROVE  /\ Image(s, g) \in Seq(Z)
           /\ Len(Those(Image(s, g), S)) = Len(Those(s, {x \in X : g[x] \in S}))
<1> DEFINE A == {x \in X : g[x] \in S}
           T == {r \in Seq(X) : Len(Those(Image(r, g), S)) = Len(Those(r, A))}
<1>0. ASSUME NEW r \in Seq(X)
      PROVE  Image(r, g) \in Seq(Z) /\ Len(Image(r, g)) = Len(r)
    <2>1. Len(r) \in Nat /\ \A i \in 1..Len(r) : g[r[i]] \in Z
        OBVIOUS
    <2> QED BY <2>1 DEF Image
<1>1. <<>> \in T
    <2>1. Image(<<>>, g) = <<>> /\ <<>> \in Seq(X)
        BY DEF Image
    <2> QED BY <2>1, ThoseOfNone
<1>2. ASSUME NEW r \in Seq(X), r \in T, NEW x \in X PROVE Append(r, x) \in T
    <2> DEFINE m == Image(r, g)
    <2>1. m \in Seq(Z) /\ Len(m) = Len(r) /\ g[x] \in Z /\ Append(r, x) \in Seq(X)
        BY <1>0
    <2>2. Image(Append(r, x), g) = Append(m, g[x])
        <3>1. Image(Append(r, x), g) = [i \in 1..Len(r) + 1 |-> g[Append(r, x)[i]]]
            BY DEF Image
        <3>2. Append(m, g[x]) = [i \in 1..Len(r) + 1 |-> IF i = Len(r) + 1 THEN g[x] ELSE m[i]]
            BY <2>1
        <3>3. ASSUME NEW i \in 1..Len(r) + 1
              PROVE  g[Append(r, x)[i]] = IF i = Len(r) + 1 THEN g[x] ELSE m[i]
            BY DEF Image
        <3> QED BY <3>1, <3>2, <3>3
    <2>3. Those(Append(m, g[x]), S) = IF g[x] \in S THEN Append(Those(m, S), g[x]) ELSE Those(m, S)
        <3> HIDE DEF m
        <3> QED BY <2>1, ThoseOfAppend
    <2>4. Those(Append(r, x), A) = IF x \in A THEN Append(Those(r, A), x) ELSE Those(r, A)
        BY ThoseOfAppend
    <2>5. Those(m, S) \in Seq(Z) /\ Those(r, A) \in Seq(X)
        <3>1. Those(m, S) \in Seq(Z \cap S) /\ Those(r, A) \in Seq(X \cap A)
            <4> HIDE DEF m, A
            <4> QED BY <2>1, ThoseElements
        <3> HIDE DEF m, A
        <3> QED BY <3>1
    <2>6. Len(Those(m, S)) = Len(Those(r, A))
        BY <1>2
    <2>7. g[x] \in S <=> x \in A
        OBVIOUS
    <2> HIDE DEF m, A
    <2>8. Len(Those(Append(m, g[x]), S)) = Len(Those(Append(r, x), A))
        BY <2>3, <2>4, <2>5, <2>6, <2>7
    <2> QED BY <2>1, <2>2, <2>8 DEF A
<1>3. Seq(X) \subseteq T
    <2> HIDE DEF T
    <2> QED BY <1>1, <1>2, SeqInduction
<1> QED BY <1>0, <1>3

-----------------------------------------------------------------------------
(* Parts of sequences.                                                     *)

(* The elements of a part.                                                 *)
LEMMA PartElements ==
    ASSUME NEW X, NEW s \in Seq(X), NEW a \in Nat, NEW b \in Nat, 1 <= a, a <= b + 1, b <= Len(s)
    PROVE  /\ SubSeq(s, a, b) \in Seq(X) /\ Len(SubSeq(s, a, b)) = b + 1 - a
           /\ \A i \in 1..b + 1 - a : SubSeq(s, a, b)[i] = s[a + i - 1]
           /\ \A x \in ToSet(SubSeq(s, a, b)) : \E k \in a..b : x = s[k]
<1> DEFINE p == SubSeq(s, a, b)
<1>1. p = [i \in 1..b + 1 - a |-> s[a + i - 1]]
    OBVIOUS
<1>2. \A i \in 1..b + 1 - a : a + i - 1 \in a..b /\ a + i - 1 \in 1..Len(s)
    OBVIOUS
<1>3. \A i \in 1..b + 1 - a : s[a + i - 1] \in X
    BY <1>2
<1>4. b + 1 - a \in Nat
    OBVIOUS
<1> HIDE DEF p
<1>5. p \in Seq(X) /\ Len(p) = b + 1 - a /\ \A i \in 1..b + 1 - a : p[i] = s[a + i - 1]
    BY <1>1, <1>3, <1>4
<1>6. ASSUME NEW x \in ToSet(p) PROVE \E k \in a..b : x = s[k]
    <2>1. PICK i \in 1..b + 1 - a : x = p[i]
        BY <1>5, <1>6, ToSetElements
    <2> QED BY <1>2, <1>5, <2>1
<1> QED BY <1>5, <1>6 DEF p

(* Two parts, the second behind the first, are one.                        *)
LEMMA PartsJoin ==
    ASSUME NEW X, NEW s \in Seq(X), NEW a \in Nat, NEW b \in Nat, NEW c \in Nat,
           1 <= a, a <= b + 1, b <= c, c <= Len(s)
    PROVE  SubSeq(s, a, b) \o SubSeq(s, b + 1, c) = SubSeq(s, a, c)
<1> DEFINE p == SubSeq(s, a, b)
           q == SubSeq(s, b + 1, c)
           r == SubSeq(s, a, c)
<1>1. /\ p \in Seq(X) /\ Len(p) = b + 1 - a
      /\ \A i \in 1..b + 1 - a : p[i] = s[a + i - 1]
    BY PartElements
<1>2. /\ q \in Seq(X) /\ Len(q) = c - b
      /\ \A i \in 1..c - b : q[i] = s[b + i]
    <2>1. b + 1 \in Nat /\ 1 <= b + 1 /\ b + 1 <= c + 1 /\ c + 1 - (b + 1) = c - b
        OBVIOUS
    <2>2. /\ q \in Seq(X) /\ Len(q) = c + 1 - (b + 1)
          /\ \A i \in 1..c + 1 - (b + 1) : q[i] = s[(b + 1) + i - 1]
        BY <2>1, PartElements
    <2>3. \A i \in 1..c - b : (b + 1) + i - 1 = b + i
        OBVIOUS
    <2> HIDE DEF q
    <2> QED BY <2>1, <2>2, <2>3
<1>3. /\ r \in Seq(X) /\ Len(r) = c + 1 - a
      /\ \A i \in 1..c + 1 - a : r[i] = s[a + i - 1]
    <2>1. a <= c + 1
        OBVIOUS
    <2> QED BY <2>1, PartElements
<1> HIDE DEF p, q, r
<1>4. /\ p \o q \in Seq(X) /\ Len(p \o q) = c + 1 - a
      /\ \A i \in 1..c + 1 - a : (p \o q)[i] = IF i <= b + 1 - a THEN p[i] ELSE q[i - (b + 1 - a)]
    <2>1. /\ p \o q \in Seq(X) /\ Len(p \o q) = Len(p) + Len(q)
          /\ \A i \in 1..Len(p) + Len(q) : (p \o q)[i] = IF i <= Len(p) THEN p[i] ELSE q[i - Len(p)]
        <3>1. p \in Seq(X) /\ q \in Seq(X)
            BY <1>1, <1>2
        <3> QED BY <3>1, ConcatElements
    <2>2. Len(p) + Len(q) = c + 1 - a
        BY <1>1, <1>2
    <2> QED BY <1>1, <2>1, <2>2
<1>5. \A i \in 1..c + 1 - a : (p \o q)[i] = r[i]
    <2> TAKE i \in 1..c + 1 - a
    <2>1. CASE i <= b + 1 - a
        <3>1. i \in 1..b + 1 - a
            BY <2>1
        <3> QED BY <1>1, <1>3, <1>4, <2>1, <3>1
    <2>2. CASE ~(i <= b + 1 - a)
        <3>1. i - (b + 1 - a) \in 1..c - b /\ b + (i - (b + 1 - a)) = a + i - 1
            BY <2>2
        <3>2. q[i - (b + 1 - a)] = s[a + i - 1]
            BY <1>2, <3>1
        <3> QED BY <1>3, <1>4, <2>2, <3>2
    <2> QED BY <2>1, <2>2
<1>6. p \o q = r
    BY <1>3, <1>4, <1>5, SameSequence
<1> QED BY <1>6 DEF p, q, r

(* t is s with m put behind its first k elements.                          *)
PutBehind(t, s, m, k) ==
    /\ Len(t) = Len(s) + 1
    /\ \A j \in 1..k : t[j] = s[j]
    /\ t[k + 1] = m
    /\ \A j \in k + 2..Len(s) + 1 : t[j] = s[j - 1]
    /\ ToSet(t) = ToSet(s) \cup {m}

LEMMA InsertedElements ==
    ASSUME NEW X, NEW s \in Seq(X), NEW m \in X, NEW k \in 0..Len(s)
    PROVE  InsertAt(s, k + 1, m) \in Seq(X) /\ PutBehind(InsertAt(s, k + 1, m), s, m, k)
<1> DEFINE a == SubSeq(s, 1, k)
           b == SubSeq(s, k + 1, Len(s))
           N == Len(s)
           q == a \o <<m>>
           t == q \o b
<1>0. N \in Nat /\ k \in 0..N /\ k \in Nat /\ k <= N /\ (k + 1) - 1 = k /\ 1 \in Nat /\ 1 <= k + 1
    OBVIOUS
<1>1. a \in Seq(X) /\ Len(a) = k /\ \A j \in 1..k : a[j] = s[j]
    BY <1>0
<1>2. b \in Seq(X) /\ Len(b) = N - k /\ \A j \in 1..N - k : b[j] = s[k + j]
    BY <1>0, SuffixElements
<1>3. <<m>> \in Seq(X) /\ Len(<<m>>) = 1 /\ <<m>>[1] = m
    OBVIOUS
<1>4. InsertAt(s, k + 1, m) = t
    BY <1>0 DEF InsertAt
<1>4a. N = Len(s)
    OBVIOUS
<1>5. s = a \o b
    <2>1. SubSeq(s, 1, k) \o SubSeq(s, k + 1, N) = SubSeq(s, 1, N)
        <3> HIDE DEF N
        <3>1. N <= Len(s)
            BY <1>4a, <1>0
        <3> QED BY <1>0, <3>1, PartsJoin
    <2>2. SubSeq(s, 1, N) = s
        OBVIOUS
    <2> QED BY <2>1, <2>2
<1> HIDE DEF a, b, N, q
<1>6. q \in Seq(X) /\ Len(q) = k + 1 /\ q[k + 1] = m /\ \A j \in 1..k : q[j] = s[j]
    BY <1>0, <1>1, <1>3, ConcatElements DEF q
<1>7. ToSet(q) = ToSet(a) \cup {m}
    <2> DEFINE one == <<m>>
    <2>1. ToSet(one) = {m}
        BY <1>3 DEF ToSet
    <2>2. one \in Seq(X) /\ q = a \o one
        BY <1>3 DEF q
    <2> HIDE DEF one
    <2> QED BY <2>1, <2>2, <1>1, ToSetConcat
<1>8. /\ t \in Seq(X) /\ Len(t) = N + 1
      /\ \A j \in 1..k + 1 : t[j] = q[j]
      /\ \A j \in 1..N - k : t[k + 1 + j] = b[j]
    <2>1. /\ t \in Seq(X) /\ Len(t) = Len(q) + Len(b)
          /\ \A j \in 1..Len(q) : t[j] = q[j]
          /\ \A j \in 1..Len(b) : t[Len(q) + j] = b[j]
        <3>1. q \in Seq(X) /\ b \in Seq(X)
            BY <1>2, <1>6
        <3>2. t \in Seq(X) /\ Len(t) = Len(q) + Len(b)
            BY <3>1, ConcatElements
        <3>3. \A j \in 1..Len(q) : t[j] = q[j]
            BY <3>1, ConcatElements
        <3>4. \A j \in 1..Len(b) : t[Len(q) + j] = b[j]
            BY <3>1, ConcatElements
        <3> QED BY <3>2, <3>3, <3>4
    <2> HIDE DEF t
    <2>2. Len(q) + Len(b) = N + 1
        BY <1>0, <1>2, <1>6
    <2> QED BY <2>1, <2>2, <1>2, <1>6
<1>9. ToSet(t) = ToSet(s) \cup {m}
    <2>1. ToSet(t) = ToSet(q) \cup ToSet(b)
        BY <1>2, <1>6, ToSetConcat
    <2>2. ToSet(s) = ToSet(a) \cup ToSet(b)
        BY <1>1, <1>2, <1>5, ToSetConcat
    <2> QED BY <2>1, <2>2, <1>7
<1> HIDE DEF t
<1>10. \A j \in 1..k : t[j] = s[j]
    BY <1>0, <1>6, <1>8
<1>11. t[k + 1] = m
    BY <1>0, <1>6, <1>8
<1>12. ASSUME NEW j \in k + 2..N + 1 PROVE t[j] = s[j - 1]
    <2>1. j - k - 1 \in 1..N - k /\ k + 1 + (j - k - 1) = j /\ k + (j - k - 1) = j - 1
        BY <1>0
    <2> QED BY <2>1, <1>2, <1>8
<1> QED BY <1>4, <1>8, <1>9, <1>10, <1>11, <1>12, <1>4a DEF PutBehind

(* A part of one element.                                                  *)
LEMMA PartOfOne ==
    ASSUME NEW X, NEW s \in Seq(X), NEW a \in 1..Len(s)
    PROVE  SubSeq(s, a, a) = <<s[a]>>
<1>1. /\ SubSeq(s, a, a) \in Seq(X) /\ Len(SubSeq(s, a, a)) = 1
      /\ SubSeq(s, a, a)[1] = s[a]
    <2>1. a \in Nat /\ 1 <= a /\ a <= a + 1 /\ a <= Len(s) /\ a + 1 - a = 1 /\ a + 1 - 1 = a
        OBVIOUS
    <2> DEFINE p == SubSeq(s, a, a)
    <2>2. /\ p \in Seq(X) /\ Len(p) = a + 1 - a
          /\ \A i \in 1..a + 1 - a : p[i] = s[a + i - 1]
        BY <2>1, PartElements
    <2> HIDE DEF p
    <2>3. p \in Seq(X) /\ Len(p) = 1 /\ p[1] = s[a]
        BY <2>1, <2>2
    <2> QED BY <2>3 DEF p
<1> DEFINE p == SubSeq(s, a, a)
           q == <<s[a]>>
<1>2. q \in Seq(X) /\ Len(q) = 1 /\ q[1] = s[a]
    OBVIOUS
<1>3. p \in Seq(X) /\ Len(p) = 1 /\ p[1] = s[a]
    BY <1>1
<1> HIDE DEF p, q
<1>4. \A i \in 1..1 : p[i] = q[i]
    BY <1>2, <1>3
<1>5. p = q
    BY <1>2, <1>3, <1>4, SameSequence
<1> QED BY <1>5 DEF p, q

(* Joined sequences are taken apart again.                                 *)
LEMMA JoinedParts ==
    ASSUME NEW X, NEW p \in Seq(X), NEW t \in Seq(X)
    PROVE  SubSeq(p \o t, 1, Len(p)) = p /\ SubSeq(p \o t, Len(p) + 1, Len(p \o t)) = t
<1> DEFINE u == p \o t
<1>1. /\ u \in Seq(X) /\ Len(u) = Len(p) + Len(t) /\ Len(p) \in Nat /\ Len(t) \in Nat
      /\ \A i \in 1..Len(p) : u[i] = p[i]
      /\ \A i \in 1..Len(t) : u[Len(p) + i] = t[i]
    BY ConcatElements
<1> HIDE DEF u
<1>2. SubSeq(u, 1, Len(p)) = p
    <2> DEFINE a == SubSeq(u, 1, Len(p))
    <2>1. a \in Seq(X) /\ Len(a) = Len(p) /\ \A i \in 1..Len(p) : a[i] = u[i]
        BY <1>1
    <2> HIDE DEF a
    <2>2. a = p
        BY <1>1, <2>1, SameSequence
    <2> QED BY <2>2 DEF a
<1>3. SubSeq(u, Len(p) + 1, Len(u)) = t
    <2> DEFINE a == SubSeq(u, Len(p) + 1, Len(u))
    <2>0. Len(p) \in 0..Len(u)
        BY <1>1
    <2>1. a \in Seq(X) /\ Len(a) = Len(u) - Len(p) /\ \A i \in 1..Len(u) - Len(p) : a[i] = u[Len(p) + i]
        BY <1>1, <2>0, SuffixElements
    <2> HIDE DEF a
    <2>2. Len(a) = Len(t) /\ \A i \in 1..Len(a) : a[i] = t[i]
        BY <1>1, <2>1
    <2>3. a = t
        BY <2>1, <2>2, SameSequence
    <2> QED BY <2>3 DEF a
<1> QED BY <1>2, <1>3 DEF u

(* What joined sequences are before and behind a place in the first.       *)
LEMMA CutConcat ==
    ASSUME NEW X, NEW p \in Seq(X), NEW t \in Seq(X), NEW m \in 0..Len(p)
    PROVE  /\ SubSeq(p \o t, 1, m) = SubSeq(p, 1, m)
           /\ SubSeq(p \o t, m + 1, Len(p \o t)) = SubSeq(p, m + 1, Len(p)) \o t
<1> DEFINE w == p \o t
           r == SubSeq(p, m + 1, Len(p))
           v == SubSeq(w, m + 1, Len(w))
<1>1. /\ w \in Seq(X) /\ Len(w) = Len(p) + Len(t) /\ Len(p) \in Nat /\ Len(t) \in Nat
      /\ \A i \in 1..Len(p) + Len(t) : w[i] = IF i <= Len(p) THEN p[i] ELSE t[i - Len(p)]
    BY ConcatElements
<1> HIDE DEF w
<1>2. m \in Nat /\ m <= Len(p) /\ m \in 0..Len(w)
    BY <1>1
<1>3. SubSeq(w, 1, m) = SubSeq(p, 1, m)
    <2>1. /\ SubSeq(w, 1, m) \in Seq(X) /\ Len(SubSeq(w, 1, m)) = m
          /\ \A i \in 1..m : SubSeq(w, 1, m)[i] = w[i]
        BY <1>1, <1>2
    <2>2. /\ SubSeq(p, 1, m) \in Seq(X) /\ Len(SubSeq(p, 1, m)) = m
          /\ \A i \in 1..m : SubSeq(p, 1, m)[i] = p[i]
        BY <1>1, <1>2
    <2>3. \A i \in 1..m : w[i] = p[i]
        BY <1>1, <1>2
    <2> QED BY <2>1, <2>2, <2>3, SameSequence
<1>4. r \in Seq(X) /\ Len(r) = Len(p) - m /\ \A i \in 1..Len(p) - m : r[i] = p[m + i]
    BY SuffixElements
<1>5. v \in Seq(X) /\ Len(v) = Len(w) - m /\ \A i \in 1..Len(w) - m : v[i] = w[m + i]
    BY <1>1, <1>2, SuffixElements
<1> HIDE DEF r, v
<1>6. /\ r \o t \in Seq(X) /\ Len(r \o t) = Len(r) + Len(t)
      /\ \A i \in 1..Len(r) + Len(t) : (r \o t)[i] = IF i <= Len(r) THEN r[i] ELSE t[i - Len(r)]
    <2>1. r \in Seq(X) /\ t \in Seq(X)
        BY <1>4
    <2> QED BY <2>1, ConcatElements
<1>7. ASSUME NEW i \in 1..Len(v) PROVE v[i] = (r \o t)[i]
    <2>1. i \in 1..Len(w) - m /\ m + i \in 1..Len(p) + Len(t) /\ i \in 1..Len(r) + Len(t)
        BY <1>1, <1>2, <1>4, <1>5
    <2>2. v[i] = w[m + i]
        BY <1>5, <2>1
    <2>3. CASE i <= Len(r)
        <3>1. i \in 1..Len(p) - m /\ m + i <= Len(p)
            BY <1>1, <1>2, <1>4, <2>3
        <3> QED BY <1>1, <1>4, <1>6, <2>1, <2>2, <2>3, <3>1
    <2>4. CASE ~(i <= Len(r))
        <3>1. ~(m + i <= Len(p)) /\ (m + i) - Len(p) = i - Len(r)
            BY <1>1, <1>2, <1>4, <2>4
        <3> QED BY <1>1, <1>6, <2>1, <2>2, <2>4, <3>1
    <2> QED BY <2>3, <2>4
<1>8. Len(v) = Len(r \o t)
    BY <1>1, <1>2, <1>4, <1>5, <1>6
<1>9. v = r \o t
    BY <1>5, <1>6, <1>7, <1>8, SameSequence
<1> QED BY <1>3, <1>9 DEF r, v, w

(* Selections by sets that agree on what there is are the same.            *)
LEMMA ThoseOfSame ==
    ASSUME NEW X, NEW s \in Seq(X), NEW A, NEW B, \A x \in ToSet(s) : x \in A <=> x \in B
    PROVE  Those(s, A) = Those(s, B)
<1> DEFINE T == {r \in Seq(X) : (\A x \in ToSet(r) : x \in A <=> x \in B) => Those(r, A) = Those(r, B)}
<1>1. <<>> \in T
    BY ThoseOfNone
<1>2. ASSUME NEW r \in Seq(X), r \in T, NEW x \in X PROVE Append(r, x) \in T
    <2> SUFFICES ASSUME \A y \in ToSet(Append(r, x)) : y \in A <=> y \in B
                 PROVE  Those(Append(r, x), A) = Those(Append(r, x), B)
        OBVIOUS
    <2>1. ToSet(Append(r, x)) = ToSet(r) \cup {x}
        BY ToSetAppend
    <2>2. Those(r, A) = Those(r, B) /\ (x \in A <=> x \in B)
        BY <1>2, <2>1
    <2>3. Those(Append(r, x), A) = IF x \in A THEN Append(Those(r, A), x) ELSE Those(r, A)
        BY ThoseOfAppend
    <2>4. Those(Append(r, x), B) = IF x \in B THEN Append(Those(r, B), x) ELSE Those(r, B)
        BY ThoseOfAppend
    <2> QED BY <2>2, <2>3, <2>4
<1>3. Seq(X) \subseteq T
    <2> HIDE DEF T
    <2> QED BY <1>1, <1>2, SeqInduction
<1> QED BY <1>3

(* The first of what is to come, moved to what is done.                    *)
LEMMA NextIsDone ==
    ASSUME NEW X, NEW done \in Seq(X), NEW rest \in Seq(X), rest # <<>>
    PROVE  /\ Head(rest) \in X /\ Tail(rest) \in Seq(X) /\ Append(done, Head(rest)) \in Seq(X)
           /\ Append(done, Head(rest)) \o Tail(rest) = done \o rest
OBVIOUS
=============================================================================
