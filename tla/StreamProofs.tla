---------------------------- MODULE StreamProofs ----------------------------
(***************************************************************************)
(* What holds of every streamed response, for all numbers of lines, sizes  *)
(* of chunks and limits: the client gets the whole stream, as long as      *)
(* there are mappings to restore.  And, at the end, the types of all that  *)
(* the detection run drives.                                               *)
(***************************************************************************)
EXTENDS MCDetection, DetectionProofs, NerProofs, ImageProofs

(* The content lines of the provider's first k lines.                      *)
Content(k) == {n \in 1..k : script[n] = "content"}
LineNumbers == Lines \cup {0}
ByLine     == {p \in Items \X Items : p[1].line < p[2].line}
(* What the client has or will get at the next flush.                      *)
Handed     == Shown \o buffer

Chunk(n)         == [i \in 1..n |-> received + i]
Pieces(n)        == carry \o Chunk(n)
NewLines(n, cut) == IF ~midchar /\ ~cut THEN CompleteLines(Pieces(n)) ELSE <<>>

PiecesOK ==
    /\ carry \in Seq(1..received)
    /\ \A i \in 1..Len(carry) : ~IsTail(carry[i])
    /\ midchar => garbled
    /\ ~garbled => carry = IF IsTail(received) THEN <<>> ELSE <<received>>
ContentOK ==
    /\ Ordered(Handed, Rising)
    /\ ToSet(Handed) \subseteq Content(received \div 2)
    /\ ~garbled => ToSet(Handed) = Content(received \div 2)
FlushOK ==
    /\ done \/ ended => buffer = <<>>
    /\ ri_done /\ ~done /\ ~ended => seen_done /\ buffer = <<>>
    /\ seen_done => \E n \in 1..received \div 2 : script[n] = "[DONE]"
ScanOK ==
    HasScanner /\ ~truncated => ToSet(Shown) \subseteq scanned /\ ToSet(buffer) \subseteq ToSet(text)
RawOK ==
    ~garbled => \A x \in ToSet(out) : x.kind # "garbage"
StreamInv ==
    TypeOK /\ PiecesOK /\ ContentOK /\ FlushOK /\ ScanOK /\ RawOK /\ DoneIsPassedOn

-----------------------------------------------------------------------------
(* Selecting by kind, and the content of items.                            *)
LEMMA ItemFields ==
    /\ \A x \in Items : /\ x.line \in LineNumbers /\ x.line \in Int
                        /\ x.kind \in Kinds \cup {"garbage", "warning"}
                        /\ x = Item(x.line, x.kind)
    /\ \A n \in LineNumbers, k \in Kinds \cup {"garbage", "warning"} :
          /\ Item(n, k) \in Items /\ Item(n, k).line = n /\ Item(n, k).kind = k
BY DEF Items, Lines, Item, LineNumbers

(* What OfKinds selects.                                                   *)
LEMMA OfKindsElements ==
    ASSUME NEW items \in Seq(Items), NEW K
    PROVE  /\ OfKinds(items, K) \in Seq(Items)
           /\ ToSet(OfKinds(items, K)) = {x \in ToSet(items) : x.kind \in K}
<1> DEFINE S == [line : LineNumbers, kind : K]
           t == Those(items, S)
<1>1. t \in Seq(Items \cap S) /\ ToSet(t) = ToSet(items) \cap S
    BY ThoseElements
<1>2. t \in Seq(Items)
    <2> HIDE DEF t, S
    <2> QED BY <1>1
<1>3. ToSet(items) \subseteq Items
    BY ToSetElements
<1>4. \A x \in Items : x \in S <=> x.kind \in K
    BY DEF Items, LineNumbers
<1>5. OfKinds(items, K) = t
    BY DEF OfKinds, LineNumbers
<1> HIDE DEF t, S
<1> QED BY <1>1, <1>2, <1>3, <1>4, <1>5

(* What ContentOf reads off a sequence of items.                           *)
LEMMA ContentOfElements ==
    ASSUME NEW items \in Seq(Items)
    PROVE  /\ ContentOf(items) \in Seq(LineNumbers)
           /\ ToSet(ContentOf(items)) = {x.line : x \in {y \in ToSet(items) : y.kind = "content"}}
           /\ Len(ContentOf(items)) = Len(OfKinds(items, {"content"}))
           /\ \A k \in 1..Len(ContentOf(items)) :
                ContentOf(items)[k] = OfKinds(items, {"content"})[k].line
<1> DEFINE c == OfKinds(items, {"content"})
           t == [k \in 1..Len(c) |-> c[k].line]
<1>1. c \in Seq(Items) /\ ToSet(c) = {x \in ToSet(items) : x.kind \in {"content"}}
    BY OfKindsElements
<1>2. ContentOf(items) = t
    BY DEF ContentOf
<1> HIDE DEF c
<1>3. \A k \in 1..Len(c) : c[k] \in Items /\ c[k].line \in LineNumbers
    <2>1. \A k \in 1..Len(c) : c[k] \in Items
        BY <1>1
    <2> QED BY <2>1, ItemFields
<1>4. t \in Seq(LineNumbers) /\ Len(t) = Len(c) /\ \A k \in 1..Len(c) : t[k] = c[k].line
    BY <1>1, <1>3
<1>5. ToSet(t) = {x.line : x \in ToSet(c)}
    <2>1. ToSet(t) = {t[k] : k \in 1..Len(c)}
        BY <1>4 DEF ToSet
    <2>2. ToSet(c) = {c[k] : k \in 1..Len(c)}
        BY <1>1 DEF ToSet
    <2> QED BY <1>4, <2>1, <2>2
<1> HIDE DEF t
<1> QED BY <1>1, <1>2, <1>4, <1>5 DEF c

(* The content of joined outputs.                                          *)
LEMMA ContentOfConcat ==
    ASSUME NEW a \in Seq(Items), NEW b \in Seq(Items)
    PROVE  ContentOf(a \o b) = ContentOf(a) \o ContentOf(b)
<1>1. OfKinds(a \o b, {"content"}) = OfKinds(a, {"content"}) \o OfKinds(b, {"content"})
    BY ThoseOfConcat DEF OfKinds
<1>2. OfKinds(a, {"content"}) \in Seq(Items) /\ OfKinds(b, {"content"}) \in Seq(Items)
    BY OfKindsElements
<1>3. \A s \in Seq(Items), t \in Seq(Items) :
         [k \in 1..Len(s \o t) |-> (s \o t)[k].line]
         = [k \in 1..Len(s) |-> s[k].line] \o [k \in 1..Len(t) |-> t[k].line]
    <2> TAKE s \in Seq(Items), t \in Seq(Items)
    <2> DEFINE u == [k \in 1..Len(s) |-> s[k].line]
               v == [k \in 1..Len(t) |-> t[k].line]
               w == [k \in 1..Len(s \o t) |-> (s \o t)[k].line]
    <2>1. u \in Seq(LineNumbers) /\ Len(u) = Len(s)
        <3>1. \A k \in 1..Len(s) : s[k] \in Items
            OBVIOUS
        <3>2. \A k \in 1..Len(s) : s[k].line \in LineNumbers
            BY <3>1, ItemFields
        <3> QED BY <3>2
    <2>2. v \in Seq(LineNumbers) /\ Len(v) = Len(t)
        <3>1. \A k \in 1..Len(t) : t[k] \in Items
            OBVIOUS
        <3>2. \A k \in 1..Len(t) : t[k].line \in LineNumbers
            BY <3>1, ItemFields
        <3> QED BY <3>2
    <2>3. /\ Len(s \o t) = Len(s) + Len(t) /\ Len(s) \in Nat /\ Len(t) \in Nat
          /\ \A k \in 1..Len(s) + Len(t) : (s \o t)[k] = IF k <= Len(s) THEN s[k] ELSE t[k - Len(s)]
        OBVIOUS
    <2>4. \A k \in 1..Len(s) + Len(t) : w[k] = IF k <= Len(s) THEN u[k] ELSE v[k - Len(s)]
        <3> SUFFICES ASSUME NEW k \in 1..Len(s) + Len(t)
                     PROVE  w[k] = IF k <= Len(s) THEN u[k] ELSE v[k - Len(s)]
            OBVIOUS
        <3>1. w[k] = (s \o t)[k].line
            BY <2>3
        <3>2. CASE k <= Len(s)
            <4>1. k \in 1..Len(s) /\ u[k] = s[k].line
                BY <2>3, <3>2
            <4> HIDE DEF u, v, w
            <4> QED BY <2>3, <3>1, <3>2, <4>1
        <3>3. CASE ~(k <= Len(s))
            <4>1. k - Len(s) \in 1..Len(t)
                BY <2>3, <3>3
            <4>2. v[k - Len(s)] = t[k - Len(s)].line
                BY <4>1
            <4> HIDE DEF u, v, w
            <4> QED BY <2>3, <3>1, <3>3, <4>2
        <3> HIDE DEF u, v, w
        <3> QED BY <3>2, <3>3
    <2>5. w \in Seq(LineNumbers) /\ Len(w) = Len(s) + Len(t)
        <3>1. \A k \in 1..Len(s \o t) : (s \o t)[k] \in Items
            OBVIOUS
        <3>2. \A k \in 1..Len(s \o t) : (s \o t)[k].line \in LineNumbers
            BY <3>1, ItemFields
        <3> QED BY <2>3, <3>2
    <2> HIDE DEF u, v, w
    <2>6. /\ u \o v \in Seq(LineNumbers) /\ Len(u \o v) = Len(s) + Len(t)
          /\ \A k \in 1..Len(s) + Len(t) : (u \o v)[k] = IF k <= Len(s) THEN u[k] ELSE v[k - Len(s)]
        <3>1. u \in Seq(LineNumbers) /\ v \in Seq(LineNumbers)
            BY <2>1, <2>2
        <3>2. /\ u \o v \in Seq(LineNumbers) /\ Len(u \o v) = Len(u) + Len(v)
              /\ \A k \in 1..Len(u) + Len(v) : (u \o v)[k] = IF k <= Len(u) THEN u[k] ELSE v[k - Len(u)]
            BY <3>1
        <3> QED BY <2>1, <2>2, <3>2
    <2>7. w = u \o v
        BY <2>4, <2>5, <2>6, SameSequence
    <2> QED BY <2>7 DEF u, v, w
<1>4. \A items : ContentOf(items) =
        [k \in 1..Len(OfKinds(items, {"content"})) |-> OfKinds(items, {"content"})[k].line]
    BY DEF ContentOf
<1> DEFINE s == OfKinds(a, {"content"})
           t == OfKinds(b, {"content"})
<1>5. ContentOf(a \o b) = [k \in 1..Len(s \o t) |-> (s \o t)[k].line]
    BY <1>1, <1>4
<1>6. /\ ContentOf(a) = [k \in 1..Len(s) |-> s[k].line]
      /\ ContentOf(b) = [k \in 1..Len(t) |-> t[k].line]
    BY <1>4
<1>7. s \in Seq(Items) /\ t \in Seq(Items)
    BY <1>2
<1> HIDE DEF s, t
<1>8. [k \in 1..Len(s \o t) |-> (s \o t)[k].line]
      = [k \in 1..Len(s) |-> s[k].line] \o [k \in 1..Len(t) |-> t[k].line]
    BY <1>3, <1>7
<1> QED BY <1>5, <1>6, <1>8, Zenon

(* Items of other kinds have no content.                                   *)
LEMMA ContentOfNone ==
    ASSUME NEW items \in Seq(Items), \A x \in ToSet(items) : x.kind # "content"
    PROVE  ContentOf(items) = <<>>
<1>1. ToSet(ContentOf(items)) = {} /\ ContentOf(items) \in Seq(LineNumbers)
    BY ContentOfElements
<1>2. Len(ContentOf(items)) = 0
    <2> SUFFICES ASSUME Len(ContentOf(items)) # 0 PROVE FALSE
        OBVIOUS
    <2>1. 1 \in 1..Len(ContentOf(items))
        BY <1>1
    <2> QED BY <1>1, <2>1, ToSetElements
<1> QED BY <1>1, <1>2

(* Items in the order of the lines have their content in that order.       *)
LEMMA ContentOfOrdered ==
    ASSUME NEW items \in Seq(Items), Ordered(items, ByLine)
    PROVE  Ordered(ContentOf(items), Rising)
<1>1. Ordered(OfKinds(items, {"content"}), ByLine)
    BY ThoseOrdered DEF OfKinds
<1>2. /\ Len(ContentOf(items)) = Len(OfKinds(items, {"content"}))
      /\ \A k \in 1..Len(ContentOf(items)) :
            ContentOf(items)[k] = OfKinds(items, {"content"})[k].line
    BY ContentOfElements
<1>3. \A x, y : <<x, y>> \in ByLine => <<x.line, y.line>> \in Rising
    <2> SUFFICES ASSUME NEW x \in Items, NEW y \in Items, x.line < y.line
                 PROVE  <<x.line, y.line>> \in Rising
        BY DEF ByLine
    <2>1. x.line \in Int /\ y.line \in Int
        BY DEF Items, Lines
    <2> QED BY <2>1 DEF Rising
<1> QED BY <1>1, <1>2, <1>3 DEF Ordered

(* A flush sends the text it holds and nothing else.                       *)
LEMMA FlushedContent ==
    ASSUME NEW b \in Seq(Lines)
    PROVE  /\ Flushed(b) \in Seq(Items) /\ ContentOf(Flushed(b)) = b
           /\ \A x \in ToSet(Flushed(b)) : x.kind = "content"
<1> DEFINE f == Flushed(b)
<1>1. /\ f \in Seq(Items) /\ Len(f) = Len(b)
      /\ \A k \in 1..Len(b) : f[k].kind = "content" /\ f[k].line = b[k]
      /\ \A k \in 1..Len(b) : f[k] \in [line : LineNumbers, kind : {"content"}]
    <2>1. \A k \in 1..Len(b) : b[k] \in Lines
        OBVIOUS
    <2>2. \A k \in 1..Len(b) : Item(b[k], "content") \in Items
        BY <2>1, ItemFields DEF Kinds, LineNumbers
    <2> QED BY <2>1, <2>2 DEF Flushed, Item, LineNumbers
<1> HIDE DEF f
<1>2. ToSet(f) \subseteq [line : LineNumbers, kind : {"content"}]
    BY <1>1, ToSetElements
<1>3. OfKinds(f, {"content"}) = f
    BY <1>1, <1>2, ThoseOfAll DEF OfKinds, LineNumbers
<1>4. ContentOf(f) = [k \in 1..Len(b) |-> f[k].line]
    BY <1>1, <1>3 DEF ContentOf
<1>5. b = [k \in 1..Len(b) |-> b[k]]
    OBVIOUS
<1>6. ContentOf(f) = b
    BY <1>1, <1>4, <1>5
<1>7. \A x \in ToSet(f) : x.kind = "content"
    BY <1>2
<1> QED BY <1>1, <1>6, <1>7 DEF f

-----------------------------------------------------------------------------
(* Lines of pieces.                                                        *)
LEMMA UptoOrdered ==
    ASSUME NEW n \in Nat
    PROVE  /\ Upto(n) \in Seq(1..n) /\ Len(Upto(n)) = n /\ ToSet(Upto(n)) = 1..n
           /\ Ordered(Upto(n), Rising)
<1>1. Upto(n) \in Seq(1..n) /\ Len(Upto(n)) = n /\ \A i \in 1..n : Upto(n)[i] = i
    BY DEF Upto
<1>2. ToSet(Upto(n)) = 1..n
    BY DEF Upto, ToSet
<1>3. Ordered(Upto(n), Rising)
    BY <1>1 DEF Ordered, Rising
<1> QED BY <1>1, <1>2, <1>3

(* The line that ends with a piece between the r-th and the q-th.          *)
LEMMA LineBetween ==
    ASSUME NEW r \in Nat, NEW q \in Nat, NEW p \in r + 1..q, p % 2 = 0
    PROVE  (p + 1) \div 2 \in r \div 2 + 1..q \div 2
<1>1. PICK k \in Int : p = 2 * k
    OBVIOUS
<1>2. (p + 1) \div 2 = k
    BY <1>1
<1>3. r \div 2 < k /\ k <= q \div 2
    BY <1>1
<1> QED BY <1>2, <1>3

(* Two line endings, one behind the other, end different lines.            *)
LEMMA TailsOfLines ==
    ASSUME NEW p \in Nat, NEW q \in Nat, p % 2 = 0, q % 2 = 0, p < q
    PROVE  (p + 1) \div 2 < (q + 1) \div 2
OBVIOUS

(* What a line ending completes is a line of the script.                   *)
LEMMA LineType ==
    ASSUME TypeOK, NEW s \in Seq(1..2 * Len(script)), NEW i \in Tails(s)
    PROVE  /\ LineEndingAt(s, i) \in Items
           /\ LineEndingAt(s, i).line = LineOf(s[i])
           /\ LineOf(s[i]) \in 1..Len(script)
           /\ LineEndingAt(s, i).kind \in {script[LineOf(s[i])], "garbage"}
<1>1. i \in 1..Len(s) /\ s[i] % 2 = 0 /\ s[i] \in 1..2 * Len(script)
    BY DEF Tails, IsTail
<1>2. script \in Seq(Kinds) /\ Len(script) \in 0..MaxLines
    BY StreamAssumption DEF TypeOK, BoundedSeq, SeqOf
<1>3. LineOf(s[i]) \in 1..Len(script)
    BY <1>1, <1>2 DEF LineOf
<1>4. script[LineOf(s[i])] \in Kinds /\ LineOf(s[i]) \in Lines
    BY <1>2, <1>3, StreamAssumption DEF Lines
<1> QED BY <1>3, <1>4 DEF LineEndingAt, Item, Items

(* The complete lines of the pieces received, in their order.              *)
LEMMA CompleteLinesElements ==
    ASSUME TypeOK, NEW s \in Seq(1..2 * Len(script))
    PROVE  /\ CompleteLines(s) \in Seq(Items)
           /\ ToSet(CompleteLines(s)) = {LineEndingAt(s, i) : i \in Tails(s)}
           /\ (\A i, j \in Tails(s) : i < j => s[i] < s[j]) => Ordered(CompleteLines(s), ByLine)
<1> DEFINE N == Len(s)
           t == Those(Upto(N), Tails(s))
           c == [k \in 1..Len(t) |-> LineEndingAt(s, t[k])]
<1>1. N \in Nat /\ Tails(s) \subseteq 1..N
    BY DEF Tails
<1>2. t \in Seq((1..N) \cap Tails(s)) /\ ToSet(t) = Tails(s) /\ Ordered(t, Rising)
    <2>1. /\ Upto(N) \in Seq(1..N) /\ ToSet(Upto(N)) = 1..N /\ Ordered(Upto(N), Rising)
        BY <1>1, UptoOrdered
    <2>2. t \in Seq((1..N) \cap Tails(s)) /\ ToSet(t) = ToSet(Upto(N)) \cap Tails(s)
        BY <2>1, ThoseElements
    <2>3. Ordered(t, Rising)
        BY <2>1, ThoseOrdered
    <2> QED BY <1>1, <2>1, <2>2, <2>3
<1>3. CompleteLines(s) = c
    BY DEF CompleteLines
<1> HIDE DEF t, N
<1>4. \A k \in 1..Len(t) : t[k] \in Tails(s)
    BY <1>2
<1>5. \A k \in 1..Len(t) : LineEndingAt(s, t[k]) \in Items
    BY <1>4, LineType
<1>6. c \in Seq(Items) /\ Len(c) = Len(t) /\ \A k \in 1..Len(t) : c[k] = LineEndingAt(s, t[k])
    BY <1>2, <1>5
<1>7. ToSet(c) = {LineEndingAt(s, i) : i \in Tails(s)}
    <2>1. ToSet(c) = {c[k] : k \in 1..Len(t)}
        BY <1>6 DEF ToSet
    <2>2. Tails(s) = {t[k] : k \in 1..Len(t)}
        BY <1>2 DEF ToSet
    <2> HIDE DEF c
    <2> QED BY <1>6, <2>1, <2>2
<1> HIDE DEF c
<1>8. ASSUME \A i, j \in Tails(s) : i < j => s[i] < s[j]
      PROVE  Ordered(c, ByLine)
    <2> SUFFICES ASSUME NEW a \in 1..Len(t), NEW b \in 1..Len(t), a < b
                 PROVE  <<c[a], c[b]>> \in ByLine
        BY <1>6 DEF Ordered
    <2>1. t[a] \in Tails(s) /\ t[b] \in Tails(s) /\ t[a] < t[b]
        BY <1>2, <1>4 DEF Ordered, Rising
    <2>2. s[t[a]] < s[t[b]] /\ s[t[a]] % 2 = 0 /\ s[t[b]] % 2 = 0
          /\ s[t[a]] \in Nat /\ s[t[b]] \in Nat
        <3>1. \A i \in Tails(s) : s[i] % 2 = 0 /\ s[i] \in 1..2 * Len(script)
            BY DEF Tails, IsTail
        <3>2. \A x \in 1..2 * Len(script) : x \in Nat
            OBVIOUS
        <3> QED BY <1>8, <2>1, <3>1, <3>2
    <2>3. LineOf(s[t[a]]) < LineOf(s[t[b]])
        BY <2>2, TailsOfLines DEF LineOf
    <2>4. c[a].line = LineOf(s[t[a]]) /\ c[b].line = LineOf(s[t[b]]) /\ c[a] \in Items /\ c[b] \in Items
        BY <1>5, <1>6, <2>1, LineType
    <2> QED BY <2>3, <2>4 DEF ByLine
<1> QED BY <1>3, <1>6, <1>7, <1>8

-----------------------------------------------------------------------------
(* A chunk after the pieces that were carried over.                        *)
LEMMA TrailingPieces ==
    ASSUME NEW X, NEW s \in Seq(X)
    PROVE  \E m \in 0..Len(s) :
             /\ Trailing(s) = SubSeq(s, m + 1, Len(s))
             /\ m = 0 \/ IsTail(s[m])
             /\ \A i \in m + 1..Len(s) : ~IsTail(s[i])
<1> DEFINE I == {i \in 1..Len(s) : IsTail(s[i])}
           m == IF I # {} THEN Max(I) ELSE 0
<1>1. Trailing(s) = SubSeq(s, m + 1, Len(s))
    BY DEF Trailing, SelectLastInSeq
<1>2. CASE I = {}
    <2>1. m = 0 /\ 0 \in 0..Len(s) /\ \A i \in 0 + 1..Len(s) : ~IsTail(s[i])
        BY <1>2
    <2> HIDE DEF m
    <2> QED BY <1>1, <2>1
<1>3. CASE I # {}
    <2>1. \E x \in I : \A y \in I : y <= x
        <3>1. I \in SUBSET (1..Len(s)) /\ Len(s) \in Nat
            OBVIOUS
        <3> HIDE DEF I
        <3> QED BY <1>3, <3>1, GreatestExists
    <2>2. m = Max(I)
        BY <1>3
    <2>3. m \in I /\ \A y \in I : y <= m
        <3>1. \A x, y \in I : y <= x => x >= y
            OBVIOUS
        <3> HIDE DEF I, m
        <3> QED BY <2>1, <2>2, <3>1 DEF Max
    <2> HIDE DEF m
    <2>4. m \in 0..Len(s) /\ IsTail(s[m])
        BY <2>3
    <2>5. ASSUME NEW i \in m + 1..Len(s) PROVE ~IsTail(s[i])
        <3>1. i \in 1..Len(s) /\ ~(i <= m)
            BY <2>4
        <3> QED BY <2>3, <3>1
    <2> QED BY <1>1, <2>4, <2>5
<1> QED BY <1>2, <1>3

(* The carried pieces and the n that arrive, side by side.                 *)
LEMMA JoinedPieces ==
    ASSUME PiecesOK, received \in Nat, NEW n \in Nat
    PROVE  /\ Pieces(n) \in Seq(1..received + n) /\ Len(Pieces(n)) = Len(carry) + n /\ Len(carry) \in Nat
           /\ \A i \in 1..Len(carry) : Pieces(n)[i] = carry[i] /\ ~IsTail(Pieces(n)[i])
           /\ \A i \in Len(carry) + 1..Len(carry) + n : Pieces(n)[i] = received + i - Len(carry)
           /\ \A i \in Tails(Pieces(n)) :
                /\ i \in Len(carry) + 1..Len(carry) + n /\ Pieces(n)[i] = received + i - Len(carry)
                /\ Pieces(n)[i] % 2 = 0 /\ Pieces(n)[i] \in received + 1..received + n
           /\ \A i, j \in Tails(Pieces(n)) : i < j => Pieces(n)[i] < Pieces(n)[j]
<1> DEFINE C == Chunk(n)
           P == 1..received + n
<1>1. C \in Seq(P) /\ Len(C) = n /\ \A i \in 1..n : C[i] = received + i
    BY DEF Chunk
<1>2. carry \in Seq(1..received) /\ Len(carry) \in Nat /\ \A i \in 1..Len(carry) : ~IsTail(carry[i])
    BY DEF PiecesOK
<1>3. carry \in Seq(P)
    <2>1. \A i \in 1..Len(carry) : carry[i] \in 1..received + n
        <3>1. \A i \in 1..Len(carry) : carry[i] \in 1..received
            BY <1>2, ElementsOf
        <3> QED BY <3>1
    <2> QED BY <1>2, <2>1, ElementsOf
<1> HIDE DEF C, P
<1>4. /\ Pieces(n) \in Seq(P) /\ Len(Pieces(n)) = Len(carry) + n
      /\ \A i \in 1..Len(carry) : Pieces(n)[i] = carry[i]
      /\ \A i \in Len(carry) + 1..Len(carry) + n : Pieces(n)[i] = C[i - Len(carry)]
    <2>1. Pieces(n) = carry \o C
        BY DEF C, Pieces
    <2>2. /\ Pieces(n) \in Seq(P) /\ Len(Pieces(n)) = Len(carry) + Len(C)
          /\ \A i \in 1..Len(carry) + Len(C) :
                Pieces(n)[i] = IF i <= Len(carry) THEN carry[i] ELSE C[i - Len(carry)]
        <3>1. /\ carry \o C \in Seq(P) /\ Len(carry \o C) = Len(carry) + Len(C)
              /\ \A i \in 1..Len(carry) + Len(C) :
                    (carry \o C)[i] = IF i <= Len(carry) THEN carry[i] ELSE C[i - Len(carry)]
            BY <1>1, <1>3
        <3> QED BY <2>1, <3>1
    <2> QED BY <1>1, <1>2, <2>2
<1>5. ASSUME NEW i \in Len(carry) + 1..Len(carry) + n PROVE Pieces(n)[i] = received + i - Len(carry)
    <2>1. i - Len(carry) \in 1..n
        BY <1>2
    <2> QED BY <1>1, <1>2, <1>4, <2>1
<1>6. ASSUME NEW i \in Tails(Pieces(n))
      PROVE  /\ i \in Len(carry) + 1..Len(carry) + n /\ Pieces(n)[i] = received + i - Len(carry)
             /\ Pieces(n)[i] % 2 = 0 /\ Pieces(n)[i] \in received + 1..received + n
    <2>1. i \in 1..Len(carry) + n /\ IsTail(Pieces(n)[i])
        BY <1>4 DEF Tails
    <2>2. i \in Len(carry) + 1..Len(carry) + n
        BY <1>2, <1>4, <2>1
    <2>3. Pieces(n)[i] = received + i - Len(carry) /\ Pieces(n)[i] % 2 = 0
        BY <1>5, <2>1, <2>2 DEF IsTail
    <2> QED BY <1>2, <2>2, <2>3
<1>7. ASSUME NEW i \in Tails(Pieces(n)), NEW j \in Tails(Pieces(n)), i < j PROVE Pieces(n)[i] < Pieces(n)[j]
    <2>1. /\ Pieces(n)[i] = received + i - Len(carry) /\ Pieces(n)[j] = received + j - Len(carry)
          /\ i \in Len(carry) + 1..Len(carry) + n /\ j \in Len(carry) + 1..Len(carry) + n
        BY <1>6
    <2> QED BY <1>2, <1>7, <2>1
<1> QED BY <1>2, <1>4, <1>5, <1>6, <1>7 DEF P

(* The lines of a chunk: new ones of the provider or ruins, in their order.*)
LEMMA NewLinesElements ==
    ASSUME TypeOK, PiecesOK, NEW n \in Nat, received + n <= 2 * Len(script), NEW cut \in BOOLEAN
    PROVE  /\ NewLines(n, cut) \in Seq(Items) /\ Ordered(NewLines(n, cut), ByLine)
           /\ \A x \in ToSet(NewLines(n, cut)) :
                /\ x.line \in received \div 2 + 1..(received + n) \div 2
                /\ x.line \in 1..Len(script)
                /\ x.kind \in {script[x.line], "garbage"}
<1>1. CASE ~midchar /\ ~cut
    <2> DEFINE s == Pieces(n)
               r == received
    <2>1. r \in Nat /\ Len(script) \in Nat /\ r + n <= 2 * Len(script)
        BY DEF TypeOK, BoundedSeq, SeqOf
    <2>2. /\ s \in Seq(1..r + n)
          /\ \A i \in Tails(s) : s[i] % 2 = 0 /\ s[i] \in r + 1..r + n
          /\ \A i, j \in Tails(s) : i < j => s[i] < s[j]
        BY <2>1, JoinedPieces
    <2> HIDE DEF s, r
    <2>3. s \in Seq(1..2 * Len(script))
        <3>1. \A i \in 1..Len(s) : s[i] \in 1..2 * Len(script)
            <4>1. \A i \in 1..Len(s) : s[i] \in 1..r + n
                BY <2>2, ElementsOf
            <4> QED BY <2>1, <4>1
        <3> QED BY <2>2, <3>1, ElementsOf
    <2>4. NewLines(n, cut) = CompleteLines(s)
        BY <1>1 DEF NewLines, s
    <2>5. /\ CompleteLines(s) \in Seq(Items) /\ Ordered(CompleteLines(s), ByLine)
          /\ ToSet(CompleteLines(s)) = {LineEndingAt(s, i) : i \in Tails(s)}
        BY <2>2, <2>3, CompleteLinesElements
    <2>6. ASSUME NEW i \in Tails(s)
          PROVE  /\ LineOf(s[i]) \in r \div 2 + 1..(r + n) \div 2
                 /\ LineEndingAt(s, i).line = LineOf(s[i])
                 /\ LineOf(s[i]) \in 1..Len(script)
                 /\ LineEndingAt(s, i).kind \in {script[LineOf(s[i])], "garbage"}
        <3>1. s[i] % 2 = 0 /\ s[i] \in r + 1..r + n
            BY <2>2
        <3>2. LineOf(s[i]) \in r \div 2 + 1..(r + n) \div 2
            <4>1. r \in Nat /\ r + n \in Nat
                BY <2>1
            <4> DEFINE x == s[i]
                       q == r + n
            <4> HIDE DEF x, q
            <4>2. x \in r + 1..q /\ x % 2 = 0 /\ q \in Nat
                BY <3>1, <4>1 DEF x, q
            <4>3. (x + 1) \div 2 \in r \div 2 + 1..q \div 2
                BY <4>1, <4>2, LineBetween
            <4> QED BY <4>3 DEF LineOf, x, q
        <3> QED BY <2>3, <3>2, LineType
    <2> QED BY <2>4, <2>5, <2>6 DEF r
<1>2. CASE ~(~midchar /\ ~cut)
    <2>1. NewLines(n, cut) = <<>> /\ ToSet(<<>>) = {}
        BY <1>2 DEF NewLines, ToSet
    <2> QED BY <2>1 DEF Ordered
<1> QED BY <1>1, <1>2

(* While every chunk was UTF-8, the pieces follow each other.              *)
LEMMA WholePieces ==
    ASSUME PiecesOK, received \in Nat, NEW n \in Nat, ~garbled
    PROVE  /\ Len(Pieces(n)) = received + n - 2 * (received \div 2)
           /\ \A i \in 1..Len(Pieces(n)) : Pieces(n)[i] = 2 * (received \div 2) + i
<1> DEFINE s == Pieces(n)
           r == received
           c == Len(carry)
<1>2. /\ Len(s) = c + n /\ c \in Nat
      /\ \A i \in 1..c : s[i] = carry[i]
      /\ \A i \in c + 1..c + n : s[i] = r + i - c
    BY JoinedPieces
<1>3. c = r % 2 /\ \A i \in 1..c : carry[i] = r
    <2>1. carry = IF r % 2 = 0 THEN <<>> ELSE <<r>>
        BY DEF PiecesOK, IsTail
    <2> HIDE DEF r
    <2>2. r \in Nat
        BY DEF r
    <2> QED BY <2>1, <2>2
<1> HIDE DEF s, c
<1>4. ASSUME NEW i \in 1..c + n PROVE s[i] = 2 * (r \div 2) + i
    <2>1. CASE i \in 1..c
        BY <1>2, <1>3, <2>1
    <2>2. CASE i \in c + 1..c + n
        <3>1. s[i] = r + i - c
            BY <1>2, <2>2
        <3> QED BY <1>2, <1>3, <2>2, <3>1
    <2> QED BY <1>2, <2>1, <2>2
<1>5. Len(s) = r + n - 2 * (r \div 2)
    BY <1>2, <1>3
<1> QED BY <1>2, <1>4, <1>5 DEF s

(* Exactly the lines that end in a chunk are new then.                     *)
LEMMA NewLinesWhole ==
    ASSUME TypeOK, PiecesOK, NEW n \in Nat, received + n <= 2 * Len(script),
           NEW cut \in BOOLEAN, ~garbled, ~cut
    PROVE  ToSet(NewLines(n, cut)) =
             {Item(l, script[l]) : l \in received \div 2 + 1..(received + n) \div 2}
<1> DEFINE s == Pieces(n)
           r == received
           c == Len(carry)
<1>1. r \in Nat /\ Len(script) \in Nat /\ r + n <= 2 * Len(script)
    BY DEF TypeOK, BoundedSeq, SeqOf
<1>2. /\ s \in Seq(1..r + n) /\ Len(s) = c + n /\ c \in Nat
      /\ \A i \in 1..c : s[i] = carry[i]
      /\ \A i \in c + 1..c + n : s[i] = r + i - c
      /\ \A i \in Tails(s) : s[i] % 2 = 0 /\ s[i] \in r + 1..r + n /\ i \in c + 1..c + n
    BY <1>1, JoinedPieces
<1>3. Len(s) = r + n - 2 * (r \div 2) /\ \A i \in 1..Len(s) : s[i] = 2 * (r \div 2) + i
    BY <1>1, WholePieces
<1>4. NewLines(n, cut) = CompleteLines(s)
    BY DEF NewLines, PiecesOK
<1> HIDE DEF s, r, c
<1>5. \A i \in 1..c + n : s[i] = 2 * (r \div 2) + i
    BY <1>2, <1>3
<1>6. s \in Seq(1..2 * Len(script))
    <2>1. \A i \in 1..Len(s) : s[i] \in 1..2 * Len(script)
        <3>1. \A i \in 1..Len(s) : s[i] \in 1..r + n
            BY <1>2, ElementsOf
        <3> QED BY <1>1, <3>1
    <2> QED BY <1>2, <2>1, ElementsOf
<1>7. ToSet(NewLines(n, cut)) = {LineEndingAt(s, i) : i \in Tails(s)}
    BY <1>4, <1>6, CompleteLinesElements
<1>8. ASSUME NEW i \in Tails(s)
      PROVE  /\ LineEndingAt(s, i) = Item(LineOf(s[i]), script[LineOf(s[i])])
             /\ LineOf(s[i]) \in r \div 2 + 1..(r + n) \div 2
    <2>1. i \in 1..c + n /\ s[i] % 2 = 0 /\ s[i] \in r + 1..r + n /\ s[i] = 2 * (r \div 2) + i
        BY <1>2, <1>5
    <2>2. i > 1 /\ i - 1 \in 1..c + n /\ i % 2 = 0
        <3>1. i \in Nat /\ r \div 2 \in Nat /\ (2 * (r \div 2) + i) % 2 = 0
            BY <1>1, <1>2, <2>1
        <3>2. i % 2 = 0
            BY <3>1
        <3>3. i > 1
            BY <2>1, <3>2
        <3> QED BY <1>2, <2>1, <3>2, <3>3
    <2>3. s[i - 1] = s[i] - 1
        BY <1>1, <1>5, <2>1, <2>2
    <2>4. ASSUME i > 2 PROVE IsTail(s[i - 2])
        <3>1. i - 2 \in 1..c + n
            BY <1>2, <2>1, <2>4
        <3>2. s[i - 2] = 2 * (r \div 2) + i - 2
            BY <1>1, <1>5, <3>1
        <3>3. (2 * (r \div 2) + i - 2) % 2 = 0
            BY <1>1, <2>1, <2>2
        <3> QED BY <3>2, <3>3 DEF IsTail
    <2>5. LineOf(s[i]) \in r \div 2 + 1..(r + n) \div 2
        BY <1>1, <2>1 DEF LineOf
    <2> QED BY <2>2, <2>3, <2>4, <2>5 DEF LineEndingAt
<1>9. ASSUME NEW l \in r \div 2 + 1..(r + n) \div 2
      PROVE  \E i \in Tails(s) : LineOf(s[i]) = l
    <2> DEFINE i == 2 * (l - r \div 2)
    <2>1. i \in 1..c + n
        BY <1>1, <1>2, <1>3
    <2>2. s[i] = 2 * l
        BY <1>1, <1>5, <2>1
    <2>3. IsTail(s[i]) /\ LineOf(s[i]) = l
        <3>1. l \in Nat
            BY <1>1
        <3>2. (2 * l) % 2 = 0 /\ (2 * l + 1) \div 2 = l
            BY <3>1
        <3> QED BY <2>2, <3>2 DEF IsTail, LineOf
    <2> HIDE DEF i
    <2> QED BY <1>2, <2>1, <2>3 DEF Tails
<1>10. {LineEndingAt(s, i) : i \in Tails(s)}
       = {Item(l, script[l]) : l \in r \div 2 + 1..(r + n) \div 2}
    BY <1>8, <1>9
<1> QED BY <1>7, <1>10 DEF r

(* What is carried over from it.                                           *)
LEMMA CarriedOver ==
    ASSUME TypeOK, PiecesOK, NEW n \in Nat, received + n <= 2 * Len(script),
           NEW cut \in BOOLEAN, NEW c,
           c = IF ~midchar /\ ~cut THEN Trailing(Pieces(n)) ELSE carry
    PROVE  /\ c \in Seq(1..received + n) /\ \A i \in 1..Len(c) : ~IsTail(c[i])
           /\ ~garbled /\ ~cut => c = IF IsTail(received + n) THEN <<>> ELSE <<received + n>>
<1> DEFINE s == Pieces(n)
           r == received
           P == 1..r + n
<1>1. r \in Nat
    BY DEF TypeOK
<1>2. CASE ~(~midchar /\ ~cut)
    <2>1. c = carry /\ (garbled \/ cut)
        BY <1>2 DEF PiecesOK
    <2>2. \A i \in 1..Len(carry) : carry[i] \in P
        <3>1. \A i \in 1..Len(carry) : carry[i] \in 1..r
            BY ElementsOf DEF PiecesOK
        <3> QED BY <1>1, <3>1
    <2>3. carry \in Seq(P)
        <3> HIDE DEF P
        <3> QED BY <2>2, ElementsOf DEF PiecesOK
    <2> QED BY <2>1, <2>3 DEF PiecesOK
<1>3. CASE ~midchar /\ ~cut
    <2>1. c = Trailing(s)
        BY <1>3
    <2>2. s \in Seq(P) /\ Len(s) \in Nat
        <3>1. s \in Seq(P)
            BY <1>1, JoinedPieces
        <3> HIDE DEF s, P
        <3> QED BY <3>1
    <2> HIDE DEF s, P
    <2>3. PICK m \in 0..Len(s) :
             /\ Trailing(s) = SubSeq(s, m + 1, Len(s))
             /\ m = 0 \/ IsTail(s[m])
             /\ \A i \in m + 1..Len(s) : ~IsTail(s[i])
        BY <2>2, TrailingPieces
    <2>4. c \in Seq(P) /\ Len(c) = Len(s) - m /\ \A i \in 1..Len(c) : c[i] = s[m + i]
        <3>1. /\ SubSeq(s, m + 1, Len(s)) \in Seq(P)
              /\ Len(SubSeq(s, m + 1, Len(s))) = Len(s) - m
              /\ \A i \in 1..Len(s) - m : SubSeq(s, m + 1, Len(s))[i] = s[m + i]
            BY <2>2, SuffixElements
        <3>2. c = SubSeq(s, m + 1, Len(s))
            BY <2>1, <2>3
        <3> QED BY <3>1, <3>2
    <2>5. \A i \in 1..Len(c) : ~IsTail(c[i])
        <3> SUFFICES ASSUME NEW i \in 1..Len(c) PROVE ~IsTail(c[i])
            OBVIOUS
        <3>1. m + i \in m + 1..Len(s)
            BY <2>2, <2>4
        <3> QED BY <2>3, <2>4, <3>1
    <2>6. ASSUME ~garbled PROVE c = IF IsTail(r + n) THEN <<>> ELSE <<r + n>>
        <3>1. Len(s) = r + n - 2 * (r \div 2) /\ \A i \in 1..Len(s) : s[i] = 2 * (r \div 2) + i
            BY <1>1, <2>6, WholePieces DEF s
        <3> HIDE DEF r
        <3>2. ASSUME NEW i \in 1..Len(s) PROVE IsTail(s[i]) <=> i % 2 = 0
            <4>1. (2 * (r \div 2) + i) % 2 = i % 2
                BY <1>1, <2>2
            <4> QED BY <3>1, <4>1 DEF IsTail
        <3>3. CASE IsTail(r + n)
            <4>1. Len(s) % 2 = 0
                BY <1>1, <3>1, <3>3 DEF IsTail
            <4>2. ~(Len(s) \in m + 1..Len(s))
                BY <2>2, <2>3, <3>2, <4>1
            <4>3. m = Len(s)
                BY <2>2, <4>2
            <4> QED BY <2>4, <3>3, <4>3
        <3>4. CASE ~IsTail(r + n)
            <4>1. Len(s) % 2 = 1 /\ Len(s) \in 1..Len(s)
                BY <1>1, <2>2, <3>1, <3>4 DEF IsTail
            <4>2. m % 2 = 0 /\ m # Len(s)
                <5>1. m = 0 \/ m \in 1..Len(s)
                    BY <2>2
                <5>2. m % 2 = 0
                    BY <2>3, <3>2, <5>1
                <5> QED BY <4>1, <5>2
            <4>3. ~(Len(s) - 1 \in m + 1..Len(s))
                <5> SUFFICES ASSUME Len(s) - 1 \in m + 1..Len(s) PROVE FALSE
                    OBVIOUS
                <5>1. Len(s) - 1 \in 1..Len(s) /\ (Len(s) - 1) % 2 = 0
                    BY <2>2, <4>1
                <5> QED BY <2>3, <3>2, <5>1
            <4>4. m = Len(s) - 1
                BY <2>2, <4>2, <4>3
            <4>5. Len(c) = 1 /\ c[1] = r + n
                <5>1. Len(c) = 1
                    BY <2>2, <2>4, <4>4
                <5>2. c[1] = s[Len(s)]
                    BY <2>2, <2>4, <4>4, <5>1
                <5> QED BY <1>1, <3>1, <4>1, <5>1, <5>2
            <4> QED BY <2>4, <3>4, <4>5
        <3> QED BY <3>3, <3>4
    <2> QED BY <1>3, <2>4, <2>5, <2>6 DEF P
<1> QED BY <1>2, <1>3

-----------------------------------------------------------------------------
(* Nothing has been received.                                              *)
LEMMA StreamInitInv == Init => StreamInv
<1> SUFFICES ASSUME Init PROVE StreamInv
    OBVIOUS
<1>0. /\ script \in BoundedSeq(Kinds, MaxLines)
      /\ received = 0 /\ midchar = FALSE /\ garbled = FALSE
      /\ carry = <<>> /\ buffer = <<>> /\ text = <<>>
      /\ truncated = FALSE /\ seen_done = FALSE
      /\ scanned = {}
      /\ done = FALSE /\ ri_done = FALSE /\ ended = FALSE
      /\ out = <<>>
    BY DEF Init
<1>1. script \in Seq(Kinds) /\ Len(script) \in Nat /\ MaxText \in Nat /\ MaxLines \in Nat
    BY <1>0, StreamAssumption, BoundedSeqIs
<1>2. text \in BoundedSeq(Lines, MaxText)
    <2>1. text \in Seq(Lines) /\ Len(text) <= MaxText
        BY <1>0, <1>1
    <2> QED BY <1>1, <2>1, BoundedSeqIs
<1>3. TypeOK
    <2>1. carry \in Seq(1..received) /\ buffer \in Seq(Lines) /\ out \in Seq(Items)
        BY <1>0
    <2>2. received \in 0..2 * Len(script)
        BY <1>0, <1>1
    <2> QED BY <1>0, <1>2, <2>1, <2>2 DEF TypeOK
<1>4. PiecesOK
    BY <1>0 DEF PiecesOK, IsTail
<1>5. ToSet(out) = {} /\ out \in Seq(Items) /\ 0 \div 2 = 0
    BY <1>0 DEF ToSet
<1>6. Shown = <<>>
    BY <1>5, ContentOfNone DEF Shown
<1>7. Handed = <<>> /\ ToSet(Handed) = {} /\ ToSet(Shown) = {} /\ ToSet(buffer) = {}
    BY <1>0, <1>6 DEF Handed, ToSet
<1>8. Content(received \div 2) = {}
    BY <1>0, <1>5 DEF Content
<1>9. ContentOK
    <2>1. Ordered(Handed, Rising)
        BY <1>7 DEF Ordered
    <2> QED BY <1>7, <1>8, <2>1 DEF ContentOK
<1>10. FlushOK /\ ScanOK /\ RawOK
    BY <1>0, <1>5, <1>7 DEF FlushOK, ScanOK, RawOK
<1>11. DoneIsPassedOn
    BY <1>0, <1>5 DEF DoneIsPassedOn
<1> QED BY <1>3, <1>4, <1>9, <1>10, <1>11 DEF StreamInv

(* The content of new lines follows what was received before.              *)
LEMMA NewContent ==
    ASSUME TypeOK, PiecesOK, NEW n \in Nat, received + n <= 2 * Len(script),
           NEW cut \in BOOLEAN, NEW c, c = ContentOf(NewLines(n, cut))
    PROVE  /\ c \in Seq(Lines) /\ Ordered(c, Rising)
           /\ \A x \in ToSet(c) : /\ x \in received \div 2 + 1..(received + n) \div 2
                                  /\ script[x] = "content"
           /\ ~garbled /\ ~cut => ToSet(c) = {x \in received \div 2 + 1..(received + n) \div 2 :
                                              script[x] = "content"}
<1> DEFINE L == NewLines(n, cut)
           span == received \div 2 + 1..(received + n) \div 2
<1>1. /\ L \in Seq(Items) /\ Ordered(L, ByLine)
      /\ \A x \in ToSet(L) : /\ x.line \in span /\ x.line \in 1..Len(script)
                             /\ x.kind \in {script[x.line], "garbage"}
    BY NewLinesElements
<1> HIDE DEF L, span
<1>2. /\ c \in Seq(LineNumbers) /\ Ordered(c, Rising)
      /\ ToSet(c) = {x.line : x \in {y \in ToSet(L) : y.kind = "content"}}
    BY <1>1, ContentOfElements, ContentOfOrdered DEF L
<1>3. \A x \in ToSet(c) : x \in span /\ script[x] = "content" /\ x \in 1..Len(script)
    BY <1>1, <1>2
<1>4. c \in Seq(Lines)
    <2>1. 1..Len(script) \subseteq Lines
        BY StreamAssumption, BoundedSeqIs DEF TypeOK, Lines
    <2>2. \A i \in 1..Len(c) : c[i] \in Lines
        BY <1>2, <1>3, <2>1, ToSetElements
    <2> QED BY <1>2, <2>2, ElementsOf
<1>5. ASSUME ~garbled, ~cut PROVE ToSet(c) = {x \in span : script[x] = "content"}
    <2>1. ToSet(L) = {Item(l, script[l]) : l \in span}
        BY <1>5, NewLinesWhole DEF L, span
    <2>2. ASSUME NEW l \in span, script[l] = "content" PROVE l \in ToSet(c)
        <3>1. Item(l, "content") \in ToSet(L)
            BY <2>1, <2>2
        <3>2. Item(l, "content").line = l /\ Item(l, "content").kind = "content"
            BY DEF Item
        <3> QED BY <1>2, <3>1, <3>2
    <2> QED BY <1>3, <2>2
<1> QED BY <1>2, <1>3, <1>4, <1>5 DEF span

(* The text held stays within its bound, and is whole unless truncated.    *)
LEMMA FeedTextType ==
    ASSUME TypeOK, NEW lines \in Seq(Items), ContentOf(lines) \in Seq(Lines)
    PROVE  /\ FeedText(lines) \in BoundedSeq(Lines, MaxText)
           /\ ~Truncates(lines) => FeedText(lines) = text \o ContentOf(lines)
<1> DEFINE c   == ContentOf(lines)
           all == text \o c
<1>1. MaxText \in Nat /\ text \in Seq(Lines) /\ Len(text) <= MaxText
    BY StreamAssumption, BoundedSeqIs DEF TypeOK
<1>2. all \in Seq(Lines) /\ Len(all) = Len(text) + Len(c) /\ Len(all) \in Nat
    BY <1>1
<1>3. FeedText(lines) = IF truncated THEN text
                        ELSE IF Len(all) <= MaxText THEN all ELSE SubSeq(all, 1, MaxText)
    BY DEF FeedText, Appended
<1>4. ~Truncates(lines) => ~truncated /\ Len(all) <= MaxText
    BY <1>1, <1>2 DEF Truncates
<1> HIDE DEF c, all
<1>5. Len(all) > MaxText => SubSeq(all, 1, MaxText) \in Seq(Lines) /\ Len(SubSeq(all, 1, MaxText)) = MaxText
    BY <1>1, <1>2
<1>6. FeedText(lines) \in Seq(Lines) /\ Len(FeedText(lines)) <= MaxText
    BY <1>1, <1>2, <1>3, <1>5
<1> QED BY <1>1, <1>3, <1>4, <1>6, BoundedSeqIs DEF all, c

(* A selection without content has none.                                   *)
LEMMA SelectedContent ==
    ASSUME NEW items \in Seq(Items), NEW K, "content" \notin K
    PROVE  ContentOf(OfKinds(items, K)) = <<>>
<1>1. OfKinds(items, K) \in Seq(Items) /\ \A x \in ToSet(OfKinds(items, K)) : x.kind \in K
    BY OfKindsElements
<1>2. \A x \in ToSet(OfKinds(items, K)) : x.kind # "content"
    BY <1>1
<1> QED BY <1>1, <1>2, ContentOfNone

(* A single item that is no content.                                       *)
LEMMA OneItem ==
    ASSUME NEW k \in Kinds \cup {"garbage", "warning"}, k # "content"
    PROVE  /\ <<Item(0, k)>> \in Seq(Items) /\ ToSet(<<Item(0, k)>>) = {Item(0, k)}
           /\ ContentOf(<<Item(0, k)>>) = <<>> /\ Item(0, k).kind = k
<1>1. Item(0, k) \in Items /\ Item(0, k).kind = k
    BY ItemFields DEF LineNumbers
<1>2. <<Item(0, k)>> \in Seq(Items) /\ ToSet(<<Item(0, k)>>) = {Item(0, k)}
    BY <1>1 DEF ToSet
<1> QED BY <1>1, <1>2, ContentOfNone

(* What a flush at [DONE] adds, and what its content is.                   *)
Warnings == {<<>>, <<Warning>>}
Emitted(o, p, h, w) == o \o p \o Flushed(h) \o w \o <<DoneLine>>

(* What a flush and a warning add to the output.                           *)
LEMMA FlushOutput ==
    ASSUME NEW o \in Seq(Items), NEW p \in Seq(Items), ContentOf(p) = <<>>, NEW h \in Seq(Lines),
           NEW w \in Warnings
    PROVE  /\ Emitted(o, p, h, w) \in Seq(Items)
           /\ ContentOf(Emitted(o, p, h, w)) = ContentOf(o) \o h
           /\ ToSet(Emitted(o, p, h, w)) = ToSet(o) \cup ToSet(p) \cup ToSet(Flushed(h)) \cup ToSet(w) \cup {DoneLine}
<1> DEFINE f == Flushed(h)
           d == <<DoneLine>>
<1>1. f \in Seq(Items) /\ ContentOf(f) = h
    BY FlushedContent
<1>2. d \in Seq(Items) /\ ContentOf(d) = <<>> /\ ToSet(d) = {DoneLine}
    BY OneItem DEF DoneLine, Kinds
<1>3. w \in Seq(Items) /\ ContentOf(w) = <<>>
    <2>1. <<>> \in Seq(Items) /\ ToSet(<<>>) = {}
        BY DEF ToSet
    <2>2. ContentOf(<<>>) = <<>>
        BY <2>1, ContentOfNone
    <2>3. <<Warning>> \in Seq(Items) /\ ContentOf(<<Warning>>) = <<>>
        BY OneItem DEF Warning, Kinds
    <2> QED BY <2>1, <2>2, <2>3 DEF Warnings
<1>4. ContentOf(o) \in Seq(LineNumbers) /\ h \in Seq(LineNumbers)
    <2>1. \A i \in 1..Len(h) : h[i] \in LineNumbers
        BY ElementsOf DEF LineNumbers
    <2>2. h \in Seq(LineNumbers)
        BY <2>1, ElementsOf
    <2> QED BY <2>2, ContentOfElements
<1> HIDE DEF f, d
<1>5. /\ o \o p \in Seq(Items) /\ ContentOf(o \o p) = ContentOf(o)
      /\ ToSet(o \o p) = ToSet(o) \cup ToSet(p)
    <2>1. ContentOf(o \o p) = ContentOf(o) \o <<>>
        BY ContentOfConcat
    <2>2. ContentOf(o) \o <<>> = ContentOf(o)
        BY <1>4
    <2> QED BY <2>1, <2>2, ToSetConcat
<1>6. /\ o \o p \o f \in Seq(Items) /\ ContentOf(o \o p \o f) = ContentOf(o) \o h
      /\ ToSet(o \o p \o f) = ToSet(o) \cup ToSet(p) \cup ToSet(f)
    <2>1. ContentOf(o \o p \o f) = ContentOf(o) \o h
        BY <1>1, <1>5, ContentOfConcat
    <2>2. ToSet(o \o p \o f) = ToSet(o \o p) \cup ToSet(f)
        <3> DEFINE u == o \o p
        <3>1. u \in Seq(Items)
            BY <1>5
        <3> HIDE DEF u
        <3>2. ToSet(u \o f) = ToSet(u) \cup ToSet(f)
            BY <1>1, <3>1, ToSetConcat
        <3> QED BY <3>2 DEF u
    <2>3. o \o p \o f \in Seq(Items)
        BY <1>1, <1>5
    <2> QED BY <1>5, <2>1, <2>2, <2>3
<1>7. ContentOf(o) \o h \in Seq(LineNumbers)
    BY <1>4
<1> DEFINE b == o \o p \o f
           e == ContentOf(o) \o h
<1> HIDE DEF b, e
<1>8. /\ b \o w \in Seq(Items) /\ ContentOf(b \o w) = e
      /\ ToSet(b \o w) = ToSet(b) \cup ToSet(w)
    <2>1. b \in Seq(Items) /\ ContentOf(b) = e /\ e \in Seq(LineNumbers)
        BY <1>6, <1>7 DEF b, e
    <2>2. ContentOf(b \o w) = e \o <<>>
        BY <1>3, <2>1, ContentOfConcat
    <2>3. e \o <<>> = e
        BY <2>1
    <2> QED BY <1>3, <2>1, <2>2, <2>3, ToSetConcat
<1>9. /\ b \o w \o d \in Seq(Items) /\ ContentOf(b \o w \o d) = e
      /\ ToSet(b \o w \o d) = ToSet(b) \cup ToSet(w) \cup {DoneLine}
    <2>1. ContentOf(b \o w \o d) = e \o <<>>
        BY <1>2, <1>8, ContentOfConcat
    <2>2. e \o <<>> = e
        BY <1>7 DEF e
    <2>3. ToSet(b \o w \o d) = ToSet(b \o w) \cup ToSet(d)
        <3> DEFINE u == b \o w
        <3>1. u \in Seq(Items)
            BY <1>8
        <3> HIDE DEF u
        <3>2. ToSet(u \o d) = ToSet(u) \cup ToSet(d)
            BY <1>2, <3>1, ToSetConcat
        <3> QED BY <3>2 DEF u
    <2>4. b \o w \o d \in Seq(Items)
        BY <1>2, <1>8
    <2>5. ToSet(b \o w \o d) = ToSet(b) \cup ToSet(w) \cup {DoneLine}
        BY <1>2, <1>8, <2>3, Zenon
    <2> QED BY <2>1, <2>2, <2>4, <2>5
<1>10. ToSet(b) = ToSet(o) \cup ToSet(p) \cup ToSet(f)
    BY <1>6 DEF b
<1>11. Emitted(o, p, h, w) = b \o w \o d
    BY DEF Emitted, b, d, f
<1> QED BY <1>9, <1>10, <1>11 DEF e, f

-----------------------------------------------------------------------------
(* A data frame of n pieces, and the warning that a flush in it gave.      *)
FrameBy(n, cut, w) ==
    LET lines  == NewLines(n, cut)
        passed == OfKinds(lines, {"meta", "garbage"})
        held   == buffer \o ContentOf(lines)
    IN  /\ ~done /\ ~ended /\ UNCHANGED <<script, done, ended>>
        /\ received + n <= 2 * Len(script)
        /\ received' = received + n
        /\ midchar' = cut
        /\ garbled' = (garbled \/ midchar \/ cut)
        /\ carry' = IF ~midchar /\ ~cut THEN Trailing(Pieces(n)) ELSE carry
        /\ truncated' = Truncates(lines)
        /\ seen_done' = SeesDone(lines)
        /\ \/ /\ seen_done' /\ ~ri_done
              /\ buffer' = <<>>
              /\ ri_done' = TRUE
              /\ Scan(FeedText(lines), w)
              /\ out' = out \o passed \o Flushed(held) \o w \o <<DoneLine>>
           \/ /\ ~(seen_done' /\ ~ri_done)
              /\ buffer' = held
              /\ ri_done' = FALSE
              /\ text' = FeedText(lines)
              /\ out' = out \o passed
              /\ UNCHANGED scanned

(* A frame, with its choices named.                                        *)
LEMMA StreamFrameIs ==
    ASSUME HasMappings, Frame, midchar \in BOOLEAN, garbled \in BOOLEAN
    PROVE  \E n \in Nat, cut \in BOOLEAN, w \in Warnings : FrameBy(n, cut, w)
<1> DEFINE V(cut)     == ~midchar /\ ~cut
           L(n, cut)  == IF V(cut) THEN CompleteLines(carry \o Chunk(n)) ELSE <<>>
           H(n, cut)  == buffer \o ContentOf(L(n, cut))
           P(n, cut)  == Passed(Chunk(n), L(n, cut))
           A(n, cut)  ==
             /\ received + n <= 2 * Len(script)
             /\ received' = received + n
             /\ midchar' = cut
             /\ garbled' = (garbled \/ ~V(cut))
             /\ carry' = IF V(cut) THEN Trailing(carry \o Chunk(n)) ELSE carry
             /\ truncated' = Truncates(L(n, cut))
             /\ seen_done' = SeesDone(L(n, cut))
             /\ IF seen_done' /\ ~ri_done
                THEN /\ buffer' = <<>>
                     /\ ri_done' = TRUE
                     /\ \E warning \in Warnings :
                          /\ Scan(FeedText(L(n, cut)), warning)
                          /\ out' = out \o P(n, cut) \o Flushed(H(n, cut)) \o warning \o <<DoneLine>>
                ELSE /\ buffer' = H(n, cut)
                     /\ ri_done' = FALSE
                     /\ text' = FeedText(L(n, cut))
                     /\ out' = out \o P(n, cut)
                     /\ UNCHANGED scanned
<1>1. /\ ~done /\ ~ended /\ UNCHANGED <<script, done, ended>>
      /\ \E n \in 1..MaxPieces, cut \in BOOLEAN : A(n, cut)
    BY Zenon DEF Frame, Chunk, Warnings
<1>2. PICK n \in 1..MaxPieces, cut \in BOOLEAN : A(n, cut)
    BY <1>1
<1>3. n \in Nat
    OBVIOUS
<1>4. /\ L(n, cut) = NewLines(n, cut) /\ carry \o Chunk(n) = Pieces(n)
      /\ P(n, cut) = OfKinds(NewLines(n, cut), {"meta", "garbage"})
    BY DEF NewLines, Pieces, Passed
<1>5. garbled' = (garbled \/ midchar \/ cut)
    BY <1>2
<1> HIDE DEF L, P
<1>6. \E w \in Warnings : FrameBy(n, cut, w)
    <2>1. CASE seen_done' /\ ~ri_done
        <3>1. PICK w \in Warnings :
                /\ Scan(FeedText(L(n, cut)), w)
                /\ out' = out \o P(n, cut) \o Flushed(H(n, cut)) \o w \o <<DoneLine>>
            BY <1>2, <2>1
        <3>2. FrameBy(n, cut, w)
            BY <1>1, <1>2, <1>4, <1>5, <2>1, <3>1 DEF FrameBy
        <3> QED BY <3>2
    <2>2. CASE ~(seen_done' /\ ~ri_done)
        <3>1. FrameBy(n, cut, <<>>)
            BY <1>1, <1>2, <1>4, <1>5, <2>2 DEF FrameBy
        <3> QED BY <3>1 DEF Warnings
    <2> QED BY <2>1, <2>2
<1> QED BY <1>3, <1>6

(* What the integrity scan is given, it has seen.                          *)
LEMMA ScanFacts ==
    ASSUME NEW t \in BoundedSeq(Lines, MaxText), scanned \subseteq Lines, NEW w, Scan(t, w)
    PROVE  /\ text' \in BoundedSeq(Lines, MaxText) /\ scanned' \subseteq Lines
           /\ scanned \subseteq scanned' /\ (HasScanner => ToSet(t) \subseteq scanned')
           /\ w \in Warnings
<1>1. MaxText \in Nat
    BY StreamAssumption
<1>2. t \in Seq(Lines)
    BY <1>1, BoundedSeqIs
<1>3. ToSet(t) \subseteq Lines
    BY <1>2, ToSetElements
<1>4. CASE HasScanner /\ t # <<>>
    <2>1. text' = <<>> /\ scanned' = scanned \cup ToSet(t) /\ w \in Warnings
        BY <1>4 DEF Scan, Warnings
    <2>2. <<>> \in Seq(Lines) /\ Len(<<>>) <= MaxText
        BY <1>1
    <2>3. text' \in BoundedSeq(Lines, MaxText)
        BY <1>1, <2>1, <2>2, BoundedSeqIs
    <2> QED BY <1>3, <2>1, <2>3
<1>5. CASE ~(HasScanner /\ t # <<>>)
    <2>1. text' = t /\ scanned' = scanned /\ w = <<>>
        BY <1>5 DEF Scan
    <2>3. w \in Warnings
        BY <2>1 DEF Warnings
    <2>2. HasScanner => ToSet(t) = {}
        BY <1>5 DEF ToSet
    <2> QED BY <2>1, <2>2, <2>3
<1> QED BY <1>4, <1>5

(* Types of what the client has and will get.                              *)
LEMMA HandedType ==
    ASSUME TypeOK
    PROVE  /\ Shown \in Seq(LineNumbers) /\ buffer \in Seq(LineNumbers)
           /\ Handed \in Seq(LineNumbers)
           /\ ToSet(Handed) = ToSet(Shown) \cup ToSet(buffer)
<1>1. out \in Seq(Items) /\ buffer \in Seq(Lines)
    BY DEF TypeOK
<1>2. Shown \in Seq(LineNumbers)
    BY <1>1, ContentOfElements DEF Shown
<1>3. buffer \in Seq(LineNumbers)
    <2>1. \A i \in 1..Len(buffer) : buffer[i] \in LineNumbers
        BY <1>1, ElementsOf DEF LineNumbers
    <2> QED BY <1>1, <2>1, ElementsOf
<1>4. Handed \in Seq(LineNumbers)
    BY <1>2, <1>3 DEF Handed
<1>5. ToSet(Handed) = ToSet(Shown) \cup ToSet(buffer)
    BY <1>2, <1>3, ToSetConcat DEF Handed
<1> QED BY <1>2, <1>3, <1>4, <1>5

(* What a data frame makes of the output: the content is handed on or      *)
(* held, and all of it is handed on when [DONE] is.                        *)
LEMMA FrameOutput ==
    ASSUME TypeOK, PiecesOK, NEW n \in Nat, NEW cut \in BOOLEAN,
           NEW w \in Warnings, FrameBy(n, cut, w),
           NEW L, L = NewLines(n, cut), NEW c, c = ContentOf(L)
    PROVE  /\ out' \in Seq(Items) /\ buffer' \in Seq(Lines)
           /\ Handed' = Handed \o c /\ c \in Seq(LineNumbers)
           /\ ToSet(Handed') = ToSet(Handed) \cup ToSet(c)
           /\ ToSet(out) \subseteq ToSet(out') /\ ToSet(Shown) \subseteq ToSet(Shown')
           /\ \A x \in ToSet(out') : x \in ToSet(out) \/ x \in ToSet(L) \/ x.kind # "garbage"
           /\ seen_done' /\ ~ri_done => DoneLine \in ToSet(out') /\ Shown' = Handed' /\ buffer' = <<>>
           /\ ~(seen_done' /\ ~ri_done) => Shown' = Shown /\ buffer' = buffer \o c
<1> DEFINE p == OfKinds(L, {"meta", "garbage"})
           h == buffer \o c
<1>1. /\ received + n <= 2 * Len(script)
      /\ \/ /\ seen_done' /\ ~ri_done /\ buffer' = <<>>
            /\ out' = out \o p \o Flushed(h) \o w \o <<DoneLine>>
         \/ /\ ~(seen_done' /\ ~ri_done)
            /\ buffer' = h
            /\ out' = out \o p
    BY DEF FrameBy
<1>2. out \in Seq(Items) /\ buffer \in Seq(Lines)
    BY DEF TypeOK
<1>3. L \in Seq(Items) /\ c \in Seq(Lines)
    BY <1>1, NewLinesElements, NewContent
<1>4. c \in Seq(LineNumbers)
    BY <1>3, ContentOfElements
<1>5. p \in Seq(Items) /\ ToSet(p) \subseteq ToSet(L) /\ ContentOf(p) = <<>>
    BY <1>3, OfKindsElements, SelectedContent
<1>6. h \in Seq(Lines)
    BY <1>2, <1>3
<1>7. /\ Shown \in Seq(LineNumbers) /\ buffer \in Seq(LineNumbers) /\ Handed \in Seq(LineNumbers)
      /\ ToSet(Handed) = ToSet(Shown) \cup ToSet(buffer)
    BY HandedType
<1>8. Shown = ContentOf(out) /\ Shown' = ContentOf(out') /\ Handed = Shown \o buffer /\ Handed' = Shown' \o buffer'
    BY DEF Shown, Handed
<1> HIDE DEF p
<1>9. ToSet(Handed \o c) = ToSet(Handed) \cup ToSet(c)
    BY <1>4, <1>7, ToSetConcat
<1>10. Shown \o h = Handed \o c
    <2>1. (Shown \o buffer) \o c = Shown \o (buffer \o c)
        BY <1>4, <1>7, ConcatAssociates, SMTT(30)
    <2> QED BY <1>8, <2>1
<1> HIDE DEF h
<1>11. CASE seen_done' /\ ~ri_done
    <2>1. buffer' = <<>> /\ out' = out \o p \o Flushed(h) \o w \o <<DoneLine>>
        BY <1>1, <1>11
    <2>2. /\ out' \in Seq(Items) /\ ContentOf(out') = ContentOf(out) \o h
          /\ ToSet(out') = ToSet(out) \cup ToSet(p) \cup ToSet(Flushed(h)) \cup ToSet(w) \cup {DoneLine}
        <3>1. out \in Seq(Items) /\ p \in Seq(Items) /\ ContentOf(p) = <<>> /\ h \in Seq(Lines)
            BY <1>2, <1>5, <1>6
        <3>2. out' = Emitted(out, p, h, w)
            BY <2>1 DEF Emitted
        <3>3. /\ Emitted(out, p, h, w) \in Seq(Items)
              /\ ContentOf(Emitted(out, p, h, w)) = ContentOf(out) \o h
              /\ ToSet(Emitted(out, p, h, w)) =
                   ToSet(out) \cup ToSet(p) \cup ToSet(Flushed(h)) \cup ToSet(w) \cup {DoneLine}
            <4>1. h \in Seq(Lines) /\ w \in Warnings
                BY <3>1
            <4> HIDE DEF h
            <4> QED BY <3>1, <4>1, FlushOutput, SMTT(30)
        <3> QED BY <3>2, <3>3, Zenon
    <2>3. Shown' = Handed \o c
        BY <1>8, <1>10, <2>2
    <2>4. Handed \o c \in Seq(LineNumbers)
        BY <1>4, <1>7
    <2>5. (Handed \o c) \o <<>> = Handed \o c
        BY <2>4
    <2>6. Handed' = Handed \o c
        BY <1>8, <2>1, <2>3, <2>5
    <2>7. \A x \in ToSet(w) \cup {DoneLine} : x.kind # "garbage"
        BY OneItem DEF ToSet, Warning, DoneLine, Item, Warnings
    <2>8. \A x \in ToSet(Flushed(h)) : x.kind # "garbage"
        BY <1>6, FlushedContent
    <2>9. \A x \in ToSet(out') : x \in ToSet(out) \/ x \in ToSet(L) \/ x.kind # "garbage"
        BY <1>5, <2>2, <2>7, <2>8
    <2>10. ToSet(Shown) \subseteq ToSet(Shown')
        BY <1>7, <1>9, <2>3
    <2>11. buffer' \in Seq(Lines)
        BY <2>1
    <2>12. DoneLine \in ToSet(out') /\ ToSet(out) \subseteq ToSet(out')
        BY <2>2
    <2>13. Shown' = Handed' /\ ToSet(Handed') = ToSet(Handed) \cup ToSet(c)
        BY <1>9, <2>3, <2>6
    <2> QED BY <1>4, <1>11, <2>1, <2>2, <2>6, <2>9, <2>10, <2>11, <2>12, <2>13
<1>12. CASE ~(seen_done' /\ ~ri_done)
    <2>1. buffer' = h /\ out' = out \o p
        BY <1>1, <1>12
    <2>2. out' \in Seq(Items) /\ ToSet(out') = ToSet(out) \cup ToSet(p)
        BY <1>2, <1>5, <2>1, ToSetConcat
    <2>3. ContentOf(out') = ContentOf(out) \o <<>>
        BY <1>2, <1>5, <2>1, ContentOfConcat
    <2>4. Shown' = Shown
        BY <1>7, <1>8, <2>3
    <2>5. Handed' = Handed \o c
        BY <1>8, <1>10, <2>1, <2>4
    <2>6. ToSet(Handed') = ToSet(Handed) \cup ToSet(c)
        BY <1>9, <2>5
    <2>7. ToSet(Shown) \subseteq ToSet(Shown') /\ ToSet(out) \subseteq ToSet(out')
        BY <2>2, <2>4
    <2>8. buffer' = buffer \o c /\ buffer' \in Seq(Lines)
        BY <1>6, <2>1 DEF h
    <2>9. \A x \in ToSet(out') : x \in ToSet(out) \/ x \in ToSet(L) \/ x.kind # "garbage"
        BY <1>5, <2>2
    <2> QED BY <1>4, <1>12, <2>2, <2>4, <2>5, <2>6, <2>7, <2>8, <2>9
<1> QED BY <1>11, <1>12

-----------------------------------------------------------------------------
(* A data frame preserves the invariant.                                   *)
LEMMA FrameInv ==
    ASSUME StreamInv, NEW n \in Nat, NEW cut \in BOOLEAN, NEW w \in Warnings, FrameBy(n, cut, w)
    PROVE  StreamInv'
<1> DEFINE L    == NewLines(n, cut)
           c    == ContentOf(L)
           fed  == FeedText(L)
           old  == received \div 2
           new  == (received + n) \div 2
<1>0. TypeOK /\ PiecesOK /\ ContentOK /\ FlushOK /\ ScanOK /\ RawOK /\ DoneIsPassedOn
    BY DEF StreamInv
<1>1. /\ ~done /\ ~ended /\ done' = done /\ ended' = ended /\ script' = script
      /\ received + n <= 2 * Len(script) /\ received' = received + n
      /\ midchar' = cut /\ garbled' = (garbled \/ midchar \/ cut)
      /\ carry' = IF ~midchar /\ ~cut THEN Trailing(Pieces(n)) ELSE carry
      /\ truncated' = Truncates(L) /\ seen_done' = SeesDone(L)
    BY DEF FrameBy
<1>2. \/ seen_done' /\ ~ri_done /\ buffer' = <<>> /\ ri_done' = TRUE /\ Scan(fed, w)
      \/ ~(seen_done' /\ ~ri_done) /\ ri_done' = FALSE /\ text' = fed /\ scanned' = scanned
    BY DEF FrameBy
<1>3. received \in Nat /\ Len(script) \in Nat /\ MaxText \in Nat /\ script \in Seq(Kinds)
      /\ Len(script) <= MaxLines /\ MaxLines \in Nat
    BY <1>0, StreamAssumption, BoundedSeqIs DEF TypeOK
<1>4. old \in Nat /\ new \in Nat /\ old <= new /\ new <= Len(script)
    BY <1>1, <1>3
<1>5. /\ L \in Seq(Items)
      /\ \A x \in ToSet(L) : /\ x.line \in old + 1..new /\ x.line \in 1..Len(script)
                             /\ x.kind \in {script[x.line], "garbage"}
    BY <1>0, <1>1, NewLinesElements
<1>6. /\ c \in Seq(Lines) /\ Ordered(c, Rising)
      /\ \A x \in ToSet(c) : x \in old + 1..new /\ script[x] = "content"
      /\ ~garbled /\ ~cut => ToSet(c) = {x \in old + 1..new : script[x] = "content"}
    BY <1>0, <1>1, NewContent
<1>7. /\ out' \in Seq(Items) /\ buffer' \in Seq(Lines)
      /\ Handed' = Handed \o c /\ c \in Seq(LineNumbers)
      /\ ToSet(Handed') = ToSet(Handed) \cup ToSet(c)
      /\ ToSet(out) \subseteq ToSet(out') /\ ToSet(Shown) \subseteq ToSet(Shown')
      /\ \A x \in ToSet(out') : x \in ToSet(out) \/ x \in ToSet(L) \/ x.kind # "garbage"
      /\ seen_done' /\ ~ri_done => DoneLine \in ToSet(out') /\ Shown' = Handed' /\ buffer' = <<>>
      /\ ~(seen_done' /\ ~ri_done) => Shown' = Shown /\ buffer' = buffer \o c
    BY <1>0, FrameOutput
<1>8. fed \in BoundedSeq(Lines, MaxText) /\ (~Truncates(L) => fed = text \o c)
    BY <1>0, <1>5, <1>6, FeedTextType
<1>9. /\ Shown \in Seq(LineNumbers) /\ buffer \in Seq(LineNumbers) /\ Handed \in Seq(LineNumbers)
      /\ ToSet(Handed) = ToSet(Shown) \cup ToSet(buffer)
    BY <1>0, HandedType
<1>10. Truncates(L) \in BOOLEAN /\ (truncated => Truncates(L))
    BY <1>0 DEF Truncates, TypeOK
<1>11. /\ SeesDone(L) \in BOOLEAN /\ (seen_done => SeesDone(L))
       /\ SeesDone(L) => seen_done \/ OfKinds(L, {"[DONE]"}) # <<>>
       /\ ~truncated /\ OfKinds(L, {"[DONE]"}) # <<>> => SeesDone(L)
    BY <1>0 DEF SeesDone, TypeOK
<1>12. /\ OfKinds(L, {"[DONE]"}) \in Seq(Items)
       /\ ToSet(OfKinds(L, {"[DONE]"})) = {x \in ToSet(L) : x.kind \in {"[DONE]"}}
    BY <1>5, OfKindsElements
<1>13. ~garbled' => ~garbled /\ ~midchar /\ ~cut
    BY <1>1
<1> HIDE DEF L, c, fed
<1>14. TypeOK'
    <2>1. received' \in 0..2 * Len(script')
        BY <1>1, <1>3
    <2>2. midchar' \in BOOLEAN /\ garbled' \in BOOLEAN /\ script' \in BoundedSeq(Kinds, MaxLines)
        BY <1>0, <1>1 DEF TypeOK
    <2>3. carry' \in Seq(1..received')
        BY <1>0, <1>1, CarriedOver
    <2>4. text' \in BoundedSeq(Lines, MaxText) /\ scanned' \subseteq Lines
        <3>1. scanned \subseteq Lines
            BY <1>0 DEF TypeOK
        <3> QED BY <1>2, <1>8, <3>1, ScanFacts
    <2>5. /\ truncated' \in BOOLEAN /\ seen_done' \in BOOLEAN /\ done' \in BOOLEAN
          /\ ri_done' \in BOOLEAN /\ ended' \in BOOLEAN
        BY <1>0, <1>1, <1>2, <1>10, <1>11 DEF TypeOK
    <2> QED BY <1>7, <2>1, <2>2, <2>3, <2>4, <2>5 DEF TypeOK
<1>15. PiecesOK'
    <2>1. /\ carry' \in Seq(1..received + n) /\ \A i \in 1..Len(carry') : ~IsTail(carry'[i])
          /\ ~garbled /\ ~cut => carry' = IF IsTail(received + n) THEN <<>> ELSE <<received + n>>
        BY <1>0, <1>1, CarriedOver
    <2> QED BY <1>1, <1>13, <2>1 DEF PiecesOK
<1>16. ContentOK'
    <2>1. /\ Ordered(Handed, Rising) /\ ToSet(Handed) \subseteq Content(old)
          /\ ~garbled => ToSet(Handed) = Content(old)
        BY <1>0 DEF ContentOK
    <2>2. Content(received \div 2)' = {x \in 1..new : script[x] = "content"}
        BY <1>1 DEF Content
    <2>3. Content(old) = {x \in 1..old : script[x] = "content"}
        BY DEF Content
    <2> HIDE DEF old, new
    <2>4. \A x \in ToSet(Handed), y \in ToSet(c) : <<x, y>> \in Rising
        <3> SUFFICES ASSUME NEW x \in 1..old, NEW y \in old + 1..new
                     PROVE  <<x, y>> \in Rising
            BY <1>6, <2>1, <2>3
        <3>1. x \in Int /\ y \in Int /\ x < y
            BY <1>4
        <3> QED BY <3>1 DEF Rising
    <2>5. Ordered(Handed', Rising)
        BY <1>6, <1>7, <1>9, <2>1, <2>4, OrderedConcat
    <2>6. ToSet(Handed') \subseteq Content(received \div 2)'
        BY <1>4, <1>6, <1>7, <2>1, <2>2, <2>3
    <2>7. ASSUME ~garbled' PROVE ToSet(Handed') = Content(received \div 2)'
        <3>1. ToSet(Handed) = Content(old) /\ ToSet(c) = {x \in old + 1..new : script[x] = "content"}
            BY <1>6, <1>13, <2>1, <2>7
        <3> QED BY <1>4, <1>7, <2>2, <2>3, <3>1
    <2> QED BY <2>5, <2>6, <2>7 DEF ContentOK
<1>17. FlushOK'
    <2>1. seen_done => \E k \in 1..old : script[k] = "[DONE]"
        BY <1>0 DEF FlushOK
    <2>2. ASSUME seen_done' PROVE \E k \in 1..new : script[k] = "[DONE]"
        <3>1. CASE seen_done
            BY <1>4, <2>1, <3>1
        <3>2. CASE OfKinds(L, {"[DONE]"}) # <<>>
            <4> DEFINE d == OfKinds(L, {"[DONE]"})
            <4>1. d \in Seq(Items) /\ d # <<>> /\ ToSet(d) = {x \in ToSet(L) : x.kind = "[DONE]"}
                BY <1>12, <3>2
            <4> HIDE DEF d
            <4>2. 1 \in 1..Len(d)
                BY <4>1
            <4>3. d[1] \in ToSet(d)
                BY <4>1, <4>2, ToSetElements
            <4>4. d[1].line \in old + 1..new /\ script[d[1].line] = "[DONE]"
                BY <1>5, <4>1, <4>3
            <4> QED BY <1>4, <4>4
        <3> QED BY <1>1, <1>11, <2>2, <3>1, <3>2
    <2>3. received' \div 2 = new /\ script' = script /\ ~(done' \/ ended')
        BY <1>1
    <2>4. ri_done' => seen_done' /\ buffer' = <<>>
        BY <1>2
    <2> QED BY <2>2, <2>3, <2>4 DEF FlushOK
<1>18. ScanOK'
    <2> SUFFICES ASSUME HasScanner, ~truncated'
                 PROVE  ToSet(Shown') \subseteq scanned' /\ ToSet(buffer') \subseteq ToSet(text')
        BY DEF ScanOK
    <2>1. fed = text \o c /\ ToSet(Shown) \subseteq scanned /\ ToSet(buffer) \subseteq ToSet(text)
        BY <1>0, <1>1, <1>8, <1>10 DEF ScanOK
    <2>2. ToSet(fed) = ToSet(text) \cup ToSet(c)
        <3>1. text \in Seq(Lines)
            BY <1>0, <1>3, BoundedSeqIs DEF TypeOK
        <3> QED BY <1>6, <2>1, <3>1, ToSetConcat
    <2>3. ToSet(Handed') = ToSet(Shown) \cup ToSet(buffer) \cup ToSet(c)
        BY <1>7, <1>9
    <2>4. CASE seen_done' /\ ~ri_done
        <3>1. scanned \subseteq Lines /\ Scan(fed, w)
            BY <1>0, <1>2, <2>4 DEF TypeOK
        <3>2. scanned \subseteq scanned' /\ ToSet(fed) \subseteq scanned'
            BY <1>8, <3>1, ScanFacts
        <3>3. Shown' = Handed' /\ buffer' = <<>>
            BY <1>7, <2>4
        <3>4. ToSet(buffer') = {}
            BY <3>3 DEF ToSet
        <3>5. ToSet(Shown') \subseteq scanned'
            BY <2>1, <2>2, <2>3, <3>2, <3>3
        <3> QED BY <3>4, <3>5
    <2>5. CASE ~(seen_done' /\ ~ri_done)
        <3>1. Shown' = Shown /\ buffer' = buffer \o c /\ text' = fed /\ scanned' = scanned
            BY <1>2, <1>7, <2>5
        <3>2. ToSet(buffer \o c) = ToSet(buffer) \cup ToSet(c)
            BY <1>7, <1>9, ToSetConcat
        <3> QED BY <2>1, <2>2, <3>1, <3>2
    <2> QED BY <2>4, <2>5
<1>19. ASSUME ~garbled' PROVE ToSet(L) = {Item(l, script[l]) : l \in old + 1..new}
    BY <1>0, <1>1, <1>13, <1>19, NewLinesWhole DEF L
<1>20. RawOK'
    <2> SUFFICES ASSUME ~garbled', NEW x \in ToSet(out') PROVE x.kind # "garbage"
        BY DEF RawOK
    <2>1. ASSUME x \in ToSet(L) PROVE x.kind # "garbage"
        <3>1. PICK l \in old + 1..new : x = Item(l, script[l])
            BY <1>19, <2>1
        <3>2. script[l] \in Kinds
            BY <1>3, <1>4
        <3> QED BY <3>1, <3>2 DEF Item, Kinds
    <2> QED BY <1>0, <1>7, <1>13, <2>1 DEF RawOK
<1>21. DoneIsPassedOn'
    <2> SUFFICES ASSUME ~truncated', ~garbled', NEW k \in 1..new, script[k] = "[DONE]",
                        \A m \in 1..k - 1 : script[m] # "[DONE]"
                 PROVE  /\ DoneLine \in ToSet(out')
                        /\ \A m \in 1..k : script[m] = "content" => m \in ToSet(Shown')
        <3>1. received' \div 2 = new /\ script' = script
            BY <1>1
        <3> HIDE DEF new
        <3> QED BY <3>1 DEF DoneIsPassedOn, DoneLine, Item
    <2>1. ~truncated /\ ~garbled
        BY <1>1, <1>10, <1>13
    <2>2. CASE k <= old
        <3>1. /\ DoneLine \in ToSet(out)
              /\ \A m \in 1..k : script[m] = "content" => m \in ToSet(Shown)
            BY <1>0, <1>4, <2>1, <2>2 DEF DoneIsPassedOn
        <3> QED BY <1>7, <3>1
    <2>3. CASE k > old
        <3>1. Item(k, "[DONE]") \in ToSet(L)
            BY <1>4, <1>19, <2>3
        <3>2. Item(k, "[DONE]") \in ToSet(OfKinds(L, {"[DONE]"}))
            BY <1>12, <3>1 DEF Item
        <3>3. OfKinds(L, {"[DONE]"}) # <<>>
            BY <3>2 DEF ToSet
        <3>4. seen_done'
            BY <1>1, <1>11, <2>1, <3>3
        <3>5. ~ri_done
            <4>1. ri_done => \E m \in 1..old : script[m] = "[DONE]"
                BY <1>0, <1>1 DEF FlushOK
            <4> QED BY <1>4, <2>3, <4>1
        <3>6. DoneLine \in ToSet(out') /\ Shown' = Handed'
            BY <1>7, <3>4, <3>5
        <3>7. ToSet(Handed') = {x \in 1..new : script[x] = "content"}
            BY <1>1, <1>16 DEF ContentOK, Content
        <3> QED BY <1>4, <3>6, <3>7
    <2> QED BY <1>4, <2>2, <2>3
<1> QED BY <1>14, <1>15, <1>16, <1>17, <1>18, <1>20, <1>21 DEF StreamInv

(* So does the end of the body, which flushes what is held.                *)
LEMMA BodyEndInv == StreamInv /\ BodyEnd => StreamInv'
<1> SUFFICES ASSUME StreamInv, BodyEnd PROVE StreamInv'
    OBVIOUS
<1>0. TypeOK /\ PiecesOK /\ ContentOK /\ FlushOK /\ ScanOK /\ RawOK /\ DoneIsPassedOn
    BY DEF StreamInv
<1>1. PICK w \in Warnings :
        /\ IF ri_done THEN w = <<>> /\ text' = text /\ scanned' = scanned ELSE Scan(text, w)
        /\ out' = out \o (Flushed(buffer) \o w)
        /\ done' = (Flushed(buffer) \o w # <<>>)
        /\ ri_done' = (ri_done \/ Flushed(buffer) \o w # <<>>)
        /\ ended' = (Flushed(buffer) \o w = <<>>)
    BY DEF BodyEnd, Warnings
<1>2. /\ ~done /\ ~ended /\ buffer' = <<>>
      /\ script' = script /\ received' = received /\ midchar' = midchar /\ garbled' = garbled
      /\ carry' = carry /\ truncated' = truncated /\ seen_done' = seen_done
    BY DEF BodyEnd
<1>3. /\ Shown \in Seq(LineNumbers) /\ buffer \in Seq(LineNumbers) /\ Handed \in Seq(LineNumbers)
      /\ ToSet(Handed) = ToSet(Shown) \cup ToSet(buffer)
    BY <1>0, HandedType
<1>4. out \in Seq(Items) /\ buffer \in Seq(Lines) /\ text \in BoundedSeq(Lines, MaxText) /\ scanned \subseteq Lines
    BY <1>0 DEF TypeOK
<1>5. /\ w \in Seq(Items) /\ ContentOf(w) = <<>> /\ \A x \in ToSet(w) : x.kind # "garbage"
    <2>1. <<>> \in Seq(Items) /\ ToSet(<<>>) = {}
        BY DEF ToSet
    <2>2. ContentOf(<<>>) = <<>>
        BY <2>1, ContentOfNone
    <2>3. <<Warning>> \in Seq(Items) /\ ContentOf(<<Warning>>) = <<>> /\ \A x \in ToSet(<<Warning>>) : x.kind # "garbage"
        BY OneItem DEF Warning, Kinds
    <2> QED BY <2>1, <2>2, <2>3 DEF Warnings
<1>6. /\ Flushed(buffer) \in Seq(Items) /\ ContentOf(Flushed(buffer)) = buffer
      /\ \A x \in ToSet(Flushed(buffer)) : x.kind # "garbage"
    BY <1>4, FlushedContent
<1> DEFINE f == Flushed(buffer)
           r == f \o w
<1> HIDE DEF f
<1>7. /\ r \in Seq(Items) /\ ContentOf(r) = buffer /\ \A x \in ToSet(r) : x.kind # "garbage"
    <2>1. f \in Seq(Items) /\ ContentOf(f) = buffer /\ \A x \in ToSet(f) : x.kind # "garbage"
        BY <1>6 DEF f
    <2>2. ContentOf(r) = ContentOf(f) \o ContentOf(w) /\ ToSet(r) = ToSet(f) \cup ToSet(w) /\ r \in Seq(Items)
        <3>1. f \in Seq(Items) /\ w \in Seq(Items)
            BY <1>5, <2>1
        <3> QED BY <3>1, ContentOfConcat, ToSetConcat
    <2>3. buffer \o <<>> = buffer
        BY <1>3
    <2> HIDE DEF r
    <2> QED BY <1>5, <2>1, <2>2, <2>3
<1>8. out' = out \o r /\ done' = (r # <<>>) /\ ended' = (r = <<>>) /\ ri_done' = (ri_done \/ r # <<>>)
    BY <1>1 DEF f
<1> HIDE DEF r
<1>9. /\ out' \in Seq(Items) /\ ToSet(out') = ToSet(out) \cup ToSet(r)
      /\ ContentOf(out') = ContentOf(out) \o buffer
    <2>1. out \o r \in Seq(Items)
        BY <1>4, <1>7
    <2>2. ToSet(out \o r) = ToSet(out) \cup ToSet(r)
        BY <1>4, <1>7, ToSetConcat
    <2>3. ContentOf(out \o r) = ContentOf(out) \o ContentOf(r)
        BY <1>4, <1>7, ContentOfConcat
    <2> QED BY <1>7, <1>8, <2>1, <2>2, <2>3
<1>10. Shown' = Handed
    BY <1>9 DEF Shown, Handed
<1>11. Handed' = Handed
    <2>1. Handed' = Shown' \o buffer'
        BY DEF Handed
    <2>2. Handed \o <<>> = Handed
        BY <1>3
    <2> QED BY <1>2, <1>10, <2>1, <2>2
<1>12. ToSet(buffer') = {}
    BY <1>2 DEF ToSet
<1>13. text' \in BoundedSeq(Lines, MaxText) /\ scanned' \subseteq Lines
    <2>1. CASE ri_done
        BY <1>1, <1>4, <2>1
    <2>2. CASE ~ri_done
        <3>1. Scan(text, w)
            BY <1>1, <2>2
        <3> QED BY <1>4, <3>1, ScanFacts
    <2> QED BY <2>1, <2>2
<1>14. TypeOK'
    <2>1. buffer' \in Seq(Lines)
        BY <1>2
    <2>2. /\ script' \in BoundedSeq(Kinds, MaxLines) /\ received' \in 0..2 * Len(script')
          /\ midchar' \in BOOLEAN /\ garbled' \in BOOLEAN /\ carry' \in Seq(1..received')
          /\ truncated' \in BOOLEAN /\ seen_done' \in BOOLEAN
        BY <1>0, <1>2 DEF TypeOK
    <2>3. done' \in BOOLEAN /\ ended' \in BOOLEAN /\ ri_done' \in BOOLEAN
        BY <1>8
    <2> QED BY <1>9, <1>13, <2>1, <2>2, <2>3 DEF TypeOK
<1>15. PiecesOK'
    BY <1>0, <1>2 DEF PiecesOK
<1>16. Content(received \div 2)' = Content(received \div 2)
    BY <1>2 DEF Content
<1>17. ContentOK'
    BY <1>0, <1>2, <1>11, <1>16 DEF ContentOK
<1>18. FlushOK'
    BY <1>0, <1>2, <1>8 DEF FlushOK
<1>19. ScanOK'
    <2> SUFFICES ASSUME HasScanner, ~truncated PROVE ToSet(Shown') \subseteq scanned'
        BY <1>2, <1>12 DEF ScanOK
    <2>1. ToSet(Shown) \subseteq scanned /\ ToSet(buffer) \subseteq ToSet(text)
        BY <1>0 DEF ScanOK
    <2>2. CASE ri_done
        <3>1. buffer = <<>> /\ scanned' = scanned
            BY <1>0, <1>1, <1>2, <2>2 DEF FlushOK
        <3>2. ToSet(buffer) = {}
            BY <3>1 DEF ToSet
        <3> QED BY <1>3, <1>10, <2>1, <3>1, <3>2
    <2>3. CASE ~ri_done
        <3>1. Scan(text, w)
            BY <1>1, <2>3
        <3>2. scanned \subseteq scanned' /\ ToSet(text) \subseteq scanned'
            BY <1>4, <3>1, ScanFacts
        <3> QED BY <1>3, <1>10, <2>1, <3>2
    <2> QED BY <2>2, <2>3
<1>20. RawOK'
    BY <1>0, <1>2, <1>7, <1>9 DEF RawOK
<1>21. DoneIsPassedOn'
    <2>1. ToSet(out) \subseteq ToSet(out') /\ ToSet(Shown) \subseteq ToSet(Shown')
        BY <1>3, <1>9, <1>10
    <2>2. DoneLine' = DoneLine
        BY DEF DoneLine, Item
    <2> QED BY <1>0, <1>2, <2>1, <2>2 DEF DoneIsPassedOn
<1> QED BY <1>14, <1>15, <1>17, <1>18, <1>19, <1>20, <1>21 DEF StreamInv

(* The other steps touch neither the content nor the output.               *)
LEMMA OtherStepsInv ==
    ASSUME StreamInv, KeepAlive \/ Close \/ UNCHANGED vars PROVE StreamInv'
<1>0. TypeOK /\ PiecesOK /\ ContentOK /\ FlushOK /\ ScanOK /\ RawOK /\ DoneIsPassedOn
    BY DEF StreamInv
<1>1. /\ script' = script /\ received' = received /\ midchar' = midchar /\ garbled' = garbled
      /\ carry' = carry /\ buffer' = buffer /\ text' = text /\ truncated' = truncated
      /\ seen_done' = seen_done /\ scanned' = scanned /\ done' = done /\ out' = out
      /\ \/ ri_done' = FALSE /\ ended' = ended
         \/ ri_done' = ri_done /\ ended' = TRUE /\ done
         \/ ri_done' = ri_done /\ ended' = ended
    BY DEF KeepAlive, Close, vars
<1>2. Shown' = Shown /\ Handed' = Handed /\ DoneLine' = DoneLine
      /\ Content(received \div 2)' = Content(received \div 2)
    BY <1>1 DEF Shown, Handed, DoneLine, Item, Content
<1>3. TypeOK'
    BY <1>0, <1>1 DEF TypeOK
<1>4. PiecesOK' /\ ContentOK' /\ ScanOK' /\ RawOK'
    BY <1>0, <1>1, <1>2 DEF PiecesOK, ContentOK, ScanOK, RawOK
<1>5. FlushOK'
    BY <1>0, <1>1 DEF FlushOK
<1>6. DoneIsPassedOn'
    BY <1>0, <1>1, <1>2 DEF DoneIsPassedOn
<1> QED BY <1>3, <1>4, <1>5, <1>6 DEF StreamInv

(* What the client has so far is what the property says of it.             *)
LEMMA StreamInvIsWhole == StreamInv => StreamIsWhole
<1> SUFFICES ASSUME StreamInv PROVE StreamIsWhole
    OBVIOUS
<1>0. TypeOK /\ PiecesOK /\ ContentOK /\ FlushOK /\ ScanOK /\ RawOK /\ DoneIsPassedOn
    BY DEF StreamInv
<1>1. /\ Shown \in Seq(LineNumbers) /\ buffer \in Seq(LineNumbers) /\ Handed = Shown \o buffer
    BY <1>0, HandedType DEF Handed
<1>2. Ordered(Shown, Rising)
    <2>1. /\ Len(Handed) = Len(Shown) + Len(buffer) /\ Len(Shown) \in Nat /\ Len(buffer) \in Nat
          /\ \A i \in 1..Len(Shown) : Handed[i] = Shown[i]
        BY <1>1, ConcatElements
    <2>2. \A i \in 1..Len(Shown) : i \in 1..Len(Handed)
        BY <2>1
    <2> QED BY <1>0, <2>1, <2>2 DEF ContentOK, Ordered
<1>3. ContentOnce
    <2>1. DOMAIN Shown = 1..Len(Shown)
        BY <1>1
    <2>2. \A i, k \in 1..Len(Shown) : i < k => <<Shown[i], Shown[k]>> \in Rising
        BY <1>2 DEF Ordered
    <2>3. \A x, y : <<x, y>> \in Rising => x < y
        BY DEF Rising
    <2> QED BY <2>1, <2>2, <2>3 DEF ContentOnce
<1>4. NothingHeldBack
    <2> SUFFICES ASSUME ended, ~garbled PROVE Shown = ContentReceived
        BY DEF NothingHeldBack
    <2> DEFINE k == received \div 2
               C == {n \in 1..k : script[n] = "content"}
    <2>1. k \in Nat /\ 1..k \subseteq Int
        BY <1>0 DEF TypeOK
    <2>2. Handed = Shown
        <3>1. buffer = <<>>
            BY <1>0 DEF FlushOK
        <3>2. Shown \o <<>> = Shown
            BY <1>1
        <3> QED BY <1>1, <3>1, <3>2
    <2>3. ToSet(Shown) = C
        BY <1>0, <2>2 DEF ContentOK, Content
    <2>4. ContentReceived = Those(Upto(k), C)
        BY DEF ContentReceived
    <2>5. /\ Those(Upto(k), C) \in Seq((1..k) \cap C) /\ ToSet(Those(Upto(k), C)) = ToSet(Upto(k)) \cap C
          /\ Ordered(Those(Upto(k), C), Rising) /\ ToSet(Upto(k)) = 1..k
        <3>1. Upto(k) \in Seq(1..k) /\ Ordered(Upto(k), Rising) /\ ToSet(Upto(k)) = 1..k
            BY <2>1, UptoOrdered
        <3> HIDE DEF k, C
        <3> QED BY <3>1, ThoseElements, ThoseOrdered
    <2>6. C \subseteq 1..k
        OBVIOUS
    <2> DEFINE t == Those(Upto(k), C)
    <2> HIDE DEF C, k, t
    <2>7. ToSet(t) = C /\ Ordered(t, Rising) /\ t \in Seq((1..k) \cap C)
        BY <2>5, <2>6 DEF t
    <2>8. t \in Seq(Int) /\ Shown \in Seq(Int) /\ Int \subseteq Int
        <3>1. \A i \in 1..Len(t) : t[i] \in (1..k) \cap C
            BY <2>7, ElementsOf
        <3>2. \A i \in 1..Len(t) : t[i] \in Int
            BY <2>1, <3>1
        <3>3. \A i \in 1..Len(Shown) : Shown[i] \in Int
            <4>1. \A i \in 1..Len(Shown) : Shown[i] \in LineNumbers
                BY <1>1, ElementsOf
            <4> QED BY <4>1 DEF LineNumbers, Lines
        <3> QED BY <1>1, <2>7, <3>2, <3>3, ElementsOf
    <2>9. \A X : X \subseteq Int => (t \in Seq(X) /\ Shown \in Seq(X) => Shown = t)
        BY <1>2, <2>3, <2>7, RisingUnique
    <2>10. Shown = t
        BY <2>8, <2>9
    <2> QED BY <2>4, <2>10 DEF t
<1>5. ShownIsScanned
    BY <1>0 DEF ShownIsScanned, ScanOK
<1>6. NoRawLine
    <2> SUFFICES ASSUME ~garbled PROVE OfKinds(out, {"garbage"}) = <<>>
        BY DEF NoRawLine
    <2>1. out \in Seq(Items)
        BY <1>0 DEF TypeOK
    <2> DEFINE S == [line : Lines \cup {0}, kind : {"garbage"}]
    <2>2. \A x \in S : x.kind = "garbage"
        OBVIOUS
    <2>3. ToSet(out) \cap S = {}
        BY <1>0, <2>2 DEF RawOK
    <2> HIDE DEF S
    <2>4. Those(out, S) = <<>>
        BY <2>1, <2>3, ThoseOfOthers
    <2> QED BY <2>4 DEF OfKinds, S
<1> QED BY <1>0, <1>3, <1>4, <1>5, <1>6 DEF StreamIsWhole

(* Of every streamed response whose tokens are to be restored: the client  *)
(* gets all of it, each piece once, in its order and scanned, its end      *)
(* included, and no line unrestored, however it is cut into chunks.        *)
THEOREM StreamsAreWhole ==
    ASSUME HasMappings PROVE Spec => [](TypeOK /\ StreamIsWhole)
<1>1. Init => StreamInv
    BY StreamInitInv
<1>2. StreamInv /\ [Next]_vars => StreamInv'
    <2> SUFFICES ASSUME StreamInv, [Next]_vars PROVE StreamInv'
        OBVIOUS
    <2>1. CASE Frame
        <3>1. midchar \in BOOLEAN /\ garbled \in BOOLEAN
            BY DEF StreamInv, TypeOK
        <3>2. PICK n \in Nat, cut \in BOOLEAN, w \in Warnings : FrameBy(n, cut, w)
            BY <2>1, <3>1, StreamFrameIs
        <3> QED BY <3>2, FrameInv
    <2>2. CASE BodyEnd
        BY <2>2, BodyEndInv
    <2>3. CASE KeepAlive \/ Close \/ UNCHANGED vars
        BY <2>3, OtherStepsInv
    <2> QED BY <2>1, <2>2, <2>3 DEF Next
<1>3. StreamInv => TypeOK /\ StreamIsWhole
    BY StreamInvIsWhole DEF StreamInv
<1> QED BY <1>1, <1>2, <1>3, PTL DEF Spec
-----------------------------------------------------------------------------
(* Types of the stream.                                                    *)

(* What feed hands on at once, with and without mappings, is items.        *)
LEMMA PassedType ==
    ASSUME TypeOK, NEW n \in Nat, received + n <= 2 * Len(script), NEW L \in Seq(Items)
    PROVE  Passed(Chunk(n), L) \in Seq(Items)
<1>1. CASE HasMappings
    BY <1>1, OfKindsElements DEF Passed
<1>2. CASE ~HasMappings
    <2> DEFINE chunk == Chunk(n)
               T     == {p \in ToSet(chunk) : IsTail(p)}
               tails == Those(chunk, T)
    <2>1. script \in Seq(Kinds) /\ Len(script) \in 0..MaxLines /\ MaxLines \in Nat
        BY StreamAssumption, BoundedSeqIs DEF TypeOK
    <2>2. chunk \in Seq(1..2 * Len(script))
        <3> DEFINE P == 1..2 * Len(script)
        <3>1. chunk = [i \in 1..n |-> received + i] /\ \A i \in 1..n : received + i \in P
            BY <2>1 DEF TypeOK, Chunk
        <3> HIDE DEF chunk, P
        <3>2. chunk \in Seq(P)
            BY <3>1
        <3> QED BY <3>2 DEF P
    <2>3. Passed(chunk, L) = [k \in 1..Len(tails) |-> Item(LineOf(tails[k]), script[LineOf(tails[k])])]
        BY <1>2 DEF Passed
    <2> HIDE DEF chunk
    <2>4. tails \in Seq((1..2 * Len(script)) \cap T)
        <3> HIDE DEF T
        <3> QED BY <2>2, ThoseElements
    <2> HIDE DEF tails
    <2>5. ASSUME NEW k \in 1..Len(tails)
          PROVE  Item(LineOf(tails[k]), script[LineOf(tails[k])]) \in Items
        <3>1. tails[k] \in 1..2 * Len(script) /\ tails[k] % 2 = 0
            BY <2>4, ElementsOf DEF IsTail
        <3>2. LineOf(tails[k]) \in 1..Len(script)
            BY <2>1, <3>1 DEF LineOf
        <3>3. LineOf(tails[k]) \in Lines /\ script[LineOf(tails[k])] \in Kinds
            BY <2>1, <3>2, ElementsOf DEF Lines
        <3> QED BY <3>3, ItemFields DEF LineNumbers
    <2>6. Len(tails) \in Nat
        BY <2>4
    <2> QED BY <2>3, <2>5, <2>6 DEF chunk
<1> QED BY <1>1, <1>2

(* A warning is an item or none.                                           *)
LEMMA WarningsType ==
    ASSUME NEW w \in Warnings
    PROVE  w \in Seq(Items) /\ <<DoneLine>> \in Seq(Items)
<1>1. <<Warning>> \in Seq(Items)
    BY OneItem DEF Warning, Kinds
<1>2. <<DoneLine>> \in Seq(Items)
    BY OneItem DEF DoneLine, Kinds
<1>3. <<>> \in Seq(Items)
    OBVIOUS
<1> QED BY <1>1, <1>2, <1>3 DEF Warnings

(* The types of a stream rest on its pieces.                               *)
StreamTypes == TypeOK /\ PiecesOK

(* A data frame keeps the types, with and without mappings.                *)
LEMMA FrameTypes == StreamTypes /\ Frame => StreamTypes'
<1> SUFFICES ASSUME TypeOK, PiecesOK, Frame PROVE TypeOK' /\ PiecesOK'
    BY DEF StreamTypes
<1> DEFINE V(cut)     == ~midchar /\ ~cut
           L(n, cut)  == IF V(cut) THEN CompleteLines(carry \o Chunk(n)) ELSE <<>>
           H(n, cut)  == buffer \o ContentOf(L(n, cut))
           P(n, cut)  == Passed(Chunk(n), L(n, cut))
           A(n, cut)  ==
             /\ received + n <= 2 * Len(script)
             /\ received' = received + n
             /\ midchar' = cut
             /\ garbled' = (garbled \/ ~V(cut))
             /\ carry' = IF V(cut) THEN Trailing(carry \o Chunk(n)) ELSE carry
             /\ truncated' = Truncates(L(n, cut))
             /\ seen_done' = SeesDone(L(n, cut))
             /\ IF seen_done' /\ ~ri_done
                THEN /\ buffer' = <<>>
                     /\ ri_done' = TRUE
                     /\ \E warning \in Warnings :
                          /\ Scan(FeedText(L(n, cut)), warning)
                          /\ out' = out \o P(n, cut) \o Flushed(H(n, cut)) \o warning \o <<DoneLine>>
                ELSE /\ buffer' = H(n, cut)
                     /\ ri_done' = FALSE
                     /\ text' = FeedText(L(n, cut))
                     /\ out' = out \o P(n, cut)
                     /\ UNCHANGED scanned
<1>1. /\ ~done /\ ~ended /\ UNCHANGED <<script, done, ended>>
      /\ \E n \in 1..MaxPieces, cut \in BOOLEAN : A(n, cut)
    BY Zenon DEF Frame, Chunk, Warnings
<1>2. PICK n \in 1..MaxPieces, cut \in BOOLEAN : A(n, cut)
    BY <1>1
<1> DEFINE lines == NewLines(n, cut)
           fed   == FeedText(lines)
           held  == buffer \o ContentOf(lines)
           now   == Passed(Chunk(n), lines)
<1>3. n \in Nat /\ L(n, cut) = lines /\ carry \o Chunk(n) = Pieces(n)
    BY DEF NewLines, Pieces
<1>4. received + n <= 2 * Len(script) /\ received' = received + n /\ midchar' = cut
    BY <1>2
<1>5. garbled' = (garbled \/ midchar \/ cut)
    BY <1>2
<1>6. carry' = IF ~midchar /\ ~cut THEN Trailing(Pieces(n)) ELSE carry
    BY <1>2, <1>3
<1>7. truncated' = Truncates(lines) /\ seen_done' = SeesDone(lines)
    BY <1>2, <1>3
<1>8. \/ \E w \in Warnings : /\ buffer' = <<>> /\ ri_done' = TRUE /\ Scan(fed, w)
                             /\ out' = out \o now \o Flushed(held) \o w \o <<DoneLine>>
      \/ /\ buffer' = held /\ ri_done' = FALSE /\ text' = fed /\ scanned' = scanned
         /\ out' = out \o now
    BY <1>2, <1>3
<1> HIDE DEF A, L, H, P, V, lines, fed, held, now
<1>9. received \in Nat /\ Len(script) \in Nat
    BY StreamAssumption, BoundedSeqIs DEF TypeOK
<1>10. lines \in Seq(Items) /\ ContentOf(lines) \in Seq(Lines)
    BY <1>3, <1>4, NewLinesElements, NewContent DEF lines
<1>11. fed \in BoundedSeq(Lines, MaxText)
    BY <1>10, FeedTextType DEF fed
<1>12. now \in Seq(Items)
    BY <1>3, <1>4, <1>10, PassedType DEF now
<1>13. held \in Seq(Lines)
    BY <1>10 DEF held, TypeOK
<1>14. out \in Seq(Items) /\ scanned \subseteq Lines
    BY DEF TypeOK
<1>15. /\ out' \in Seq(Items) /\ buffer' \in Seq(Lines) /\ ri_done' \in BOOLEAN
       /\ text' \in BoundedSeq(Lines, MaxText) /\ scanned' \subseteq Lines
    <2>1. ASSUME NEW w \in Warnings, buffer' = <<>>, ri_done' = TRUE, Scan(fed, w),
                 out' = out \o now \o Flushed(held) \o w \o <<DoneLine>>
          PROVE  /\ out' \in Seq(Items) /\ buffer' \in Seq(Lines) /\ ri_done' \in BOOLEAN
                 /\ text' \in BoundedSeq(Lines, MaxText) /\ scanned' \subseteq Lines
        <3>1. text' \in BoundedSeq(Lines, MaxText) /\ scanned' \subseteq Lines
            BY <1>11, <1>14, <2>1, ScanFacts
        <3>2. Flushed(held) \in Seq(Items)
            BY <1>13, FlushedContent
        <3>3. w \in Seq(Items) /\ <<DoneLine>> \in Seq(Items)
            BY WarningsType
        <3>4. out \o now \in Seq(Items)
            BY <1>12, <1>14, ConcatElements
        <3> DEFINE f == Flushed(held)
                   d == <<DoneLine>>
                   a == out \o now
        <3> HIDE DEF f, d, a
        <3>5. a \o f \in Seq(Items)
            BY <3>2, <3>4, ConcatElements DEF a, f
        <3> DEFINE b == a \o f
        <3> HIDE DEF b
        <3>6. b \o w \in Seq(Items)
            BY <3>3, <3>5, ConcatElements DEF b
        <3> DEFINE e == b \o w
        <3> HIDE DEF e
        <3>7. e \o d \in Seq(Items)
            BY <3>3, <3>6, ConcatElements DEF d, e
        <3>8. out' \in Seq(Items)
            BY <2>1, <3>7 DEF a, b, d, e, f
        <3> QED BY <2>1, <3>1, <3>8
    <2>2. ASSUME buffer' = held, ri_done' = FALSE, text' = fed, scanned' = scanned, out' = out \o now
          PROVE  /\ out' \in Seq(Items) /\ buffer' \in Seq(Lines) /\ ri_done' \in BOOLEAN
                 /\ text' \in BoundedSeq(Lines, MaxText) /\ scanned' \subseteq Lines
        BY <1>11, <1>12, <1>13, <1>14, <2>2, ConcatElements
    <2> QED BY <1>8, <2>1, <2>2
<1>16. /\ carry' \in Seq(1..received + n) /\ \A i \in 1..Len(carry') : ~IsTail(carry'[i])
       /\ ~garbled /\ ~cut => carry' = IF IsTail(received + n) THEN <<>> ELSE <<received + n>>
    BY <1>3, <1>4, <1>6, CarriedOver
<1>17. TypeOK'
    <2>1. script' = script /\ done' = done /\ ended' = ended
        BY <1>1
    <2>2. received' \in 0..2 * Len(script')
        BY <1>3, <1>4, <1>9, <2>1
    <2>3. truncated' \in BOOLEAN /\ seen_done' \in BOOLEAN
        BY <1>7 DEF Truncates, SeesDone, TypeOK
    <2>4. midchar' \in BOOLEAN /\ garbled' \in BOOLEAN
        BY <1>4, <1>5
    <2> QED BY <1>4, <1>15, <1>16, <2>1, <2>2, <2>3, <2>4 DEF TypeOK
<1>18. PiecesOK'
    <2>1. ~garbled' => ~garbled /\ ~cut
        BY <1>5
    <2>2. midchar' => garbled'
        BY <1>4, <1>5
    <2> QED BY <1>4, <1>16, <2>1, <2>2 DEF PiecesOK
<1> QED BY <1>17, <1>18

(* The types of the stream, of every response.                             *)
LEMMA StreamTypesStep == StreamTypes /\ [Next]_vars => StreamTypes'
<1> SUFFICES ASSUME TypeOK, PiecesOK, [Next]_vars PROVE StreamTypes'
    BY DEF StreamTypes
<1>1. CASE Frame
    BY <1>1, FrameTypes DEF StreamTypes
<1>2. CASE BodyEnd
    <2>1. /\ buffer' = <<>>
          /\ UNCHANGED <<script, received, midchar, garbled, carry, truncated, seen_done>>
        BY <1>2 DEF BodyEnd
    <2>2. PICK w \in Warnings :
            /\ IF ri_done THEN w = <<>> /\ UNCHANGED <<text, scanned>> ELSE Scan(text, w)
            /\ out' = out \o (Flushed(buffer) \o w)
            /\ done' = (Flushed(buffer) \o w # <<>>)
            /\ ri_done' = (ri_done \/ Flushed(buffer) \o w # <<>>)
            /\ ended' = (Flushed(buffer) \o w = <<>>)
        BY <1>2 DEF BodyEnd, Warnings
    <2>3. text' \in BoundedSeq(Lines, MaxText) /\ scanned' \subseteq Lines
        BY <2>2, ScanFacts DEF TypeOK
    <2>4. Flushed(buffer) \in Seq(Items)
        BY FlushedContent DEF TypeOK
    <2>5. w \in Seq(Items)
        BY WarningsType
    <2> DEFINE r == Flushed(buffer) \o w
    <2>6. r \in Seq(Items)
        BY <2>4, <2>5, ConcatElements
    <2>7. /\ out' = out \o r /\ done' \in BOOLEAN /\ ri_done' \in BOOLEAN /\ ended' \in BOOLEAN
        BY <2>2
    <2> HIDE DEF r
    <2>8. out' \in Seq(Items)
        BY <2>6, <2>7, ConcatElements DEF TypeOK
    <2>9. TypeOK'
        BY <2>1, <2>3, <2>7, <2>8 DEF TypeOK
    <2>10. PiecesOK'
        BY <2>1 DEF PiecesOK
    <2> QED BY <2>9, <2>10 DEF StreamTypes
<1>3. CASE KeepAlive \/ Close \/ UNCHANGED vars
    <2>1. /\ script' = script /\ received' = received /\ midchar' = midchar /\ garbled' = garbled
          /\ carry' = carry /\ buffer' = buffer /\ text' = text /\ truncated' = truncated
          /\ seen_done' = seen_done /\ scanned' = scanned /\ done' = done /\ out' = out
          /\ ri_done' \in BOOLEAN /\ ended' \in BOOLEAN
        BY <1>3 DEF KeepAlive, Close, vars, TypeOK
    <2>2. TypeOK' /\ PiecesOK'
        BY <2>1 DEF TypeOK, PiecesOK
    <2> QED BY <2>2 DEF StreamTypes
<1> QED BY <1>1, <1>2, <1>3 DEF Next

-----------------------------------------------------------------------------
(* The types of everything TLC runs under one roof, for all values of the  *)
(* constants.  A behaviour is about one part, its subject; the invariant   *)
(* of that part holds, and of the others nothing is asked.                 *)
SubjectInv ==
    /\ subject = "stream" => StreamTypes
    /\ subject = "ner" => NerStepTypes
    /\ subject = "vote" => ScanTypes
    /\ subject = "walk" => ScanTypes
    /\ subject = "hook" => HookInv /\ HookTypes
    /\ subject = "integrity" => RiInv /\ RiTypes
    /\ subject = "tagger" => CrfInv /\ TagsOK
    /\ subject = "words" => DetInv /\ DetTypes
    /\ subject = "format" => FpeInv
    /\ subject = "text" => TextInv
    /\ subject = "faces" => FaceInv
    /\ subject = "media" => MediaTypes
    /\ subject = "fences" => PairInv /\ InText
    /\ subject = "offsets" => WordTypes
    /\ subject = "pieces" => TokenTypes
    /\ subject = "forward" => FwdInv /\ FwdLengths

LEMMA SubjectInvInit == DetectionInit => SubjectInv
<1> SUFFICES ASSUME DetectionInit PROVE SubjectInv
    OBVIOUS
<1>1. subject = "stream" => StreamTypes
    BY StreamInitInv DEF DetectionInit, StreamTypes, StreamInv
<1>2. subject = "vote" => ScanTypes
    <2> SUFFICES ASSUME ScanAtRest PROVE ScanTypes
        BY DEF DetectionInit
    <2>1. [nested |-> FALSE, cells |-> <<"x">>] \in BodyStrings
        BY DEF BodyStrings, Cells
    <2>2. /\ DOMAIN jsonBody = {1}
          /\ jsonBody \in Seq(Seq(BodyStrings))
        BY <2>1 DEF ScanAtRest
    <2>3. /\ at = [e \in DOMAIN jsonBody |-> 1]
          /\ hits = [e \in DOMAIN jsonBody |-> <<>>]
        BY <2>2 DEF ScanAtRest
    <2> QED BY <2>2, <2>3, UnscannedTypes DEF ScanAtRest
<1>3. subject = "ner" => NerStepTypes
    BY NerTypesInit DEF DetectionInit
<1>4. subject = "walk" => ScanTypes
    BY ScanTypesInit DEF DetectionInit
<1>5. subject = "hook" => HookInv /\ HookTypes
    BY HookTypesInit DEF DetectionInit
<1>6. subject = "integrity" => RiInv /\ RiTypes
    BY RiTypesInit DEF DetectionInit
<1>7. subject = "tagger" => CrfInv /\ TagsOK
    BY CrfTypesInit DEF DetectionInit
<1>8. subject = "words" => DetInv /\ DetTypes
    BY DetTypesInit DEF DetectionInit
<1>9. subject = "format" => FpeInv
    BY FpeInvInit DEF DetectionInit
<1>10. subject = "text" => TextInv
    BY TextInit DEF DetectionInit
<1>11. subject = "faces" => FaceInv
    BY FaceInitInv DEF DetectionInit
<1>12. subject = "media" => MediaTypes
    BY MediaTypesInit DEF DetectionInit
<1>13. subject = "fences" => PairInv /\ InText
    BY FenceTypesInit DEF DetectionInit
<1>14. subject = "offsets" => WordTypes
    BY WordTypesInit DEF DetectionInit
<1>15. subject = "pieces" => TokenTypes
    BY TokenTypesInit DEF DetectionInit
<1>16. subject = "forward" => FwdInv /\ FwdLengths
    BY FwdTypesInit DEF DetectionInit
<1> QED BY <1>1, <1>2, <1>3, <1>4, <1>5, <1>6, <1>7, <1>8, <1>9, <1>10, <1>11, <1>12, <1>13, <1>14, <1>15, <1>16 DEF SubjectInv

LEMMA SubjectInvNext == SubjectInv /\ [DetectionNext]_detectionVars => SubjectInv'
<1> SUFFICES ASSUME SubjectInv, [DetectionNext]_detectionVars PROVE SubjectInv'
    OBVIOUS
<1>1. CASE Only("stream") /\ Next
    <2>1. subject = "stream" /\ subject' = "stream"
        BY <1>1 DEF Only
    <2>2. StreamTypes'
        BY <1>1, <2>1, StreamTypesStep DEF SubjectInv
    <2> QED BY <2>1, <2>2 DEF SubjectInv
<1>2. CASE Only("ner") /\ NerNext
    <2>1. subject = "ner" /\ subject' = "ner"
        BY <1>2 DEF Only
    <2>2. NerStepTypes'
        BY <1>2, <2>1, NerTypesStep DEF SubjectInv
    <2> QED BY <2>1, <2>2 DEF SubjectInv
<1>3. CASE Only("vote") /\ (RunEngine \/ Vote)
    <2>1. subject = "vote" /\ subject' = "vote"
        BY <1>3 DEF Only
    <2>2. ScanTypes'
        BY <1>3, <2>1, ScanTypesStep DEF SubjectInv, ScanNext
    <2> QED BY <2>1, <2>2 DEF SubjectInv
<1>4. CASE Only("walk") /\ \E e \in DOMAIN jsonBody : ScanString(e)
    <2>1. subject = "walk" /\ subject' = "walk"
        BY <1>4 DEF Only
    <2>2. ScanTypes'
        BY <1>4, <2>1, ScanTypesStep DEF SubjectInv, ScanNext
    <2> QED BY <2>1, <2>2 DEF SubjectInv
<1>5. CASE Only("hook") /\ HookNext
    <2>1. subject = "hook" /\ subject' = "hook"
        BY <1>5 DEF Only
    <2>2. HookInv' /\ HookTypes'
        BY <1>5, <2>1, HookTypesStep DEF SubjectInv
    <2> QED BY <2>1, <2>2 DEF SubjectInv
<1>6. CASE Only("integrity") /\ RiNext
    <2>1. subject = "integrity" /\ subject' = "integrity"
        BY <1>6 DEF Only
    <2>2. RiInv' /\ RiTypes'
        BY <1>6, <2>1, RiTypesStep DEF SubjectInv
    <2> QED BY <2>1, <2>2 DEF SubjectInv
<1>7. CASE Only("tagger") /\ CrfNext
    <2>1. subject = "tagger" /\ subject' = "tagger"
        BY <1>7 DEF Only
    <2>2. CrfInv' /\ TagsOK'
        BY <1>7, <2>1, CrfTypesStep DEF SubjectInv
    <2> QED BY <2>1, <2>2 DEF SubjectInv
<1>8. CASE Only("words") /\ DetNext
    <2>1. subject = "words" /\ subject' = "words"
        BY <1>8 DEF Only
    <2>2. DetInv' /\ DetTypes'
        BY <1>8, <2>1, DetTypesStep DEF SubjectInv
    <2> QED BY <2>1, <2>2 DEF SubjectInv
<1>9. CASE Only("format") /\ FpeNext
    <2>1. subject = "format" /\ subject' = "format"
        BY <1>9 DEF Only
    <2>2. FpeInv'
        BY <1>9, <2>1, FpeInvNext DEF SubjectInv
    <2> QED BY <2>1, <2>2 DEF SubjectInv
<1>10. CASE Only("text") /\ OcrNext
    <2>1. subject = "text" /\ subject' = "text"
        BY <1>10 DEF Only
    <2>2. TextInv'
        BY <1>10, <2>1, TextStep DEF SubjectInv
    <2> QED BY <2>1, <2>2 DEF SubjectInv
<1>11. CASE Only("faces") /\ FaceNext
    <2>1. subject = "faces" /\ subject' = "faces"
        BY <1>11 DEF Only
    <2>2. FaceInv'
        BY <1>11, <2>1, FaceStepInv DEF SubjectInv
    <2> QED BY <2>1, <2>2 DEF SubjectInv
<1>12. CASE Only("media") /\ MediaNext
    <2>1. subject = "media" /\ subject' = "media"
        BY <1>12 DEF Only
    <2>2. MediaTypes'
        BY <1>12, <2>1, MediaTypesStep DEF SubjectInv
    <2> QED BY <2>1, <2>2 DEF SubjectInv
<1>13. CASE Only("fences") /\ FenceNext
    <2>1. subject = "fences" /\ subject' = "fences"
        BY <1>13 DEF Only
    <2>2. PairInv' /\ InText'
        BY <1>13, <2>1, FenceTypesStep DEF SubjectInv
    <2> QED BY <2>1, <2>2 DEF SubjectInv
<1>14. CASE Only("offsets") /\ WordNext
    <2>1. subject = "offsets" /\ subject' = "offsets"
        BY <1>14 DEF Only
    <2>2. WordTypes'
        BY <1>14, <2>1, WordTypesStep DEF SubjectInv
    <2> QED BY <2>1, <2>2 DEF SubjectInv
<1>15. CASE Only("pieces") /\ TokenNext
    <2>1. subject = "pieces" /\ subject' = "pieces"
        BY <1>15 DEF Only
    <2>2. TokenTypes'
        BY <1>15, <2>1, TokenTypesStep DEF SubjectInv
    <2> QED BY <2>1, <2>2 DEF SubjectInv
<1>16. CASE Only("forward") /\ ForwardNext
    <2>1. subject = "forward" /\ subject' = "forward"
        BY <1>16 DEF Only
    <2>2. FwdInv' /\ FwdLengths'
        BY <1>16, <2>1, FwdTypesStep DEF SubjectInv
    <2> QED BY <2>1, <2>2 DEF SubjectInv
<1>17. CASE UNCHANGED detectionVars
    <2>1. ASSUME subject = "stream" PROVE StreamTypes'
        BY <1>17, <2>1, StreamTypesStep DEF SubjectInv, detectionVars
    <2>2. ASSUME subject = "ner" PROVE NerStepTypes'
        BY <1>17, <2>2, NerTypesStep DEF SubjectInv, detectionVars
    <2>3. ASSUME subject \in {"vote", "walk"} PROVE ScanTypes'
        BY <1>17, <2>3, ScanTypesStep DEF SubjectInv, detectionVars, voteVars, walkVars, scanVars
    <2>4. ASSUME subject = "hook" PROVE HookInv' /\ HookTypes'
        BY <1>17, <2>4, HookTypesStep DEF SubjectInv, detectionVars
    <2>5. ASSUME subject = "integrity" PROVE RiInv' /\ RiTypes'
        BY <1>17, <2>5, RiTypesStep DEF SubjectInv, detectionVars
    <2>6. ASSUME subject = "tagger" PROVE CrfInv' /\ TagsOK'
        BY <1>17, <2>6, CrfTypesStep DEF SubjectInv, detectionVars
    <2>7. ASSUME subject = "words" PROVE DetInv' /\ DetTypes'
        BY <1>17, <2>7, DetTypesStep DEF SubjectInv, detectionVars
    <2>8. ASSUME subject = "format" PROVE FpeInv'
        BY <1>17, <2>8, FpeInvNext DEF SubjectInv, detectionVars
    <2>9. ASSUME subject = "text" PROVE TextInv'
        BY <1>17, <2>9, TextStep DEF SubjectInv, detectionVars
    <2>10. ASSUME subject = "faces" PROVE FaceInv'
        BY <1>17, <2>10, FaceStepInv DEF SubjectInv, detectionVars
    <2>11. ASSUME subject = "media" PROVE MediaTypes'
        BY <1>17, <2>11, MediaTypesStep DEF SubjectInv, detectionVars
    <2>12. ASSUME subject = "fences" PROVE PairInv' /\ InText'
        BY <1>17, <2>12, FenceTypesStep DEF SubjectInv, detectionVars
    <2>13. ASSUME subject = "offsets" PROVE WordTypes'
        BY <1>17, <2>13, WordTypesStep DEF SubjectInv, detectionVars
    <2>14. ASSUME subject = "pieces" PROVE TokenTypes'
        BY <1>17, <2>14, TokenTypesStep DEF SubjectInv, detectionVars
    <2>15. ASSUME subject = "forward" PROVE FwdInv' /\ FwdLengths'
        BY <1>17, <2>15, FwdTypesStep DEF SubjectInv, detectionVars
    <2>16. subject' = subject
        BY <1>17 DEF detectionVars
    <2> QED BY <2>1, <2>2, <2>3, <2>4, <2>5, <2>6, <2>7, <2>8, <2>9, <2>10, <2>11, <2>12, <2>13, <2>14, <2>15, <2>16 DEF SubjectInv
<1> QED BY <1>1, <1>2, <1>3, <1>4, <1>5, <1>6, <1>7, <1>8, <1>9, <1>10, <1>11, <1>12, <1>13, <1>14, <1>15, <1>16, <1>17 DEF DetectionNext

LEMMA SubjectInvTypes == SubjectInv => DetectionTypeOK
<1> SUFFICES ASSUME SubjectInv PROVE DetectionTypeOK
    OBVIOUS
<1>1. subject = "stream" => TypeOK
    BY DEF StreamTypes, SubjectInv
<1>2. subject = "ner" => NerTypeOK
    BY DEF NerStepTypes, SubjectInv
<1>3. subject = "vote" => ScanTypeOK
    BY DEF ScanTypes, SubjectInv
<1>4. subject = "walk" => ScanTypeOK
    BY DEF ScanTypes, SubjectInv
<1>5. subject = "hook" => HookTypeOK
    BY HookTypesHold DEF SubjectInv
<1>6. subject = "integrity" => RiTypeOK
    BY RiTypesHold DEF SubjectInv
<1>7. subject = "tagger" => CrfTypeOK
    BY CrfTypesHold DEF SubjectInv
<1>8. subject = "words" => DetTypeOK
    BY DetTypesHold DEF SubjectInv
<1>9. subject = "format" => FpeTypeOK
    BY FpeInvTells DEF SubjectInv
<1>10. subject = "text" => OcrTypeOK
    BY TextInvHolds DEF SubjectInv
<1>11. subject = "faces" => FaceTypeOK
    BY FaceInvTypes DEF SubjectInv
<1>12. subject = "media" => MediaTypeOK
    BY MediaTypesMean DEF SubjectInv
<1>13. subject = "fences" => FenceTypeOK
    BY FenceTypesHold DEF SubjectInv
<1>14. subject = "offsets" => WordTypeOK
    BY DEF WordTypes, SubjectInv
<1>15. subject = "pieces" => TokenTypeOK
    BY TokenTypesMean DEF SubjectInv
<1>16. subject = "forward" => ForwardTypeOK
    BY FwdTypesHold DEF SubjectInv
<1> QED BY <1>1, <1>2, <1>3, <1>4, <1>5, <1>6, <1>7, <1>8, <1>9, <1>10, <1>11, <1>12, <1>13, <1>14, <1>15, <1>16 DEF DetectionTypeOK

(* Every part the detection run drives keeps its types: what it reads from *)
(* a response, a model, a picture or a body, and what it makes of it, is   *)
(* of the form the next step relies on, in every one of its states.        *)
THEOREM DetectionTypeCorrect == DetectionSpec => []DetectionTypeOK
<1>1. DetectionInit => SubjectInv
    BY SubjectInvInit
<1>2. SubjectInv /\ [DetectionNext]_detectionVars => SubjectInv'
    BY SubjectInvNext
<1>3. SubjectInv => DetectionTypeOK
    BY SubjectInvTypes
<1> QED BY <1>1, <1>2, <1>3, PTL DEF DetectionSpec
=============================================================================
