--------------------------- MODULE HybridScanner ---------------------------
(***************************************************************************)
(* HybridScanner of hybrid_scanner.rs: scan_text runs its engines on a     *)
(* text, its code blanked (CodeFences), and lets them vote; scan_json walks*)
(* the strings of a body, the entries of its top level in parallel, and    *)
(* looks into strings that hold JSON themselves.                           *)
(*                                                                         *)
(* A text that is scanned is what the engines find in it: each one nothing *)
(* or a span.  Confidences are hundredths.  A string of a body is a        *)
(* sequence of cells: PII values, plain ones, and an escaped newline, whose*)
(* letter n hides a value right behind it from the scan of the raw string. *)
(***************************************************************************)
EXTENDS Integers, Sequences, SequencesExt, Selection, CodeFences

CONSTANTS
    Spans,          \* spans <<begin, end>> the engines may find
    Scores,         \* confidences of the semantic engine
    MinConfidence,  \* min_confidence (50)
    Bonus,          \* agreement_bonus (15)
    Bodies          \* bodies to scan: per entry the strings under it

ASSUME VoteAssumption ==
    /\ \A s \in Spans : s \in Nat \X Nat /\ s[1] < s[2]
    /\ Scores \subseteq 1..100
    /\ MinConfidence \in 0..100
    /\ Bonus \in 0..100

VARIABLES
    engine,    \* the next engine to run, then "vote", then "voted"
    tagged,    \* the matches so far, in the order the engines add them
    results,   \* what scan_text returns
    jsonBody,  \* the body: a sequence of entries, each a sequence of strings
    at,        \* per entry: the string its thread scans next
    hits       \* per entry: its vector of matches, <<string, cell, value>>

voteVars == <<engine, tagged, results>>
walkVars == <<jsonBody, at, hits>>
scanVars == <<engine, tagged, results, jsonBody, at, hits>>

Engines == <<"regex", "keyword", "gazetteer", "semantic", "multilingual", "vote", "voted">>
PiiTypes == {"number", "health", "person"}
Sources == {"Regex", "Keyword", "Gazetteer", "Semantic"}
Match == [span : Spans, type : PiiTypes, source : Sources, score : 1..100]

Cells == {"p", "q", "x", "n"}    \* two PII values, a plain one, the escape
Values == {"p", "q"}

ASSUME BodyAssumption == Bodies \subseteq Seq(Seq([nested : BOOLEAN, cells : Seq(Cells)]))

ScanTypeOK ==
    /\ engine \in ToSet(Engines)
    /\ tagged \in Seq(Match)
    /\ results \subseteq Match
    /\ \A e \in DOMAIN jsonBody :
         jsonBody[e] \in Seq([nested : BOOLEAN, cells : Seq(Cells)])
    /\ at \in [DOMAIN jsonBody -> Nat]
    /\ \A e \in DOMAIN jsonBody : hits[e] \in Seq(Nat \X Nat \X Values)

ScanInit ==
    /\ engine = "regex" /\ tagged = <<>> /\ results = {}
    /\ jsonBody \in Bodies
    /\ at = [e \in DOMAIN jsonBody |-> 1]
    /\ hits = [e \in DOMAIN jsonBody |-> <<>>]

-----------------------------------------------------------------------------
(* scan_text_with_timing.                                                  *)

After(e) == Engines[1 + CHOOSE i \in DOMAIN Engines : Engines[i] = e]

(* An engine finds a span, or nothing; one that is switched off, has no    *)
(* free session or fails finds nothing.  The language patterns count as    *)
(* regexes.                                                                *)
Finds(m) == tagged' = Append(tagged, m)

Found(span, type, source, score) ==
    [span |-> span, type |-> type, source |-> source, score |-> score]

RunEngine ==
    /\ engine \in {"regex", "keyword", "gazetteer", "semantic", "multilingual"}
    /\ \/ UNCHANGED tagged
       \/ \E s \in Spans :
            \/ engine \in {"regex", "multilingual"} /\ Finds(Found(s, "number", "Regex", 100))
            \/ engine = "keyword" /\ Finds(Found(s, "health", "Keyword", 100))
            \/ engine = "gazetteer" /\ \E c \in {40, 70} :
                 Finds(Found(s, "person", "Gazetteer", c))
            \/ engine = "semantic" /\ \E t \in {"person", "health"}, c \in Scores :
                 Finds(Found(s, t, "Semantic", c))
    /\ engine' = After(engine)
    /\ UNCHANGED results /\ UNCHANGED walkVars

Overlap2(m, n) == m.span[1] < n.span[2] /\ n.span[1] < m.span[2]
Indices == DOMAIN tagged

(* cluster_overlapping: the components of the overlap relation.            *)
Clusters ==
    LET touch == [i \in Indices |-> {j \in Indices : Overlap2(tagged[i], tagged[j])}]
        reach[n \in 0..Len(tagged)] ==
          IF n = 0 THEN touch
          ELSE LET r == reach[n - 1] IN [i \in Indices |-> UNION {touch[j] : j \in r[i]}]
    IN  LET r == reach[Len(tagged)] IN {r[i] : i \in Indices}

OfType(cluster, t) == {i \in cluster : tagged[i].type = t}
Agreed(cluster, t) == Cardinality({tagged[i].source : i \in OfType(cluster, t)}) >= 2

\* Mutant: a type is represented by its first match.
FirstOf(cluster, t) == Min(OfType(cluster, t))

\* The first of the best matches of a type.
BestOf(cluster, t) ==
    LET ofType == OfType(cluster, t)
    IN  Min({i \in ofType : \A j \in ofType : tagged[j].score <= tagged[i].score})

Adjusted(cluster, t) ==
    LET best == tagged[BestOf(cluster, t)]
    IN  [best EXCEPT !.score = IF Agreed(cluster, t) THEN Min({@ + Bonus, 100}) ELSE @]

(* resolve_cluster: a winner.  Between types that tie, the order of a      *)
(* HashMap decides.                                                        *)
Winners(cluster) ==
    LET best == {Adjusted(cluster, tagged[i].type) : i \in cluster}
    IN  {m \in best : \A n \in best : n.score <= m.score}

(* One winner of each cluster, unless it is too weak.                      *)
Vote ==
    /\ engine = "vote"
    /\ LET clusters == Clusters IN
       \E winner \in [clusters -> UNION {Winners(c) : c \in clusters}] :
         /\ \A c \in clusters : winner[c] \in Winners(c)
         /\ results' = {m \in {winner[c] : c \in clusters} : m.score >= MinConfidence}
    /\ engine' = "voted"
    /\ UNCHANGED tagged /\ UNCHANGED walkVars

-----------------------------------------------------------------------------
(* scan_json.  A string that holds JSON is one of the kind "nested"; the   *)
(* quotes and braces around its text are left out.                         *)

RawSees(s, i) == s.cells[i] \in Values /\ (i = 1 \/ s.cells[i - 1] # "n")

\* s.find(&raw_value): the first place of the value in the string.
FirstPlace(s, v) == Min({i \in DOMAIN s.cells : s.cells[i] = v})

(* Only if nothing in the vector, of whichever string, is at this place.   *)
AddUnlessTaken(vector, k, place, v) ==
    IF \E h \in ToSet(vector) : h[2] = place THEN vector
    ELSE Append(vector, <<k, place, v>>)

HitsIn(s, k, vector) ==
    LET raw  == Those([i \in 1..Len(s.cells) |-> i], {i \in DOMAIN s.cells : RawSees(s, i)})
        seen == vector \o [i \in 1..Len(raw) |-> <<k, raw[i], s.cells[raw[i]]>>]
        nested[n \in 0..Len(s.cells)] ==
          IF n = 0 THEN seen
          ELSE IF s.cells[n] \in Values
          THEN AddUnlessTaken(nested[n - 1], k, FirstPlace(s, s.cells[n]), s.cells[n])
          ELSE nested[n - 1]
    IN  IF s.nested THEN nested[Len(s.cells)] ELSE seen

(* The thread of an entry scans its next string.                           *)
ScanString(e) ==
    /\ at[e] <= Len(jsonBody[e])
    /\ hits' = [hits EXCEPT ![e] = HitsIn(jsonBody[e][at[e]], at[e], @)]
    /\ at' = [at EXCEPT ![e] = @ + 1]
    /\ UNCHANGED jsonBody /\ UNCHANGED voteVars

ScanNext ==
    \/ RunEngine \/ Vote
    \/ \E e \in DOMAIN jsonBody : ScanString(e)

ScanSpec == ScanInit /\ [][ScanNext]_scanVars
-----------------------------------------------------------------------------
(* The spans that are masked do not overlap, whatever the engines found:   *)
(* the replacement by offsets relies on it.                                *)
ResultsDisjoint == \A m, n \in results : m = n \/ ~Overlap2(m, n)

(* A finding that is strong enough on its own is answered: some match of   *)
(* its cluster at least as strong is masked.                               *)
StrongIsAnswered ==
    engine = "voted" =>
      \A c \in Clusters : \A i \in c :
        tagged[i].score >= MinConfidence =>
          \E m \in results : m.score >= tagged[i].score
                             /\ \E j \in c : m.span = tagged[j].span

Scanned(e) == at[e] > Len(jsonBody[e])

\* The value of a cell is found at the place of the cell.
FoundAt(e, k, i) == \E h \in ToSet(hits[e]) : h = <<k, i, jsonBody[e][k].cells[i]>>

(* PII inside nested JSON is found where it is, when the entry holds no    *)
(* other string and the value occurs once.                                 *)
LoneNestedIsFound ==
    \A e \in DOMAIN jsonBody :
      Scanned(e) /\ Len(jsonBody[e]) = 1 /\ jsonBody[e][1].nested =>
        LET s == jsonBody[e][1].cells
        IN  \A i \in DOMAIN s :
              s[i] \in Values /\ (\A j \in DOMAIN s : s[j] = s[i] => j = i)
              => FoundAt(e, 1, i)

(* What is to be scanned reaches the engines, and what they find is        *)
(* answered: by the vote, and from within nested JSON.                     *)
FindingsAreAnswered ==
    ProseStaysVisible /\ ResultsDisjoint /\ StrongIsAnswered /\ LoneNestedIsFound
=============================================================================
