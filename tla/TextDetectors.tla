--------------------------- MODULE TextDetectors ---------------------------
(***************************************************************************)
(* The detectors that need no model: the patterns and their removal of     *)
(* overlaps (scanner.rs), those of the other languages (multilingual), the *)
(* keyword dictionary and the gazetteer of names.  A sentence is a         *)
(* sequence of words; a match covers positions from..to - 1.               *)
(***************************************************************************)
EXTENDS Integers, Sequences, FiniteSets, SequencesExt

CONSTANTS
    Terms,       \* the keyword dictionary: sequences of words
    FirstNames,  \* words that are first names
    Surnames,    \* words that are surnames
    Lexicon,     \* all words
    MaxSentence, \* bound: words of a sentence
    MaxHits,     \* bound: matches of the patterns in a text
    Extent    \* bound: characters of a text the patterns match in

VARIABLES
    sentence,    \* what the dictionaries look at
    keywords,    \* matches of the keyword dictionary
    names,       \* matches of the gazetteer, and the confidence of each
    patternHits, \* what find_iter and the validators let through
    kept,        \* what PiiScanner returns
    langKept,    \* what scan_with_lang returns of the same hits
    detStep      \* which detector runs next

detVars == <<sentence, keywords, names, patternHits, kept, langKept, detStep>>

\* Words per term in the two tables: one entry in 626 can never match, as
\* the words of "c. diff" are never joined by a dot and a space.
HealthTermLengths == 1..3
ChildTermLengths  == 1..3

ASSUME TermAssumption ==
    /\ \A t \in Terms : Len(t) \in HealthTermLengths \cup ChildTermLengths
    /\ FirstNames \cup Surnames \subseteq Lexicon
    /\ MaxSentence \in Nat /\ MaxHits \in Nat /\ Extent \in Nat

Span(i, j)    == [from |-> i, to |-> j]
Touch(m, n)   == m.from < n.to /\ n.from < m.to
LengthOf(m)   == m.to - m.from
FreeOf(ms, m) == \A n \in ms : ~Touch(m, n)

DetTypeOK ==
    /\ \A m \in keywords \cup {[from |-> n.from, to |-> n.to] : n \in names} :
         m.from < m.to /\ m.to <= Len(sentence) + 1
    /\ kept \subseteq ToSet(patternHits)
    /\ langKept \subseteq ToSet(patternHits)
    /\ detStep \in {"keywords", "names", "patterns", "languages", "done"}

-----------------------------------------------------------------------------
(* KeywordDict::scan_text.                                                 *)
Windows(n) ==
    {Span(i, i + n) : i \in {k \in 1..Len(sentence) - n + 1 :
                               SubSeq(sentence, k, k + n - 1) \in Terms}}
ScanKeywords ==
    /\ detStep = "keywords"
    /\ LET three == Windows(3)
           two[i \in 0..Len(sentence)] ==
             IF i = 0 THEN three
             ELSE two[i - 1] \cup {m \in Windows(2) : m.from = i /\ FreeOf(two[i - 1], m)}
           more == two[Len(sentence)]
       IN  keywords' = more \cup {m \in Windows(1) : FreeOf(more, m)}
    /\ detStep' = "names"
    /\ UNCHANGED <<sentence, names, patternHits, kept, langKept>>

FullNames ==
    {Span(i, i + 2) : i \in {k \in 1..Len(sentence) - 1 :
                               sentence[k] \in FirstNames /\ sentence[k + 1] \in Surnames}}
LoneNames ==
    {Span(i, i + 1) : i \in {k \in 1..Len(sentence) : sentence[k] \in FirstNames \cup Surnames}}
AtConfidence(c, ms) == {[from |-> m.from, to |-> m.to, confidence |-> c] : m \in ms}

\* Mutant: a name next to a full name counts as part of it.
ScanNamesLoose ==
    /\ detStep = "names"
    /\ names' = AtConfidence(70, FullNames) \cup
                AtConfidence(40, {m \in LoneNames :
                                    \A n \in FullNames : m.from > n.to \/ n.from > m.to})
    /\ detStep' = "done"
    /\ UNCHANGED <<sentence, keywords, patternHits, kept, langKept>>

(* NameGazetteer::scan_text: pairs may overlap each other.                 *)
ScanNames ==
    /\ detStep = "names"
    /\ names' = AtConfidence(70, FullNames)
                \cup AtConfidence(40, {m \in LoneNames : FreeOf(FullNames, m)})
    /\ detStep' = "done"
    /\ UNCHANGED <<sentence, keywords, patternHits, kept, langKept>>

-----------------------------------------------------------------------------
\* By start, the longer first; equal matches stay in the order of patterns.
Precedes(m, n) == m.from < n.from \/ (m.from = n.from /\ m.to > n.to)
GoesBehind(k, m, ms) ==
    /\ \A j \in 1..k : ~Precedes(m, ms[j])
    /\ k < Len(ms) => Precedes(m, ms[k + 1])
PlaceFor(m, ms) == CHOOSE k \in 0..Len(ms) : GoesBehind(k, m, ms)
Sorted(ms) ==
    LET sorted[i \in 0..Len(ms)] ==
          IF i = 0 THEN <<>>
          ELSE InsertAt(sorted[i - 1], PlaceFor(ms[i], sorted[i - 1]) + 1, ms[i])
    IN  sorted[Len(ms)]

(* PiiScanner::scan_text: each match that begins behind the last one kept. *)
KeepFirst(ms) ==
    LET go[i \in 0..Len(ms)] ==
          IF i = 0 THEN [last |-> 0, kept |-> {}]
          ELSE IF ms[i].from >= go[i - 1].last
               THEN [last |-> ms[i].to, kept |-> go[i - 1].kept \cup {ms[i]}]
               ELSE go[i - 1]
    IN  go[Len(ms)].kept

Deduplicate ==
    /\ detStep = "patterns"
    /\ kept' = KeepFirst(Sorted(patternHits))
    /\ detStep' = "languages"
    /\ UNCHANGED <<sentence, keywords, names, patternHits, langKept>>

(* dedup_overlapping: each match is held against the one before it only,   *)
(* and not at all when that one was dropped.                               *)
KeepLonger(ms) ==
    LET keep[i \in 1..Len(ms)] ==   \* the indices still kept after step i
          IF i = 1 THEN 1..Len(ms)
          ELSE IF ms[i].from < ms[i - 1].to /\ i - 1 \in keep[i - 1]
               THEN keep[i - 1] \ {IF LengthOf(ms[i]) > LengthOf(ms[i - 1]) THEN i - 1 ELSE i}
               ELSE keep[i - 1]
    IN  IF ms = <<>> THEN {} ELSE {ms[i] : i \in keep[Len(ms)]}

DedupOverlapping ==
    /\ detStep = "languages"
    /\ langKept' = KeepLonger(Sorted(patternHits))
    /\ detStep' = "done"
    /\ UNCHANGED <<sentence, keywords, names, patternHits, kept>>

-----------------------------------------------------------------------------
Hits == {m \in [from : 0..Extent, to : 0..Extent] : m.from < m.to}

\* Either a sentence for the dictionaries, or hits of the patterns.
DetInit ==
    /\ \/ /\ sentence \in BoundedSeq(Lexicon, MaxSentence)
          /\ patternHits = <<>> /\ detStep = "keywords"
       \/ /\ patternHits \in BoundedSeq(Hits, MaxHits)
          /\ sentence = <<>> /\ detStep = "patterns"
    /\ keywords = {} /\ names = {} /\ kept = {} /\ langKept = {}

DetNext == ScanKeywords \/ ScanNames \/ Deduplicate \/ DedupOverlapping

DetSpec == DetInit /\ [][DetNext]_detVars
-----------------------------------------------------------------------------
(* Nothing that these detectors found is dropped without a trace (of       *)
(* dedup_overlapping, which the languages use, that is not so: a hit that  *)
(* meets only a dropped one goes with it, and nothing is claimed of        *)
(* langKept).  Every hit of the patterns meets one that is kept, those     *)
(* that are kept are disjoint, a term of the dictionary is reported or     *)
(* meets one as long, and every word that is a name lies in a match of the *)
(* gazetteer.                                                              *)
FindingsSurvive ==
    /\ detStep = "languages" =>
         /\ \A m \in ToSet(patternHits) : \E n \in kept : Touch(m, n) /\ n.from <= m.from
         /\ \A m, n \in kept : m = n \/ ~Touch(m, n)
    /\ detStep = "names" =>
         \A n \in 1..3 : \A m \in Windows(n) : \E k \in keywords :
             Touch(m, k) /\ LengthOf(k) >= n
    /\ detStep = "done" =>
         \A m \in LoneNames : \E n \in names : n.from <= m.from /\ m.to <= n.to
=============================================================================
