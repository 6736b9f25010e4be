------------------------- MODULE ResponseIntegrity -------------------------
(***************************************************************************)
(* The scan of an answer for persuasion: the dictionary (R1), the model    *)
(* with its early exit (R2), what the two make of each other, and the      *)
(* label put into the answer.  A text is a sequence of words; a phrase of  *)
(* the dictionary is a category and a sequence of words.  The plugin has a *)
(* dictionary scan and a severity of its own (cognitive.ts).               *)
(***************************************************************************)
EXTENDS Integers, Sequences, FiniteSets

CONSTANTS
    Phrases,       \* the dictionary: [category, words]
    Vocabulary,    \* words of the texts
    MaxWords,      \* bound: words of a text
    Articles,      \* categories of the R2 model
    R2Scores,      \* percentages R2 may give
    Threshold,     \* ri_threshold
    EarlyExit,     \* ri_early_exit_threshold
    WindowWords,   \* EARLY_EXIT_WINDOW
    MinFlags       \* ri_min_flags

VARIABLES
    body,         \* the answer: its kind, and whether each field has text
    prose,        \* the text taken from it
    sensitivity,  \* of the scanner
    model,        \* R2: "absent" or "loaded"
    stage,        \* how far the scan is
    flags,        \* matches of R1
    prediction,   \* scores and labels of R2
    role,         \* R2Role
    report,       \* severity and categories, or none
    label         \* the field the label was put into, or 0

riVars == <<body, prose, sensitivity, model, stage, flags, prediction, role, report, label>>

(* Words per phrase in the tables, each of a category.                     *)
UrgencyLengths    == 1..4
ScarcityLengths   == 2..4
SocialLengths     == 1..4
FearLengths       == 1..5
AuthorityLengths  == 1..3
CommercialLengths == 1..3
FlatteryLengths   == 1..5
Lengths == [Urgency |-> UrgencyLengths, Scarcity |-> ScarcityLengths,
            SocialProof |-> SocialLengths, Fear |-> FearLengths,
            Authority |-> AuthorityLengths, Commercial |-> CommercialLengths,
            Flattery |-> FlatteryLengths]

ASSUME DictionaryAssumption ==
    /\ \A p \in Phrases :
         p.category \in DOMAIN Lengths /\ Len(p.words) \in Lengths[p.category]
    /\ WindowWords \in Nat /\ MinFlags \in Nat /\ MaxWords \in Nat
    /\ IsFiniteSet(Articles)

NoScores   == [scores |-> [a \in Articles |-> 0], found |-> {}, early |-> FALSE, ran |-> FALSE]
NoReport   == [tier |-> 0, categories |-> {}, articles |-> {}]
Categories(fs) == {f.category : f \in fs}

RiTypeOK ==
    /\ body.kind \in {"blocks", "single", "opaque"}
    /\ sensitivity \in {"off", "low", "medium", "high"}
    /\ model \in {"absent", "loaded"}
    /\ stage \in {"received", "extracted", "flagged", "window", "merged", "reported", "done"}
    /\ \A f \in flags : f.start < f.end /\ f.end <= Len(prose) + 1
    /\ prediction.found \subseteq Articles
    /\ role \in {"not_used", "confirm", "suppress", "upgrade", "discover"}
    /\ report.tier \in 0..3
    /\ label \in 0..Len(body.fields)

-----------------------------------------------------------------------------
(* lookup: the first category that has the phrase.                         *)
Order == [Urgency |-> 1, Scarcity |-> 2, SocialProof |-> 3, Fear |-> 4,
          Authority |-> 5, Commercial |-> 6, Flattery |-> 7]
Lookup(words) ==
    LET has == {p.category : p \in {q \in Phrases : q.words = words}}
    IN  IF has = {} THEN {}
        ELSE {CHOOSE c \in has : \A d \in has : Order[c] <= Order[d]}

(* The matches of one window size; start and end count words.              *)
Window(t, n) ==
    UNION {{[category |-> c, start |-> i, end |-> i + n] : c \in Lookup(SubSeq(t, i, i + n - 1))}
           : i \in 1..(Len(t) - n + 1)}
Overlaps(f, g) == f.start < g.end /\ g.start < f.end

(* PersuasionDict::scan_text: windows of three words, then of two that     *)
(* overlap none of them, then single words.  Windows of one size may       *)
(* overlap when they are of three words; those of two are looked at in     *)
(* turn, each against the matches so far.                                  *)
ScanDictionary(t) ==
    LET three == Window(t, 3)
        pairs == Window(t, 2)
        two[i \in 0..Len(t)] ==
          IF i = 0 THEN three
          ELSE two[i - 1] \cup {f \in pairs : f.start = i /\ \A g \in two[i - 1] : ~Overlaps(f, g)}
        more == two[Len(t)]
    IN  more \cup {f \in Window(t, 1) : \A g \in more : ~Overlaps(f, g)}

-----------------------------------------------------------------------------
(* compute_severity.                                                       *)
Severity(fs, articles, scores) ==
    LET cs    == Categories(fs)
        total == Cardinality(cs) + Cardinality(articles)
    IN  IF \/ total >= 4
           \/ "Commercial" \in cs /\ cs \cap {"Fear", "Urgency"} # {}
           \/ Cardinality(articles) >= 2 /\ \E a \in Articles : scores[a] > 90
        THEN 3
        ELSE IF \/ total >= 2
                \/ Cardinality(fs) >= 3
                \/ cs = {} /\ articles # {}
             THEN 2 ELSE 1

(* computeSeverity of the plugin, which has no model.                      *)
PluginSeverity(fs) ==
    LET cs == Categories(fs)
    IN  IF Cardinality(cs) >= 4 THEN 3
        ELSE IF "Commercial" \in cs /\ cs \cap {"Fear", "Urgency"} # {} THEN 3
        ELSE IF Cardinality(cs) >= 2 \/ Cardinality(fs) >= 3 THEN 2 ELSE 1

(* scanDictionary of the plugin: one pass per size, longest first.         *)
PluginScan(t) ==
    LET pass(found, n) ==
          LET at[i \in 0..Len(t)] ==
                IF i = 0 THEN found
                ELSE at[i - 1] \cup {f \in Window(t, n) :
                       /\ f.start = i
                       /\ n = 3 \/ \A g \in at[i - 1] : ~Overlaps(f, g)}
          IN  at[Len(t)]
    IN  pass(pass(pass({}, 3), 2), 1)

-----------------------------------------------------------------------------
(* response_format: where text can be taken from, and where a label goes.   *)
TextFields(b) == IF b.kind = "opaque" THEN {} ELSE {i \in 1..Len(b.fields) : b.fields[i]}
ExtractText(b) == TextFields(b) # {}
InjectWarning(b) ==
    IF TextFields(b) = {} THEN 0
    ELSE CHOOSE i \in TextFields(b) : \A j \in TextFields(b) : i <= j

AnswerShapes == [kind : {"blocks"}, fields : {<<TRUE>>, <<FALSE, TRUE>>, <<FALSE>>}]
          \cup [kind : {"single"}, fields : {<<TRUE>>}]
          \cup [kind : {"opaque"}, fields : {<<TRUE>>}]

RiInit ==
    /\ body \in AnswerShapes
    /\ prose = <<>>
    /\ sensitivity \in {"off", "low", "medium", "high"}
    /\ model \in {"absent", "loaded"}
    /\ stage = "received"
    /\ flags = {}
    /\ prediction = NoScores
    /\ role = "not_used"
    /\ report = NoReport
    /\ label = 0

OnlyScan == UNCHANGED <<body, sensitivity, model>>

(* scan_response_integrity: an answer without text passes as it is.        *)
Extract ==
    /\ stage = "received"
    /\ IF ExtractText(body) /\ sensitivity # "off"
       THEN /\ \E n \in 1..MaxWords : prose' \in [1..n -> Vocabulary]
            /\ stage' = "extracted"
       ELSE stage' = "done" /\ UNCHANGED prose
    /\ UNCHANGED <<flags, prediction, role, report, label>>
    /\ OnlyScan

ScanR1 ==
    /\ stage = "extracted"
    /\ flags' = ScanDictionary(prose)
    /\ stage' = "flagged"
    /\ UNCHANGED <<prose, prediction, role, report, label>>
    /\ OnlyScan

(* should_invoke_r2: FALSE is also the outcome of the sample.              *)
ShouldInvoke ==
    CASE sensitivity = "high"   -> {TRUE}
      [] sensitivity = "low"    -> {flags # {}}
      [] sensitivity = "medium" -> IF flags # {} THEN {TRUE} ELSE BOOLEAN
      [] OTHER                  -> {FALSE}

\* Mutant: what the model contradicts is dropped, however strong.
RoleOf1(found) ==
    IF flags # {} THEN IF found # {} THEN "upgrade" ELSE "suppress"
    ELSE IF found # {} THEN "discover" ELSE "not_used"

(* run_r2_cascade: the role of R2 beside R1.                               *)
RoleOf(found) ==
    IF flags # {}
    THEN IF found # {} THEN "upgrade"
         ELSE IF Cardinality(Categories(flags)) >= 2 THEN "confirm" ELSE "suppress"
    ELSE IF found # {} THEN "discover" ELSE "not_used"

SkipR2 ==
    /\ stage = "flagged"
    /\ model = "absent" \/ FALSE \in ShouldInvoke
    /\ stage' = "merged"
    /\ UNCHANGED <<prose, flags, prediction, role, report, label>>
    /\ OnlyScan

(* An inference that fails leaves the report to R1.                        *)
R2Fails ==
    /\ \/ stage = "flagged" /\ model = "loaded" /\ TRUE \in ShouldInvoke
       \/ stage = "window"
    /\ stage' = "merged"
    /\ UNCHANGED <<prose, flags, prediction, role, report, label>>
    /\ OnlyScan

(* predict: the first window of a long text; when no score reaches the     *)
(* early exit the labels are all negative, whatever the scores are.        *)
PredictWindow ==
    /\ stage = "flagged"
    /\ model = "loaded" /\ TRUE \in ShouldInvoke
    /\ Len(prose) > WindowWords
    /\ \E scores \in [Articles -> R2Scores] :
         IF \A a \in Articles : scores[a] < EarlyExit
         THEN /\ prediction' = [scores |-> scores, found |-> {}, early |-> TRUE, ran |-> TRUE]
              /\ role' = RoleOf({})
              /\ stage' = "merged"
         ELSE stage' = "window" /\ UNCHANGED <<prediction, role>>
    /\ UNCHANGED <<prose, flags, report, label>>
    /\ OnlyScan

(* The whole text.                                                         *)
PredictAll ==
    /\ \/ stage = "window"
       \/ /\ stage = "flagged"
          /\ model = "loaded" /\ TRUE \in ShouldInvoke
          /\ Len(prose) <= WindowWords
    /\ \E scores \in [Articles -> R2Scores] :
         LET found == {a \in Articles : scores[a] >= Threshold}
         IN  /\ prediction' = [scores |-> scores, found |-> found, early |-> FALSE, ran |-> TRUE]
             /\ role' = RoleOf(found)
    /\ stage' = "merged"
    /\ UNCHANGED <<prose, flags, report, label>>
    /\ OnlyScan

(* The merge, and the filter of the sensitivity.                           *)
Merge ==
    /\ stage = "merged"
    /\ LET tier == Severity(flags, prediction.found, prediction.scores)
           none == \/ role = "suppress"
                   \/ flags = {} /\ prediction.found = {}
                   \/ sensitivity = "low" /\ tier = 1
       IN  /\ report' = IF none THEN NoReport
                        ELSE [tier |-> tier, categories |-> Categories(flags),
                              articles |-> prediction.found]
           /\ stage' = IF none THEN "done" ELSE "reported"
    /\ UNCHANGED <<prose, flags, prediction, role, label>>
    /\ OnlyScan

(* Too few flags, or a discovery of R2 alone, is logged and not shown.     *)
Inject ==
    /\ stage = "reported"
    /\ label' = IF Cardinality(flags) < MinFlags \/ role = "discover" THEN 0
                ELSE InjectWarning(body)
    /\ stage' = "done"
    /\ UNCHANGED <<prose, flags, prediction, role, report>>
    /\ OnlyScan

RiNext ==
    \/ Extract \/ ScanR1 \/ SkipR2 \/ R2Fails
    \/ PredictWindow \/ PredictAll \/ Merge \/ Inject

RiSpec == RiInit /\ [][RiNext]_riVars
-----------------------------------------------------------------------------
(* Every phrase of up to three words that stands in the text is flagged,   *)
(* or a longer one that overlaps it is: short matches never displace the   *)
(* long ones, and nothing is lost between the passes.                      *)
LongestPhraseWins ==
    stage = "flagged" =>
        \A n \in 1..3 : \A f \in Window(prose, n) :
            \/ f \in flags
            \/ \E g \in flags : Overlaps(f, g) /\ g.end - g.start >= n

(* Two categories of R1 are always reported, whether R2 agrees, contradicts,*)
(* leaves early, fails or is not there.                                    *)
StrongEvidenceStands ==
    stage = "done" /\ Cardinality(Categories(flags)) >= 2 => report.tier >= 2

(* The plugin, which mirrors the scan, finds what the core finds and calls *)
(* it what the core calls it without a model.                              *)
PluginAgrees ==
    stage = "flagged" =>
        /\ PluginScan(prose) = flags
        /\ flags # {} =>
             PluginSeverity(flags) = Severity(flags, {}, [a \in Articles |-> 0])

(* What the dictionary sees counts: in the scan, in the report and in the  *)
(* mirror of both in the plugin.                                           *)
EvidenceCounts == LongestPhraseWins /\ StrongEvidenceStands /\ PluginAgrees
=============================================================================
