-------------------------- MODULE PluginRedaction --------------------------
(***************************************************************************)
(* The redaction hooks of the plugin (index.ts, redactor.ts) with what     *)
(* they call: the native scanner (openobscure-napi), or the /ner endpoint  *)
(* of the proxy (ner_endpoint.rs) and the regexes in JS.                   *)
(*                                                                         *)
(* The Rust scanner reports byte offsets of UTF-8; the plugin slices a JS  *)
(* string, whose positions count UTF-16 units.  A text is a sequence of    *)
(* characters with their widths in both.  PII is a character here: one     *)
(* that only the NER model finds (in a wide script or not), or a number    *)
(* the regexes find too, in quotes or, as an argument of a tool, bare.     *)
(***************************************************************************)
EXTENDS Integers, Sequences, SequencesExt, Selection

CONSTANTS
    MaxChars,    \* bound: characters of a text
    NerLimit     \* bytes the endpoint accepts (65536 in the code)

ASSUME HookAssumption == MaxChars \in Nat /\ NerLimit \in Nat

VARIABLES
    content,     \* the text of the tool result, or the arguments as JSON
    hook,        \* which of the two hooks gets it
    native,      \* the native addon is installed
    monitor,     \* the monitor says active, says otherwise, or is switched off
    proxyUp,     \* the proxy answers within two seconds
    tokenKnown,  \* the plugin was registered after the proxy wrote its token
    result       \* <<>>, then what the hook returned

hookVars == <<content, hook, native, monitor, proxyUp, tokenKnown, result>>

Plain  == {"a", "e", "emoji"}
Semantic == {"name", "Name"}         \* in ASCII, and not
Numbers  == {"number", "bare"}
Chars  == Plain \cup Semantic \cup Numbers

Bytes(c) == CASE c = "emoji" -> 4 [] c \in {"e", "Name"} -> 2 [] OTHER -> 1

\* The UTF-16 units of a character.
UnitsOf(c) == IF c = "emoji" THEN <<"high", "low">> ELSE <<c>>
Units(text) == FlattenSeq([i \in 1..Len(text) |-> UnitsOf(text[i])])

\* The label that takes the place of PII: longer than what it replaces.
Label == <<"[", "]">>

HookTypeOK ==
    /\ content \in Seq(Chars) /\ Len(content) <= MaxChars
    /\ hook \in {"tool_result_persist", "before_tool_call"}
    /\ native \in BOOLEAN /\ proxyUp \in BOOLEAN /\ tokenKnown \in BOOLEAN
    /\ monitor \in {"active", "other", "off"}
    /\ \/ result = <<>>
       \/ result[1].text \in Seq(Chars \cup {"[", "]", "high", "low"})
          /\ result[1].threw \in BOOLEAN

\* A tool result is no JSON: nothing in it is bare.
HookInit ==
    /\ content \in BoundedSeq(Chars, MaxChars)
    /\ hook \in {"tool_result_persist", "before_tool_call"}
    /\ hook = "tool_result_persist" => "bare" \notin ToSet(content)
    /\ native \in BOOLEAN /\ proxyUp \in BOOLEAN /\ tokenKnown \in BOOLEAN
    /\ monitor \in {"active", "other", "off"}
    /\ result = <<>>

-----------------------------------------------------------------------------
(* Offsets and slices.                                                     *)

Size(text) ==
    LET sum[n \in 0..Len(text)] == IF n = 0 THEN 0 ELSE sum[n - 1] + Bytes(text[n])
    IN  sum[Len(text)]

ByteSpan(text, i) ==
    LET before == Size(SubSeq(text, 1, i - 1))
    IN  [start |-> before, end |-> before + Bytes(text[i])]

(* The matches of the Rust scanner for the PII in K, by byte offset.       *)
ScanMatches(text, K) ==
    LET at == Those([i \in 1..Len(text) |-> i], {i \in 1..Len(text) : text[i] \in K})
    IN  [k \in 1..Len(at) |-> ByteSpan(text, at[k])]

\* redacted.slice(0, start) + label + redacted.slice(end)
ReplaceSpan(s, m) == SubSeq(s, 1, m.start) \o Label \o SubSeq(s, m.end + 1, Len(s))

Inside(s, m) == m.start < Len(s) /\ m.end <= Len(s)

\* Mutant: applied from the first match to the last.
RedactAscending(s, matches) ==
    FoldLeft(LAMBDA t, m : IF Inside(s, m) THEN ReplaceSpan(t, m) ELSE t, s, matches)

(* redactViaNative: matches behind the end are skipped, the others applied *)
(* from the last to the first.                                             *)
RedactSpans(s, matches) ==
    LET N == Len(matches)
        redacted[n \in 0..N] ==
          IF n = 0 THEN s
          ELSE IF Inside(s, matches[N + 1 - n])
               THEN ReplaceSpan(redacted[n - 1], matches[N + 1 - n])
               ELSE redacted[n - 1]
    IN  redacted[N]

(* The NER part of redactPiiWithNer, which tests the length of the text    *)
(* with the labels that are already in it.                                 *)
RedactLater(s, matches) ==
    LET N == Len(matches)
        redacted[n \in 0..N] ==
          IF n = 0 THEN s
          ELSE IF Inside(redacted[n - 1], matches[N + 1 - n])
               THEN ReplaceSpan(redacted[n - 1], matches[N + 1 - n])
               ELSE redacted[n - 1]
    IN  redacted[N]

(* redactPiiJs: numbers are all that the regexes find (matches that overlap*)
(* are not modelled).                                                      *)
RedactJs(s) ==
    FlattenSeq([i \in 1..Len(s) |-> IF s[i] \in Numbers THEN Label ELSE <<s[i]>>])

-----------------------------------------------------------------------------
(* ner_handler accepts a text; callNerEndpoint is null unless it does.     *)
NerHandlerAccepts == tokenKnown /\ Size(content) <= NerLimit
EndpointAnswers   == proxyUp /\ NerHandlerAccepts

ViaNative == RedactSpans(Units(content), ScanMatches(content, Semantic \cup Numbers))

RedactPiiWithNer ==
    IF native THEN ViaNative
    ELSE RedactJs(IF EndpointAnswers
                  THEN RedactLater(Units(content), ScanMatches(content, Semantic))
                  ELSE Units(content))

RedactPii == IF native THEN ViaNative ELSE RedactJs(Units(content))

(* useNer: without a monitor the endpoint is never asked.                  *)
Redacted == IF monitor = "active" THEN RedactPiiWithNer ELSE RedactPii

(* JSON.parse of the redacted arguments: a label in the place of a bare    *)
(* number is no JSON, and a label in a wrong place may be.                 *)
Unparsable(s, threw) ==
    LET bare == {i \in DOMAIN content : content[i] = "bare"}
    IN  IF \E i \in DOMAIN content : Bytes(content[i]) > 1
        THEN threw \in BOOLEAN
        ELSE threw = (bare # {})

(* A hook runs: synchronous, from the call to its return or exception.     *)
Hook ==
    /\ result = <<>>
    /\ \E threw \in BOOLEAN :
         /\ IF hook = "before_tool_call" THEN Unparsable(Redacted, threw)
                                         ELSE threw = FALSE
         /\ result' = <<[text |-> Redacted, threw |-> threw]>>
    /\ UNCHANGED <<content, hook, native, monitor, proxyUp, tokenKnown>>

HookNext == Hook

HookSpec == HookInit /\ [][HookNext]_hookVars
-----------------------------------------------------------------------------
(* What the engine of this call is able to find.                           *)
Findable ==
    IF native \/ (monitor = "active" /\ EndpointAnswers) THEN Semantic \cup Numbers
    ELSE Numbers

\* The text with every findable character, and nothing else, replaced.
Expected ==
    FlattenSeq([i \in 1..Len(content) |->
                  IF content[i] \in Findable THEN Label ELSE UnitsOf(content[i])])

Returned == result # <<>> /\ ~result[1].threw

(* A text in ASCII leaves the hook without the PII the engine finds and    *)
(* with all the rest, whichever engine was there, whether the proxy        *)
(* answered or not, and however many labels shifted the text.              *)
AsciiIsRedacted ==
    Returned /\ (\A i \in DOMAIN content : Bytes(content[i]) = 1)
    => result[1].text = Expected

(* The same of every text: redactor.ts:138 calls a match "A single PII     *)
(* match with position in the original (pre-redaction) text", but it gets  *)
(* positions in bytes.                                                     *)
EveryTextIsRedacted == Returned => result[1].text = Expected
=============================================================================
