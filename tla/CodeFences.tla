---------------------------- MODULE CodeFences ----------------------------
(***************************************************************************)
(* mask_code_fences of hybrid_scanner.rs: what stands in Markdown code,    *)
(* fenced or inline, is blanked before the engines look at a text, byte by *)
(* byte in the text's own memory (an unsafe block).  A text is a sequence  *)
(* of bytes: the backtick, the newline, a letter, and ( and ), the first   *)
(* and the second byte of a wide letter.                                   *)
(***************************************************************************)
EXTENDS Integers, Sequences, FiniteSets, SequencesExt

CONSTANT Markdowns    \* texts

TextBytes == {"tick", "nl", "x", "(", ")"}

\* No wide letter is halved.
ValidUtf8(m) ==
    \A i \in DOMAIN m :
      /\ m[i] = "(" => i < Len(m) /\ m[i + 1] = ")"
      /\ m[i] = ")" => i > 1 /\ m[i - 1] = "("

ASSUME MarkdownAssumption == \A m \in Markdowns : m \in Seq(TextBytes) /\ ValidUtf8(m)

VARIABLES
    markdown,      \* the text
    blankedText,   \* the copy that is blanked
    scanAt         \* i: the next byte to look at, from 1

fenceVars == <<markdown, blankedText, scanAt>>

FenceTypeOK ==
    /\ Len(markdown) = Len(blankedText)
    /\ blankedText \in Seq(TextBytes \cup {" "})
    /\ scanAt \in 1..Len(markdown) + 1

-----------------------------------------------------------------------------
TicksAt(i)  == i + 2 <= Len(markdown) /\ \A k \in i..i + 2 : markdown[k] = "tick"

\* The newline of the line of byte i, or the end of the text.
LineEnd(i)  == Min({k \in i..Len(markdown) : markdown[k] = "nl"} \cup {Len(markdown) + 1})
LineAfter(i) == Min({LineEnd(i) + 1, Len(markdown) + 1})

\* Everything from a to b becomes blanks, but for the newlines.
Blanked(a, b) ==
    [k \in DOMAIN blankedText |->
        IF k \in a..b /\ blankedText[k] # "nl" THEN " " ELSE blankedText[k]]

\* The fences below the line of the fence at i.
ClosingFences(i) == {k \in LineAfter(i + 3)..Len(markdown) : TicksAt(k)}

(* A fence that is closed: its line and all lines up to the closing fence  *)
(* are blanked; the line of that one is left as it is.                     *)
MaskFence ==
    /\ scanAt <= Len(markdown) /\ TicksAt(scanAt)
    /\ ClosingFences(scanAt) # {}
    /\ LET close == Min(ClosingFences(scanAt))
       IN  /\ blankedText' = Blanked(scanAt, close - 1)
           /\ scanAt' = LineEnd(close + 3)
    /\ UNCHANGED markdown

(* A fence that is never closed is no fence.                               *)
PassUnclosed ==
    /\ scanAt <= Len(markdown) /\ TicksAt(scanAt)
    /\ ClosingFences(scanAt) = {}
    /\ scanAt' = scanAt + 3
    /\ UNCHANGED <<markdown, blankedText>>

\* The next backtick of the line.
NextTicks(i) == {k \in i + 1..LineEnd(i) - 1 : markdown[k] = "tick"}

MaskInline ==
    /\ scanAt <= Len(markdown) /\ markdown[scanAt] = "tick" /\ ~TicksAt(scanAt)
    /\ IF NextTicks(scanAt) = {}
       THEN scanAt' = scanAt + 1 /\ UNCHANGED blankedText
       ELSE /\ blankedText' = Blanked(scanAt, Min(NextTicks(scanAt)))
            /\ scanAt' = Min(NextTicks(scanAt)) + 1
    /\ UNCHANGED markdown

PassByte ==
    /\ scanAt <= Len(markdown) /\ markdown[scanAt] # "tick"
    /\ scanAt' = scanAt + 1
    /\ UNCHANGED <<markdown, blankedText>>

FenceInit == markdown \in Markdowns /\ blankedText = markdown /\ scanAt = 1

FenceNext == MaskFence \/ PassUnclosed \/ MaskInline \/ PassByte

FenceSpec == FenceInit /\ [][FenceNext]_fenceVars
-----------------------------------------------------------------------------
IsBlanked(k) == blankedText[k] # markdown[k]

(* What is blanked has a backtick before and behind it: no prose is kept   *)
(* from the scan by a fence or a backtick that nothing closes.  Offsets and*)
(* lines stay where they are, and no wide letter is halved, which the      *)
(* unsafe block must not do.                                               *)
BlankedIsEnclosed ==
    /\ Len(blankedText) = Len(markdown)
    /\ \A k \in DOMAIN markdown : IsBlanked(k) =>
         /\ markdown[k] # "nl"
         /\ \E a \in 1..k : markdown[a] = "tick"
         /\ \E b \in k..Len(markdown) : markdown[b] = "tick"
         /\ markdown[k] = "(" => IsBlanked(k + 1)
         /\ markdown[k] = ")" => IsBlanked(k - 1)

(* Where nothing is fenced, the backticks of a line pair up from the left, *)
(* and what each pair holds is hidden, as nothing else is.                 *)
InlineIsHidden ==
    scanAt > Len(markdown) /\ ~(\E i \in DOMAIN markdown : TicksAt(i)) =>
      \A k \in DOMAIN markdown :
        LET ticks == {j \in DOMAIN markdown : markdown[j] = "tick" /\ LineEnd(j) = LineEnd(k)}
            upto  == {j \in ticks : j <= k}
            pairs == Cardinality(ticks) - (Cardinality(ticks) % 2)
            inside == Cardinality(upto) % 2 = 1 \/ markdown[k] = "tick"
        IN  IsBlanked(k) <=> markdown[k] # "nl" /\ inside /\ Cardinality(upto) <= pairs

ProseStaysVisible == BlankedIsEnclosed /\ InlineIsHidden
=============================================================================
