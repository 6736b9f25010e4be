----------------------------- MODULE SseStream -----------------------------
(***************************************************************************)
(* The body of a streamed response: the unfold closure of proxy_handler    *)
(* with its SseContentDecryptor, which holds the content back until a      *)
(* flush so that no token is cut in two, and its SseRiBuffer, which        *)
(* collects the text for the response-integrity scan and watches for       *)
(* [DONE].  What a flush does to the store and to the journal is in        *)
(* RequestLifecycle.                                                       *)
(*                                                                         *)
(* The provider's event lines arrive in chunks that are cut anywhere.      *)
(* Line n is two pieces, its head 2n - 1 and its tail 2n with the newline; *)
(* a chunk is a run of pieces.  A cut may fall inside a character, and     *)
(* neither chunk beside it is UTF-8 then.  Both buffers cut chunks into    *)
(* lines alike, and share one line_buffer here.                            *)
(***************************************************************************)
EXTENDS Selection, SequencesExt

CONSTANTS
    HasMappings,  \* mapping_store.get found mappings
    HasScanner,   \* state.response_integrity is Some
    MaxText,      \* RI_BUFFER_DEFAULT_MAX, in content lines
    MaxPieces,    \* bound: pieces of a chunk
    MaxLines      \* bound: lines of the provider

ASSUME StreamAssumption ==
    /\ HasMappings \in BOOLEAN
    /\ HasScanner \in BOOLEAN
    /\ HasMappings \/ HasScanner      \* or the response is not streamed
    /\ MaxText \in Nat /\ MaxPieces \in Nat /\ MaxLines \in Nat

VARIABLES
    script,     \* the kinds of the lines the provider would send
    received,   \* how many pieces of them have arrived
    midchar,    \* the last chunk ended inside a character
    garbled,    \* history: a chunk was not UTF-8
    carry,      \* line_buffer: the pieces of the line not ended yet
    buffer,     \* content_buffer of the decryptor
    text,       \* text of the RI buffer
    truncated,  \* it is full, and ignores what follows
    seen_done,  \* it has met [DONE]
    scanned,    \* history: content the integrity scan was given
    done,       \* the two flags of the unfold state
    ri_done,
    ended,      \* the closure returned None
    out         \* what the client was sent

vars == <<script, received, midchar, garbled, carry, buffer, text, truncated,
          seen_done, scanned, done, ri_done, ended, out>>

Kinds == {"content", "meta", "[DONE]"}
Lines == 1..MaxLines
Items == [line : Lines \cup {0}, kind : Kinds \cup {"garbage", "warning"}]

TypeOK ==
    /\ script \in BoundedSeq(Kinds, MaxLines)
    /\ received \in 0..2 * Len(script)
    /\ midchar \in BOOLEAN /\ garbled \in BOOLEAN
    /\ carry \in Seq(1..received)
    /\ buffer \in Seq(Lines)
    /\ text \in BoundedSeq(Lines, MaxText)
    /\ truncated \in BOOLEAN /\ seen_done \in BOOLEAN
    /\ scanned \subseteq Lines
    /\ done \in BOOLEAN /\ ri_done \in BOOLEAN /\ ended \in BOOLEAN
    /\ out \in Seq(Items)

Init ==
    /\ script \in BoundedSeq(Kinds, MaxLines)
    /\ received = 0 /\ midchar = FALSE /\ garbled = FALSE
    /\ carry = <<>> /\ buffer = <<>> /\ text = <<>>
    /\ truncated = FALSE /\ seen_done = FALSE
    /\ scanned = {}
    /\ done = FALSE /\ ri_done = FALSE /\ ended = FALSE
    /\ out = <<>>

Item(n, k) == [line |-> n, kind |-> k]
DoneLine   == Item(0, "[DONE]")
Warning    == Item(0, "warning")

-----------------------------------------------------------------------------
(* Lines out of pieces.                                                    *)

IsTail(p) == p % 2 = 0
LineOf(p) == (p + 1) \div 2

(* The line that ends at position i of the pieces s: a line of the         *)
(* provider when its two pieces stand alone between newlines; the rest of  *)
(* it, or joined to a piece of another, it is no JSON and passes as it is. *)
LineEndingAt(s, i) ==
    IF i > 1 /\ s[i - 1] = s[i] - 1 /\ (i > 2 => IsTail(s[i - 2]))
    THEN Item(LineOf(s[i]), script[LineOf(s[i])])
    ELSE Item(LineOf(s[i]), "garbage")

Upto(n)  == [i \in 1..n |-> i]
Tails(s) == {i \in 1..Len(s) : IsTail(s[i])}

CompleteLines(s) ==
    LET tails == Those(Upto(Len(s)), Tails(s))
    IN  [k \in 1..Len(tails) |-> LineEndingAt(s, tails[k])]

\* Mutant: the trailing partial line is forgotten.
TrailingDropped(s) == <<>>

Trailing(s) == SubSeq(s, SelectLastInSeq(s, IsTail) + 1, Len(s))

OfKinds(items, K) == Those(items, [line : Lines \cup {0}, kind : K])
ContentOf(items) ==
    LET c == OfKinds(items, {"content"}) IN [k \in 1..Len(c) |-> c[k].line]

-----------------------------------------------------------------------------
(* SseRiBuffer.  lines are those of a chunk; a full buffer does not look.  *)

\* Mutant: the text has no limit.
AppendAlways(t, lines) == t \o lines

Appended(t, lines) ==
    LET all == t \o lines
    IN  IF Len(all) <= MaxText THEN all ELSE SubSeq(all, 1, MaxText)

FeedText(lines) ==
    IF truncated THEN text
    ELSE Appended(text, ContentOf(lines))

Truncates(lines) ==
    truncated \/ Len(text) + Len(ContentOf(lines)) > MaxText

SeesDone(lines) ==
    seen_done \/ (~truncated /\ OfKinds(lines, {"[DONE]"}) # <<>>)

(* emit_sse_ri_warning_inline: takes the text; the scanner may flag it.    *)
Scan(t, warning) ==
    IF HasScanner /\ t # <<>>
    THEN /\ text' = <<>>
         /\ scanned' = scanned \cup ToSet(t)
         /\ warning \in {<<>>, <<Warning>>}
    ELSE /\ text' = t
         /\ scanned' = scanned
         /\ warning = <<>>

-----------------------------------------------------------------------------
(* SseContentDecryptor.                                                    *)

\* What feed hands on: with mappings, the lines that are neither content
\* nor [DONE]; without, the chunk as it is (a line counts where it ends).
Passed(chunk, lines) ==
    IF HasMappings THEN OfKinds(lines, {"meta", "garbage"})
    ELSE LET tails == Those(chunk, {p \in ToSet(chunk) : IsTail(p)})
         IN  [k \in 1..Len(tails) |-> Item(LineOf(tails[k]), script[LineOf(tails[k])])]

\* What flush emits: the content in one event, restored.
Flushed(b) == [k \in 1..Len(b) |-> Item(b[k], "content")]

-----------------------------------------------------------------------------
(* A data frame, with [DONE] in sight and no flush since: the content, the *)
(* warning and [DONE] itself, in this order; and any other data frame.     *)
Frame ==
    /\ ~done /\ ~ended
    /\ \E n \in 1..MaxPieces, cut \in BOOLEAN :
         LET chunk == [i \in 1..n |-> received + i]
             valid == ~midchar /\ ~cut
             s     == carry \o chunk
             lines == IF valid THEN CompleteLines(s) ELSE <<>>
             held  == buffer \o ContentOf(lines)
         IN  /\ received + n <= 2 * Len(script)
             /\ cut => ~IsTail(received + n)
             /\ received' = received + n
             /\ midchar' = cut
             /\ garbled' = (garbled \/ ~valid)
             /\ carry' = IF valid THEN Trailing(s) ELSE carry
             /\ truncated' = Truncates(lines)
             /\ seen_done' = SeesDone(lines)
             /\ IF seen_done' /\ ~ri_done
                THEN /\ buffer' = <<>>
                     /\ ri_done' = TRUE
                     /\ \E warning \in {<<>>, <<Warning>>} :
                          /\ Scan(FeedText(lines), warning)
                          /\ out' = out \o Passed(chunk, lines) \o Flushed(held)
                                        \o warning \o <<DoneLine>>
                ELSE /\ buffer' = held
                     /\ ri_done' = FALSE
                     /\ text' = FeedText(lines)
                     /\ out' = out \o Passed(chunk, lines)
                     /\ UNCHANGED scanned
    /\ UNCHANGED <<script, done, ended>>

(* No frame within sse_flush_timeout_ms, or a frame of trailers: an empty  *)
(* chunk.  The closure starts over with ri_done cleared.                   *)
KeepAlive ==
    /\ ~done /\ ~ended
    /\ ri_done' = FALSE
    /\ UNCHANGED <<script, received, midchar, garbled, carry, buffer, text,
                   truncated, seen_done, scanned, done, ended, out>>

(* The body of the provider ended or broke: flush what is held, warn if no *)
(* warning was due yet, and end, at once when that came to nothing.  The   *)
(* trailing piece in line_buffer is dropped.                               *)
BodyEnd ==
    /\ ~done /\ ~ended
    /\ \E warning \in {<<>>, <<Warning>>} :
         LET rest == Flushed(buffer) \o warning
         IN  /\ IF ri_done THEN warning = <<>> /\ UNCHANGED <<text, scanned>>
                           ELSE Scan(text, warning)
             /\ out' = out \o rest
             /\ done' = (rest # <<>>)
             /\ ri_done' = (ri_done \/ rest # <<>>)
             /\ ended' = (rest = <<>>)
    /\ buffer' = <<>>
    /\ UNCHANGED <<script, received, midchar, garbled, carry, truncated, seen_done>>

(* The poll after the last chunk.  The branch for done without ri_done is  *)
(* never taken.                                                            *)
Close ==
    /\ done /\ ~ended
    /\ ended' = TRUE
    /\ UNCHANGED <<script, received, midchar, garbled, carry, buffer, text,
                   truncated, seen_done, scanned, done, ri_done, out>>

Next == Frame \/ KeepAlive \/ BodyEnd \/ Close

Spec == Init /\ [][Next]_vars
-----------------------------------------------------------------------------
Shown == ContentOf(out)

ContentReceived ==
    Those(Upto(received \div 2), {n \in 1..received \div 2 : script[n] = "content"})

(* The client gets every piece of content once at most and in its order,   *)
(* however the chunks are cut and how often the stream is flushed, at      *)
(* [DONE], after it and at its end.                                        *)
ContentOnce == \A i, k \in DOMAIN Shown : i < k => Shown[i] < Shown[k]

(* When the stream is over nothing stayed behind: all content whose lines  *)
(* were complete was handed on (a chunk that is not UTF-8 is dropped).     *)
NothingHeldBack == ended /\ ~garbled => Shown = ContentReceived

(* No content is shown that no scan has seen, also when the provider goes  *)
(* on after [DONE]; but what is behind the limit is not scanned.           *)
ShownIsScanned == HasScanner /\ ~truncated => ToSet(Shown) \subseteq scanned

(* The provider's [DONE] reaches the client, and all content before it,    *)
(* unless the text grew over the limit of the integrity buffer (which is   *)
(* what looks for [DONE]) or a chunk was dropped.                          *)
DoneIsPassedOn ==
    ~truncated /\ ~garbled =>
      \A n \in 1..received \div 2 :
        script[n] = "[DONE]" /\ (\A m \in 1..n - 1 : script[m] # "[DONE]") =>
          /\ DoneLine \in ToSet(out)
          /\ \A m \in 1..n : script[m] = "content" => m \in ToSet(Shown)

(* A piece of a line that was cut passes as it came only in the ruins of a *)
(* chunk that was dropped.  Whole lines without text (meta) are relayed as *)
(* they came all the same, with the tokens they may hold.                  *)
NoRawLine == HasMappings /\ ~garbled => OfKinds(out, {"garbage"}) = <<>>

(* Together: the client gets the whole stream, each piece once, in its     *)
(* order and scanned, its end included, and no piece of a line as it came. *)
StreamIsWhole ==
    ContentOnce /\ NothingHeldBack /\ ShownIsScanned /\ DoneIsPassedOn /\ NoRawLine
=============================================================================
