---------------------------- MODULE Forwarding ----------------------------
(***************************************************************************)
(* What a request is on its way to the provider and the answer on its way  *)
(* back: the provider its path leads to, the headers that go on, the length*)
(* of the body, and, for a body that is not a stream of events, the tokens *)
(* restored in it, also those cut into the lines of an NDJSON answer.  The *)
(* same for passthrough mode.  Timing, and what masking does beyond one    *)
(* value and its token, is in RequestLifecycle and BodyMasking.            *)
(***************************************************************************)
EXTENDS Selection, FiniteSets, SequencesExt

CONSTANTS
    Providers,      \* [prefix, strip]: route_prefix and strip_headers
    CallPaths,      \* paths, sequences of letters
    HeaderLists,    \* header lists of a request, repetitions included
    CallTexts,      \* bodies: sequences of a value P and of a plain letter x
    AnswerHeads,    \* header lists of an answer
    AnswerLines     \* bodies of an answer: sequences of lines

(* A token is the letters t and k; a provider may cut it anywhere.  A line *)
(* is an object of Ollama's two kinds, one of them without text (bare), an *)
(* object of no such kind, or no JSON.                                     *)
AnswerCells == {"x", "t", "k", "P"}
LineKinds   == {"chat", "generate", "bare", "other", "garbage"}

(* Unprotected is the proxy's own header, which no provider sends.         *)
Headers     == STRING \X STRING
Unprotected == "x-openobscure-pii-unprotected"
NdjsonLine  == [kind : LineKinds, text : Seq(AnswerCells)]

ASSUME ForwardAssumption ==
    /\ \A p, q \in Providers : p.prefix = q.prefix => p = q
    /\ \A p \in Providers : p.prefix \in Seq(STRING)
    /\ \A path \in CallPaths : path \in Seq(STRING)
    /\ \A h \in HeaderLists \cup AnswerHeads : h \in Seq(Headers)
    /\ \A h \in AnswerHeads : \A i \in DOMAIN h : h[i][1] # Unprotected
    /\ \A t \in CallTexts : t \in Seq({"P", "x"})
    /\ \A ls \in AnswerLines :
         /\ ls \in Seq(NdjsonLine)
         /\ \A i \in DOMAIN ls : ls[i].text \in Seq(AnswerCells \ {"P"})
                                 /\ (ls[i].kind = "bare" => ls[i].text = <<>>)

VARIABLES
    fwd,        \* the mode, and whether scanning and the integrity scan are on
    call,       \* the request: path, headers, text
    chosen,     \* the provider, a sequence of none or one
    outgoing,   \* what the provider is sent: path, headers, declared length, text
    exposed,    \* fpe_unprotected_count
    answered,   \* the answer: headers, declared length, lines, whether UTF-8
    replied,    \* what the client is sent: the same, and whether it is streamed
    fwdStep     \* "route", "mask", "send", "await", "reply", "replied", "refused"

forwardVars == <<fwd, call, chosen, outgoing, exposed, answered, replied, fwdStep>>

Undeclared == -1
NoCall  == [path |-> <<>>, headers |-> [n \in {} |-> "none"], declared |-> Undeclared, text |-> <<>>]
NoReply == [headers |-> [n \in {} |-> "none"], declared |-> Undeclared, lines |-> <<>>, streamed |-> FALSE]

ForwardTypeOK ==
    /\ fwd \in [mode : {"proxy", "passthrough"}, scanning : BOOLEAN, integrity : BOOLEAN]
    /\ ToSet(chosen) \subseteq Providers /\ Len(chosen) <= 1
    /\ outgoing.declared \in Nat \cup {Undeclared}
    /\ replied.declared \in Nat \cup {Undeclared}
    /\ exposed \in 0..1
    /\ fwdStep \in {"route", "mask", "send", "await", "reply", "replied", "refused"}

-----------------------------------------------------------------------------
(* A map of headers keeps one value of each name: the last one inserted.   *)
NamesIn(headers) == {h[1] : h \in ToSet(headers)}
LastOf(headers, n) ==
    headers[CHOOSE i \in DOMAIN headers :
              headers[i][1] = n /\ \A j \in i + 1..Len(headers) : headers[j][1] # n][2]
Inserted(headers, without) ==
    [n \in NamesIn(headers) \ without |-> LastOf(headers, n)]
With(map, n, v) == [k \in DOMAIN map \cup {n} |-> IF k = n THEN v ELSE map[k]]

HopByHopHeaders ==
    {"connection", "keep-alive", "proxy-authenticate", "proxy-authorization", "te",
     "trailers", "transfer-encoding", "upgrade", "host"}
PassthroughHops == {"host", "connection", "transfer-encoding", "upgrade", "proxy-connection"}

ContentType(headers) ==
    IF "content-type" \in NamesIn(headers) THEN LastOf(headers, "content-type") ELSE "none"
IsJsonContent(headers) == ContentType(headers) \in {"none", "application/json", "x+json"}
IsEventStream(headers) == ContentType(headers) = "text/event-stream"

-----------------------------------------------------------------------------
(* resolve_provider: the longest prefix, letters of the path, not segments.*)
ResolveProvider(path) ==
    LET matching == {p \in Providers : IsPrefix(p.prefix, path)}
    IN  {p \in matching : \A q \in matching : Len(q.prefix) <= Len(p.prefix)}

Route ==
    /\ fwdStep = "route"
    /\ IF ResolveProvider(call.path) = {}
       THEN fwdStep' = "refused" /\ UNCHANGED chosen
       ELSE /\ \E p \in ResolveProvider(call.path) : chosen' = <<p>>
            /\ fwdStep' = IF fwd.mode = "proxy" THEN "mask" ELSE "send"
    /\ UNCHANGED <<fwd, call, outgoing, exposed, answered, replied>>

Masked(text) == FlattenSeq([i \in DOMAIN text |-> IF text[i] = "P" THEN <<"t", "k">> ELSE <<"x">>])
ShouldScan == fwd.scanning /\ call.text # <<>> /\ IsJsonContent(call.headers)
Mapped == outgoing.text # call.text

(* A body that is scanned has its values masked, or one stays in clear and *)
(* is counted; one that cannot be processed goes on as it came, uncounted, *)
(* when the proxy fails open, and nowhere when it fails closed.            *)
MaskCall ==
    /\ fwdStep = "mask"
    /\ \/ \E hide \in BOOLEAN, e \in 0..1 :
            /\ hide \/ e = 1 => ShouldScan
            /\ ~(hide /\ e = 1)
            /\ exposed' = e
            /\ outgoing' = [outgoing EXCEPT !.text = IF hide THEN Masked(call.text) ELSE call.text]
            /\ fwdStep' = "send"
       \/ /\ ShouldScan
          /\ fwdStep' = "refused"
          /\ UNCHANGED <<outgoing, exposed>>
    /\ UNCHANGED <<fwd, call, chosen, answered, replied>>

UpstreamPath == SubSeq(call.path, Len(chosen[1].prefix) + 1, Len(call.path))

(* build_upstream_request: the body's own length, and JSON unless the      *)
(* client said otherwise.                                                  *)
BuildUpstreamRequest ==
    LET kept == Inserted(call.headers, HopByHopHeaders \cup chosen[1].strip)
    IN  [outgoing EXCEPT !.path = UpstreamPath,
           !.headers = IF outgoing.text = <<>> \/ "content-type" \in DOMAIN kept THEN kept
                       ELSE With(kept, "content-type", "application/json"),
           !.declared = Len(outgoing.text)]

PassthroughRequest ==
    [outgoing EXCEPT !.path = UpstreamPath, !.text = call.text,
       !.headers = Inserted(call.headers, PassthroughHops \cup chosen[1].strip),
       !.declared = Len(call.text)]

SendUpstream ==
    /\ fwdStep = "send"
    /\ outgoing' = IF fwd.mode = "proxy" THEN BuildUpstreamRequest ELSE PassthroughRequest
    /\ fwdStep' = "await"
    /\ UNCHANGED <<fwd, call, chosen, exposed, answered, replied>>

-----------------------------------------------------------------------------
(* A line ends in a newline.                                               *)
BodySize(lines) == Len(FlattenSeq([i \in DOMAIN lines |-> Append(lines[i].text, "nl")]))

(* External: an answer with a length of its own or in chunks, or none.     *)
UpstreamAnswers ==
    /\ fwdStep = "await"
    /\ \/ \E h \in AnswerHeads, ls \in AnswerLines, u \in BOOLEAN :
            /\ answered' = [headers |-> h, lines |-> ls, utf8 |-> u,
                            declared |-> IF "transfer-encoding" \in NamesIn(h) THEN Undeclared
                                         ELSE BodySize(ls)]
            /\ fwdStep' = "reply"
       \/ fwdStep' = "refused" /\ UNCHANGED answered
    /\ UNCHANGED <<fwd, call, chosen, outgoing, exposed, replied>>

Restored(text) ==
    LET upTo[n \in 0..Len(text)] ==
          IF n = 0 THEN <<>>
          ELSE IF text[n] = "k" /\ upTo[n - 1] # <<>> /\ Last(upTo[n - 1]) = "t"
               THEN Front(upTo[n - 1]) \o <<"P">>
               ELSE Append(upTo[n - 1], text[n])
    IN  upTo[Len(text)]

ContentOfLine(kind, line) == IF line.kind = kind THEN line.text ELSE <<>>
Fields(kind, lines) == FlattenSeq([i \in DOMAIN lines |-> ContentOfLine(kind, lines[i])])

(* collapse_ndjson_response: of two lines or more, the first of which is   *)
(* Ollama's, all text in the last line that parses; in a chat only if that *)
(* line has a message to hold it.                                          *)
Collapsible(lines) ==
    /\ Len(lines) >= 2
    /\ lines[1].kind \in {"chat", "generate"}
    /\ Fields(lines[1].kind, lines) # <<>>
CollapseNdjson(lines) ==
    LET kind   == lines[1].kind
        parsed == Those(lines, {l \in ToSet(lines) : l.kind # "garbage"})
        last   == Last(parsed)
        text   == Restored(Fields(kind, lines))
    IN  IF kind = "chat" /\ last.kind # "chat" THEN <<last>>
        ELSE <<[kind |-> kind, text |-> text]>>

\* Mutant: line by line.
ProcessLineByLine ==
    IF ~Mapped THEN answered.lines
    ELSE [i \in DOMAIN answered.lines |-> [answered.lines[i] EXCEPT !.text = Restored(@)]]

(* process_response_body.  What is not UTF-8 is never taken for lines; the *)
(* letters it loses are no part of tokens.                                 *)
ProcessResponseBody ==
    IF ~Mapped THEN answered.lines
    ELSE IF answered.utf8 /\ Collapsible(answered.lines) THEN CollapseNdjson(answered.lines)
    ELSE [i \in DOMAIN answered.lines |-> [answered.lines[i] EXCEPT !.text = Restored(@)]]

(* inject_timing_headers, and the number of values sent in clear.          *)
InjectTimingHeaders(map) == With(map, "x-oo-total-us", "time")
Announced(map) ==
    IF exposed > 0 THEN With(InjectTimingHeaders(map), Unprotected, "some")
    ELSE InjectTimingHeaders(map)

Streams == IsEventStream(answered.headers) /\ (Mapped \/ fwd.integrity)

Reply1(headers, declared, lines, streamed) ==
    replied' = [headers |-> headers, declared |-> declared, lines |-> lines, streamed |-> streamed]

(* An answer of events is streamed (SseStream) if something must be done to*)
(* it, else it is buffered as all others are.                              *)
StreamReply ==
    /\ fwdStep = "reply" /\ fwd.mode = "proxy" /\ Streams
    /\ Reply1(Announced(Inserted(answered.headers, {})), Undeclared, answered.lines, TRUE)
    /\ fwdStep' = "replied"
    /\ UNCHANGED <<fwd, call, chosen, outgoing, exposed, answered>>

BufferedReply ==
    /\ fwdStep = "reply" /\ fwd.mode = "proxy" /\ ~Streams
    /\ Reply1(Announced(Inserted(answered.headers, {"transfer-encoding"})),
              BodySize(ProcessResponseBody), ProcessResponseBody, FALSE)
    /\ fwdStep' = "replied"
    /\ UNCHANGED <<fwd, call, chosen, outgoing, exposed, answered>>

(* passthrough_handler gives the answer back as it is.                     *)
PassthroughReply ==
    /\ fwdStep = "reply" /\ fwd.mode = "passthrough"
    /\ Reply1(Inserted(answered.headers, {}), answered.declared, answered.lines, TRUE)
    /\ fwdStep' = "replied"
    /\ UNCHANGED <<fwd, call, chosen, outgoing, exposed, answered>>

-----------------------------------------------------------------------------
ForwardInit ==
    /\ fwd \in [mode : {"proxy", "passthrough"}, scanning : BOOLEAN, integrity : BOOLEAN]
    /\ fwd.mode = "passthrough" => fwd.scanning /\ fwd.integrity    \* of no use there
    /\ call \in [path : CallPaths, headers : HeaderLists, text : CallTexts]
    /\ chosen = <<>> /\ outgoing = [NoCall EXCEPT !.text = call.text]
    /\ exposed = 0
    /\ answered = [headers |-> <<>>, lines |-> <<>>, utf8 |-> TRUE, declared |-> Undeclared]
    /\ replied = NoReply
    /\ fwdStep = "route"

ForwardNext ==
    \/ Route \/ MaskCall \/ SendUpstream \/ UpstreamAnswers
    \/ StreamReply \/ BufferedReply \/ PassthroughReply

ForwardSpec == ForwardInit /\ [][ForwardNext]_forwardVars
-----------------------------------------------------------------------------
(* What is sent has the length it declares, in both directions, whatever   *)
(* masking and restoring did to it.                                        *)
LengthsAreTrue ==
    /\ fwdStep = "await" => outgoing.declared = Len(outgoing.text)
    /\ fwdStep = "replied" /\ replied.declared # Undeclared =>
         replied.declared = BodySize(replied.lines)

(* Every header that means something beyond the next hop arrives, none that*)
(* was to be stripped does, and a body is JSON unless the client said what *)
(* else it is; the client learns of values sent in clear on every path.    *)
HeadersArrive ==
    /\ fwdStep = "await" =>
         LET given == NamesIn(call.headers)  sent == DOMAIN outgoing.headers
             hops  == HopByHopHeaders \cup PassthroughHops
         IN  /\ given \ (hops \cup chosen[1].strip) \subseteq sent
             /\ sent \cap chosen[1].strip \subseteq {"content-type"}
             /\ sent \cap HopByHopHeaders \cap PassthroughHops = {}
             /\ \A n \in (sent \cap given) \ chosen[1].strip : <<n, outgoing.headers[n]>> \in ToSet(call.headers)
    /\ fwdStep = "replied" =>
         /\ NamesIn(answered.headers) \ {"transfer-encoding"} \subseteq DOMAIN replied.headers
         /\ Unprotected \in DOMAIN replied.headers <=> exposed > 0
         /\ "transfer-encoding" \in DOMAIN replied.headers => replied.streamed

(* The request goes to a provider of whose prefixes none reaches further,  *)
(* and the prefix and the path there are the path of the request.          *)
RouteIsClosest ==
    fwdStep = "await" =>
      /\ chosen[1].prefix \o outgoing.path = call.path
      /\ ~\E p \in Providers : Len(p.prefix) > Len(chosen[1].prefix) /\ IsPrefix(p.prefix, call.path)

(* A token is restored even when the provider cut it into lines, and no    *)
(* text around it is lost: of an answer whose lines are all of the first   *)
(* one's kind the client is given the text of all of them, and of any other*)
(* that is not Ollama's each line.                                         *)
AnswerIsRestored ==
    fwdStep = "replied" /\ ~replied.streamed =>
      LET lines == answered.lines  kinds == {lines[i].kind : i \in DOMAIN lines} IN
      /\ ~Mapped => replied.lines = lines
      /\ Mapped /\ answered.utf8 /\ kinds \in {{"chat"}, {"generate"}} =>
           \E k \in kinds : Fields(k, replied.lines) = Restored(Fields(k, lines))
      /\ Mapped /\ kinds \cap {"chat", "generate"} = {} =>
           \A i \in DOMAIN lines : replied.lines[i].text = Restored(lines[i].text)

ForwardedWhole == LengthsAreTrue /\ HeadersArrive /\ RouteIsClosest /\ AnswerIsRestored
=============================================================================
