---------------------------- MODULE MCDetection ----------------------------
(***************************************************************************)
(* The detection engines and the response stream for TLC.  They share no   *)
(* state, so a behaviour runs one of them, its subject, and leaves the     *)
(* others at an initial state.                                             *)
(***************************************************************************)
EXTENDS SseStream, NerText, HybridScanner, PluginRedaction, ResponseIntegrity,
        CrfTagger, TextDetectors, FpeFormat, TextRegions, FaceBoxes, MediaIntake,
        WordOffsets, NerTokens, Forwarding

VARIABLE subject

detectionVars ==
    <<subject, vars, nerVars, voteVars, walkVars, hookVars, riVars, crfVars,
      detVars, fpeVars, ocrVars, faceVars, mediaVars, fenceVars, wordVars,
      tokenVars, forwardVars>>

Only(s) ==
    /\ subject = s
    /\ UNCHANGED subject
    /\ IF s = "stream" THEN TRUE ELSE UNCHANGED vars
    /\ IF s = "ner" THEN TRUE ELSE UNCHANGED nerVars
    /\ IF s = "vote" THEN TRUE ELSE UNCHANGED voteVars
    /\ IF s = "walk" THEN TRUE ELSE UNCHANGED walkVars
    /\ IF s = "hook" THEN TRUE ELSE UNCHANGED hookVars
    /\ IF s = "integrity" THEN TRUE ELSE UNCHANGED riVars
    /\ IF s = "tagger" THEN TRUE ELSE UNCHANGED crfVars
    /\ IF s = "words" THEN TRUE ELSE UNCHANGED detVars
    /\ IF s = "format" THEN TRUE ELSE UNCHANGED fpeVars
    /\ IF s = "text" THEN TRUE ELSE UNCHANGED ocrVars
    /\ IF s = "faces" THEN TRUE ELSE UNCHANGED faceVars
    /\ IF s = "media" THEN TRUE ELSE UNCHANGED mediaVars
    /\ IF s = "fences" THEN TRUE ELSE UNCHANGED fenceVars
    /\ IF s = "offsets" THEN TRUE ELSE UNCHANGED wordVars
    /\ IF s = "pieces" THEN TRUE ELSE UNCHANGED tokenVars
    /\ IF s = "forward" THEN TRUE ELSE UNCHANGED forwardVars

\* A cipher that shifts every numeral by the tweak and its place.
ShiftOn(ns, radix, t)   == [i \in 1..Len(ns) |-> (ns[i] + t + i) % radix]
ShiftBack(ns, radix, t) == [i \in 1..Len(ns) |-> (ns[i] - t - i) % radix]

\* Every pair of the three spans overlaps but the first and the last.
ChainedSpans == {<<0, 2>>, <<1, 3>>, <<2, 4>>}

\* One entry of one or two strings, or two entries of one string each; the
\* last string may be a nested document of up to three values.
Flat   == {[nested |-> FALSE, cells |-> c] : c \in BoundedSeq(Cells, 2) \ {<<>>}}
Strings == {[nested |-> n, cells |-> c] : n \in BOOLEAN, c \in BoundedSeq(Cells, 3) \ {<<>>}}
SmallBodies == {<<<<s>>>> : s \in Strings}
          \cup {<<<<a, s>>>> : a \in Flat, s \in Strings}
          \cup {<<<<a>>, <<s>>>> : a \in Flat, s \in Strings}

\* A phrase in two categories, one inside another, one too long to be seen.
SmallDictionary ==
    {[category |-> "Urgency", words |-> <<"a", "b", "a">>],
     [category |-> "Fear", words |-> <<"a", "b", "a">>],
     [category |-> "Commercial", words |-> <<"b", "a">>],
     [category |-> "Fear", words |-> <<"b">>],
     [category |-> "Scarcity", words |-> <<"b", "b", "a", "b">>]}

\* Two types; a label that continues an entity is favoured after its like and
\* held back elsewhere, so the best label of a token alone may be wrong.
TwoTypes == <<"person", "location">>
SmallWeighings ==
    {[l \in 0..4 |-> w[l + 1]] :
       w \in {<<3, 0, 0, 0, 0>>, <<0, 2, 1, 0, 0>>, <<0, 0, 2, 1, 0>>, <<-1, 0, 0, 2, 2>>,
              <<1, 1, 1, 1, 1>>, <<-3, -6, -6, -6, -6>>}}
SmallTransitions ==
    [i \in 0..4 |-> [j \in 0..4 |->
        IF j \in {2, 4} THEN IF i \in {j - 1, j} THEN 2 ELSE -3
        ELSE IF i = j THEN 1 ELSE 0]]

\* Terms of one, two and three words that contain each other.
SmallTerms == {<<"of">>, <<"ann", "of">>, <<"of", "ann", "of">>}

\* An image that is not a multiple of the map; some cells that are clear.
SomeSizes     == {<<7, 8>>}
SomeScreens   == {<<8, 7>>}
SomeClearSets == {{<<0, 1>>, <<1, 2>>, <<3, 1>>}}
\* Letters repeated, parted by a blank, and past the dictionary; a secret in one
\* region, and one that two regions hold together.
SomeReadings  == {<<1, 1, 0>>, <<1, 0, 1>>, <<1, 2>>, <<3, 1>>}
SomeSecrets   == {<<1, 1>>, <<2>>, <<2, 0, 1>>}

\* Faces that overlap, are cut by the edge, dominate the image or lie outside.
SomeFrames == {<<8, 8>>, <<12, 9>>}
Face(l, t, r, b, s) == [left |-> l, top |-> t, right |-> r, bottom |-> b, score |-> s]
SeenFaces ==
    {Face(p[1], p[2], p[3], p[4], s) : s \in {50, 80, 90},
       p \in {<<1, 1, 5, 5>>, <<2, 2, 6, 6>>, <<4, 1, 8, 5>>, <<-2, -2, 3, 3>>,
              <<0, 0, 8, 8>>, <<9, 9, 12, 12>>, <<3, 3, 8, 7>>}}
SomeLooks ==
    BoundedSeq(SeenFaces, 2) \cup [1..3 -> {f \in SeenFaces : f.score > 50 /\ f.left \in 1..4}]
SomeTileLooks ==
    {<<>>, <<Face(0, 0, 4, 4, 80)>>, <<Face(2, 1, 5, 5, 90)>>,
     <<Face(0, 0, 3, 3, 90), Face(1, 0, 4, 3, 80)>>}

\* Bodies with every kind of block, with arrays in arrays, and with keys that
\* hold a slash or a dot beside the place such a key could be mistaken for.
Node(k, f, l, u) ==
    [kind |-> k, form |-> f, label |-> l, url |-> u,
     of |-> <<>>, clean |-> FALSE, bytes |-> "none"]
Bare(k) == Node(k, "none", "none", "none")
Picture  == Node("anthropic", "base64", "image/jpeg", "none")
Bitmap   == Node("openai", "base64", "image/bmp", "none")
Linked(k, u) == Node(k, "url", "none", u)
Audio(k) == Node(k, "base64", "audio/wav", "none")
Entry(p, n) == [path |-> p, node |-> n]
SomeBodies ==
  LET O == Bare("object")  A == Bare("array")  L == Linked("anthropic", "https") IN
  {<<Entry(<<>>, O), Entry(<<"a">>, A), Entry(<<"a", "0">>, L),
     Entry(<<"a", "1">>, Linked("openai", "https")), Entry(<<"b">>, Picture)>>,
   <<Entry(<<>>, O), Entry(<<"a">>, O), Entry(<<"a", "b">>, L), Entry(<<"a/b">>, L)>>,
   <<Entry(<<>>, O), Entry(<<"a">>, O), Entry(<<"a", "b">>, Audio("audio")), Entry(<<"a/b">>, L)>>,
   <<Entry(<<>>, O), Entry(<<"a">>, O), Entry(<<"a", "b">>, Bitmap), Entry(<<"a.b">>, Audio("audio"))>>,
   <<Entry(<<>>, O), Entry(<<"a">>, A), Entry(<<"a", "0">>, Audio("audio")),
     Entry(<<"a", "1">>, Audio("input_audio")), Entry(<<"b">>, Linked("openai", "http_localhost"))>>,
   <<Entry(<<>>, O), Entry(<<"a">>, A), Entry(<<"a", "0">>, A),
     Entry(<<"a", "0", "1">>, Audio("input_audio")), Entry(<<"b">>, Bare("scalar"))>>,
   <<Entry(<<>>, O), Entry(<<"a">>, A), Entry(<<"a", "0">>, O),
     Entry(<<"a", "0", "b">>, Audio("input_audio")), Entry(<<"a", "1">>, L)>>,
   <<Entry(<<>>, O), Entry(<<"a">>, Bare("scalar")), Entry(<<"a.b">>, A),
     Entry(<<"a.b", "0">>, Audio("input_audio"))>>,
   <<Entry(<<>>, Audio("audio"))>>,
   <<Entry(<<>>, A), Entry(<<"0">>, Audio("audio")), Entry(<<"1">>, Linked("anthropic", "https_private"))>>}
Fate(b, p, s, a, h) == [bytes |-> b, processable |-> p, served |-> s, answered |-> a, heard |-> h]
SomeFates ==
  {Fate("none", TRUE, "image/png", TRUE, FALSE), Fate("image/png", FALSE, "none", TRUE, FALSE),
   Fate("image/jpeg", TRUE, "none", TRUE, TRUE), Fate("image/jpeg", TRUE, "image/bmp", TRUE, TRUE),
   Fate("image/png", TRUE, "image/png", FALSE, TRUE), Fate("image/png", TRUE, "text/html", TRUE, FALSE)}
Steps == {"a", "b", "a/b", "a.b", "0", "1"}
SlashParts == [s \in Steps |-> IF s = "a/b" THEN <<"a", "b">> ELSE <<s>>]
DotParts   == [s \in Steps |-> IF s = "a.b" THEN <<"a", "b">> ELSE <<s>>]

\* Markdown of up to five marks: backticks, fences, newlines, letters.
Marks == {<<"tick">>, <<"tick", "tick", "tick">>, <<"nl">>, <<"x">>, <<"(", ")">>}
SomeMarkdowns == {FlattenSeq(c) : c \in BoundedSeq(Marks, 5)}

\* Words with a hyphen, of digits, and of letters whose case changes size.
SomeKnownWords == {<<"a">>, <<"a", "k">>, <<"e", "-", "a">>, <<"1">>, <<"i">>}
SomeKnownNames == {<<"A", "a">>, <<"I">>, <<"A", "-", "A">>, <<"e", "a">>}

\* Model directories with and without a map, with a wrong one, too large, or
\* incomplete; words that the vocabularies spell in several ways or not at all.
Dir(f, l, v, m, n, b, c) ==
    [files |-> f, large |-> l, vocab |-> v, map |-> m, names |-> n, begins |-> b, continues |-> c]
FourLabels == <<<<"O", "">>, <<"B", "PER">>, <<"I", "PER">>, <<"I", "LOC">>>>
OddLabels  == <<<<"B", "MISC">>, <<"I", "MISC">>, <<"I", "LOC">>>>
Smalls == {<<"a">>, <<"a", "b">>, <<"b", "a">>}
Caps   == {<<"A", "b">>, <<"a">>, <<"b">>}
SomeDirs ==
    {Dir({"int8"}, {}, "ok", "labels", FourLabels, Smalls, {<<"a">>, <<"b">>, <<"b", "a">>}),
     Dir({"plain"}, {}, "ok", "id2label", OddLabels, Caps, {<<"a">>}),
     Dir({"int8", "plain"}, {"plain"}, "ok", "none", <<>>, Smalls, {<<"b">>}),
     Dir({"int8", "plain"}, {"int8"}, "ok", "none", <<>>, Smalls, {<<"b">>}),
     Dir({"plain"}, {}, "missing", "none", <<>>, Smalls, {}),
     Dir({"plain"}, {}, "ok", "broken", <<>>, Smalls, {})}
SomePassages ==
    {<<<<"A", "b", "a">>, <<"a">>>>, <<<<"b", "b">>, <<"A">>, <<"a", "b", "b">>>>}

\* One prefix inside another; headers that are stripped, for one hop only, or
\* repeated; a token that is cut between two lines or joined by a third.
SomeProviders ==
    {[prefix |-> <<"a">>, strip |-> {}], [prefix |-> <<"a", "b">>, strip |-> {"x-drop"}],
     [prefix |-> <<"c">>, strip |-> {"content-type"}]}
SomePaths == {<<"a", "b", "c">>, <<"c", "a">>, <<"b">>}
SomeHeaders ==
    {<<<<"x-drop", "1">>, <<"authorization", "1">>, <<"te", "1">>>>,
     <<<<"content-type", "text/plain">>, <<"connection", "1">>>>,
     <<<<"content-type", "x+json">>, <<"accept", "1">>, <<"host", "1">>, <<"accept", "2">>,
       <<"proxy-connection", "1">>, <<"transfer-encoding", "1">>>>}
SomeTexts == {<<>>, <<"x", "P">>}
SomeHeads ==
    {<<<<"content-type", "text/event-stream">>, <<"transfer-encoding", "1">>>>,
     <<<<"set-cookie", "1">>, <<"set-cookie", "2">>>>,
     <<<<"content-type", "application/json">>, <<"transfer-encoding", "1">>>>}
AnswerLine(k, t) == [kind |-> k, text |-> t]
SomeLines ==
    LET lines == {AnswerLine(k, <<t>>) : k \in {"chat", "generate", "other"}, t \in {"t", "k"}}
                 \cup {AnswerLine("bare", <<>>), AnswerLine("garbage", <<"t", "k">>)}
    IN  {<<>>} \cup {<<l>> : l \in lines} \cup (lines \X lines)
        \cup {<<AnswerLine("chat", <<"x">>), AnswerLine("chat", <<"t">>), AnswerLine("chat", <<"k">>)>>,
              <<AnswerLine("generate", <<"t">>), AnswerLine("garbage", <<"x">>),
                AnswerLine("generate", <<"k", "x">>)>>}

\* A setting is on only where something asks for it.
SettingsMatter ==
    /\ mediaSettings.client \/ mediaSettings.fetch => mediaSettings.images
    /\ mediaSettings.localHttp => mediaSettings.client /\ mediaSettings.fetch

\* The parts a behaviour is not about.
StreamAtRest ==
    /\ script = <<>> /\ carry = <<>> /\ buffer = <<>> /\ text = <<>> /\ out = <<>>
    /\ received = 0 /\ scanned = {}
    /\ midchar = FALSE /\ garbled = FALSE /\ truncated = FALSE /\ seen_done = FALSE
    /\ done = FALSE /\ ri_done = FALSE /\ ended = FALSE
NerAtRest ==
    /\ passage = <<"x">> /\ entities = {}
    /\ chunkStart = 0 /\ chunks = <<>> /\ nerMatches = <<>>
    /\ nerStage = "failed" /\ inferred = 0
HookAtRest ==
    /\ content = <<>> /\ hook = "before_tool_call" /\ result = <<>>
    /\ native = TRUE /\ proxyUp = TRUE /\ tokenKnown = TRUE /\ monitor = "active"
ScanAtRest ==
    /\ engine = "regex" /\ tagged = <<>> /\ results = {}
    /\ jsonBody = <<<<[nested |-> FALSE, cells |-> <<"x">>]>>>>
    /\ at = <<1>> /\ hits = <<<<>>>>
TaggerAtRest ==
    /\ weighed = <<[l \in 0..4 |-> 0]>> /\ trellis = weighed
    /\ pointers = <<[l \in 0..4 |-> 0]>>
    /\ labels = <<>> /\ pathScores = <<>> /\ tags = {} /\ crfStage = "forward"
WordsAtRest ==
    /\ sentence = <<>> /\ patternHits = <<>> /\ keywords = {} /\ names = {}
    /\ kept = {} /\ langKept = {} /\ detStep = "done"
FormatAtRest ==
    /\ kind = "card" /\ plain = <<>> /\ tweak = 1
    /\ token = <<>> /\ opened = <<>> /\ fpeStep = "refused"

RegionsAtRest ==
    /\ imageSize = <<7, 8>> /\ probMap = [c \in Cells2D |-> "none"]
    /\ cellLabel = [c \in Cells2D |-> 0] /\ parents = <<>> /\ textRegions = {}
    /\ ocrTier = "detect_and_fill" /\ ocrStage = "skipped" /\ readings = <<>> /\ hidden = {}
FacesAtRest ==
    /\ detector = "scrfd" /\ frame = <<8, 8>> /\ tileAt = 0
    /\ found = <<>> /\ faces = <<>> /\ faceStage = "done" /\ blanked = {}
MediaAtRest ==
    /\ mediaSettings = [images |-> FALSE, client |-> FALSE, fetch |-> FALSE,
                         localHttp |-> FALSE, spotter |-> FALSE]
    /\ given = <<Entry(<<>>, Audio("audio"))>> /\ doc = [p \in {<<>>} |-> Audio("audio")]
    /\ fate = [p \in {<<>>} |-> Fate("none", TRUE, "image/png", TRUE, FALSE)]
    /\ cursor = 1 /\ pendingUrls = <<>> /\ arrivals = <<>> /\ blocks = <<>>
    /\ imageCount = 0 /\ stripped = 0 /\ mediaStage = "unmodified"

FencesAtRest  == markdown = <<>> /\ blankedText = <<>> /\ scanAt = 1
OffsetsAtRest ==
    /\ written = <<>> /\ reader = "read" /\ by = "none" /\ reported = {} /\ features = <<>>
PiecesAtRest ==
    /\ modelDir = Dir({"plain"}, {}, "missing", "none", <<>>, Smalls, {}) /\ wordsRead = <<>>
    /\ labelMap = <<>> /\ pieces = <<>> /\ judged = <<>> /\ persons = {} /\ passStep = "refused"
ForwardAtRest ==
    /\ fwd = [mode |-> "proxy", scanning |-> FALSE, integrity |-> FALSE]
    /\ call = [path |-> <<>>, headers |-> <<>>, text |-> <<>>]
    /\ chosen = <<>> /\ outgoing = NoCall /\ exposed = 0
    /\ answered = [headers |-> <<>>, lines |-> <<>>, utf8 |-> TRUE, declared |-> Undeclared]
    /\ replied = NoReply /\ fwdStep = "refused"

DetectionInit ==
    /\ subject \in {"stream", "ner", "vote", "walk", "hook", "integrity",
                    "tagger", "words", "format", "text", "faces", "media",
                    "fences", "offsets", "pieces", "forward"}
    /\ IF subject = "fences" THEN FenceInit ELSE FencesAtRest
    /\ IF subject = "offsets" THEN WordInit ELSE OffsetsAtRest
    /\ IF subject = "pieces" THEN TokenInit ELSE PiecesAtRest
    /\ IF subject = "forward" THEN ForwardInit ELSE ForwardAtRest
    /\ IF subject = "text" THEN OcrInit ELSE RegionsAtRest
    /\ IF subject = "faces" THEN FaceInit ELSE FacesAtRest
    /\ IF subject = "media" THEN MediaInit /\ SettingsMatter ELSE MediaAtRest
    /\ IF subject = "tagger" THEN CrfInit ELSE TaggerAtRest
    /\ IF subject = "words" THEN DetInit ELSE WordsAtRest
    /\ IF subject = "format" THEN FpeInit ELSE FormatAtRest
    /\ IF subject = "stream" THEN Init ELSE StreamAtRest
    /\ IF subject = "ner" THEN NerInit ELSE NerAtRest
    /\ IF subject = "hook" THEN HookInit ELSE HookAtRest
    /\ IF subject = "walk" THEN ScanInit ELSE ScanAtRest
    /\ IF subject = "integrity" THEN TRUE
       ELSE /\ body = [kind |-> "opaque", fields |-> <<TRUE>>]
            /\ sensitivity = "off" /\ model = "absent"
    /\ RiInit

DetectionNext ==
    \/ Only("stream") /\ Next
    \/ Only("ner") /\ NerNext
    \/ Only("vote") /\ (RunEngine \/ Vote)
    \/ Only("walk") /\ \E e \in DOMAIN jsonBody : ScanString(e)
    \/ Only("hook") /\ HookNext
    \/ Only("integrity") /\ RiNext
    \/ Only("tagger") /\ CrfNext
    \/ Only("words") /\ DetNext
    \/ Only("format") /\ FpeNext
    \/ Only("text") /\ OcrNext
    \/ Only("faces") /\ FaceNext
    \/ Only("media") /\ MediaNext
    \/ Only("fences") /\ FenceNext
    \/ Only("offsets") /\ WordNext
    \/ Only("pieces") /\ TokenNext
    \/ Only("forward") /\ ForwardNext

DetectionSpec == DetectionInit /\ [][DetectionNext]_detectionVars

\* The parts at rest stay what they were made above.
DetectionTypeOK ==
    /\ subject = "stream" => TypeOK
    /\ subject = "ner" => NerTypeOK
    /\ subject \in {"vote", "walk"} => ScanTypeOK
    /\ subject = "hook" => HookTypeOK
    /\ subject = "integrity" => RiTypeOK
    /\ subject = "tagger" => CrfTypeOK
    /\ subject = "words" => DetTypeOK
    /\ subject = "format" => FpeTypeOK
    /\ subject = "text" => OcrTypeOK
    /\ subject = "faces" => FaceTypeOK
    /\ subject = "media" => MediaTypeOK
    /\ subject = "fences" => FenceTypeOK
    /\ subject = "offsets" => WordTypeOK
    /\ subject = "pieces" => TokenTypeOK
    /\ subject = "forward" => ForwardTypeOK
=============================================================================
