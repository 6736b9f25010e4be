---------------------------- MODULE MediaIntake ----------------------------
(***************************************************************************)
(* The media of one request body (body.rs, image_detect.rs,                *)
(* image_fetch.rs, voice_detect.rs, voice_pipeline.rs): embedded images    *)
(* are replaced where they are found, images behind a URL are fetched      *)
(* concurrently and put back by JSON pointer, and audio blocks in which a  *)
(* keyword was heard become a notice, found again by a path of its own.    *)
(*                                                                         *)
(* The body is a function from paths to nodes; a path is a sequence of     *)
(* keys and of indices, which are strings here as they are in a path that  *)
(* was written down.  What the codecs, the server of an image and the      *)
(* models make of a block is external: its fate.                           *)
(***************************************************************************)
EXTENDS FiniteSets, SequencesExt, Selection

CONSTANTS
    MediaBodies,   \* bodies: sequences of [path, node] in the order of the walk
    Fates,         \* what may come of a media block
    ArrayIndices,  \* the steps of a path that are indices of an array
    PointerParts,  \* per step: its parts between slashes
    PathParts      \* per step: its parts between dots

\* Types a label names; image/bmp stands for those the code does not know.
Labels2 == {"none", "image/png", "image/jpeg", "image/bmp"}

VARIABLES
    mediaSettings, \* which of images, fetching, a client and the spotter there are
    given,         \* the body as it arrived
    doc,           \* the parsed body
    fate,          \* per media block: what comes of it
    cursor,        \* the pending image, or the audio block, that is next
    pendingUrls,   \* images behind a URL, in the order of the walk
    arrivals,      \* those whose fetch ended, in that order
    blocks,        \* audio blocks, in the order of the walk
    imageCount,    \* images in the statistics
    stripped,      \* audio blocks that were replaced
    mediaStage     \* "walk", "fetch", "place", "listen", "scan", "panicked", "modified" or "unmodified"

mediaVars == <<mediaSettings, given, doc, fate, cursor, pendingUrls, arrivals,
               blocks, imageCount, stripped, mediaStage>>

Paths(entries) == {entries[i].path : i \in DOMAIN entries}
NodeAt(entries, p) == entries[CHOOSE i \in DOMAIN entries : entries[i].path = p].node
ImageKinds == {"anthropic", "openai"}
AudioKinds == {"audio", "input_audio"}
MediaNodes ==
    [kind : {"object", "array", "scalar", "null", "notice"} \cup ImageKinds \cup AudioKinds,
     form : {"none", "base64", "url"}, label : Labels2 \cup {"audio/wav"}, url : STRING,
     of : Seq(STRING), clean : BOOLEAN, bytes : Labels2]

(* A body is a tree: no path twice, and each below the array or the object *)
(* it is a step from.  A key that is not cut is its own part.              *)
ASSUME MediaAssumption ==
    /\ \A b \in MediaBodies :
         /\ b \in Seq([path : Seq(STRING), node : MediaNodes])
         /\ \A i, j \in DOMAIN b : b[i].path = b[j].path => i = j
         /\ \A i \in DOMAIN b :
              /\ Range(b[i].path) \subseteq DOMAIN PointerParts \cap DOMAIN PathParts
              /\ b[i].node.kind \in ImageKinds => b[i].node.label \in Labels2
              /\ b[i].node.form # "url" => b[i].node.url = "none"
              /\ b[i].path # <<>> =>
                   \E j \in DOMAIN b :
                     /\ b[j].path = Front(b[i].path)
                     /\ IF Last(b[i].path) \in ArrayIndices THEN b[j].node.kind = "array"
                        ELSE b[j].node.kind \notin {"array", "scalar", "null"}
    /\ Fates \subseteq [bytes : Labels2, processable : BOOLEAN, served : STRING,
                        answered : BOOLEAN, heard : BOOLEAN]
    /\ \A parts \in {PointerParts, PathParts} : \A k \in DOMAIN parts :
         /\ parts[k] \in Seq(STRING)
         /\ Len(parts[k]) = 1 => parts[k] = <<k>>

MediaTypeOK ==
    /\ given \in MediaBodies
    /\ Paths(given) \subseteq DOMAIN doc
    /\ \A p \in DOMAIN doc : doc[p].label \in Labels2 \cup {"audio/wav"}
    /\ cursor \in Nat
    /\ Range(pendingUrls) \subseteq Paths(given)
    /\ Range(arrivals) \subseteq Range(pendingUrls)
    /\ Range(blocks) \subseteq Paths(given)
    /\ imageCount \in 0..Len(given)
    /\ stripped \in 0..Len(blocks)

MediaInit ==
    /\ mediaSettings \in [images : BOOLEAN, client : BOOLEAN, fetch : BOOLEAN,
                          localHttp : BOOLEAN, spotter : BOOLEAN]
    /\ given \in MediaBodies
    /\ doc = [p \in Paths(given) |-> NodeAt(given, p)]
    /\ fate \in [{p \in Paths(given) : NodeAt(given, p).kind \in ImageKinds \cup AudioKinds} -> Fates]
    /\ cursor = 1
    /\ pendingUrls = <<>>
    /\ arrivals = <<>>
    /\ blocks = <<>>
    /\ imageCount = 0
    /\ stripped = 0
    /\ mediaStage = IF mediaSettings.images THEN "walk" ELSE "listen"

-----------------------------------------------------------------------------
(* process_single_image and encode_to_base64: the image is encoded as its  *)
(* label says, and as PNG when the label says nothing that is known.       *)
OutputFormat(label) == IF label = "image/jpeg" THEN label ELSE "image/png"
Processed(node, p, label) ==
    [node EXCEPT !.form = "base64", !.of = p, !.clean = TRUE, !.bytes = OutputFormat(label)]

(* is_image_content_block, detect_url_image_block.                         *)
Embedded(node)  == node.kind \in ImageKinds /\ node.form = "base64"
BehindUrl(node) == node.kind \in ImageKinds /\ node.form = "url"
IsImage(node)   == Embedded(node) \/ BehindUrl(node)

(* An embedded image that decodes to what begins like an image and that    *)
(* goes through the pipeline; anything else stays as it is (fail-open).    *)
Fine(p) == fate[p].bytes # "none" /\ fate[p].processable

\* The body in the order both walks go through it.
WalkOrder == [i \in DOMAIN given |-> given[i].path]

(* walk_json_for_images: embedded images at once, the others later.        *)
Walk ==
    /\ mediaStage = "walk"
    /\ LET now == {p \in DOMAIN fate : Embedded(doc[p]) /\ Fine(p)} IN
         /\ doc' = [p \in DOMAIN doc |-> IF p \in now THEN Processed(doc[p], p, doc[p].label) ELSE doc[p]]
         /\ imageCount' = Cardinality(now)
    /\ pendingUrls' = Those(WalkOrder, {p \in Paths(given) : BehindUrl(doc[p])})
    /\ mediaStage' = IF pendingUrls' # <<>> /\ mediaSettings.client THEN "fetch" ELSE "listen"
    /\ UNCHANGED <<mediaSettings, given, fate, cursor, arrivals, blocks, stripped>>

-----------------------------------------------------------------------------
(* validate_url.                                                           *)
UrlAllowed(url) ==
    /\ mediaSettings.fetch
    /\ \/ url = "https"
       \/ url = "http_localhost" /\ mediaSettings.localHttp

(* fetch_image_url: a response in time with an acceptable status, type and *)
(* size, and a body that begins like an image.  The type is that of the    *)
(* response, and that of the bytes when the response has none.             *)
Fetched(p) ==
    /\ UrlAllowed(NodeAt(given, p).url)
    /\ fate[p].answered
    /\ fate[p].served \in Labels2
    /\ fate[p].bytes # "none"
FetchedLabel(p) == IF fate[p].served = "none" THEN fate[p].bytes ELSE fate[p].served

(* join_all: the fetches end in any order, and are waited for together.    *)
FetchEnds ==
    /\ mediaStage = "fetch"
    /\ \E p \in Range(pendingUrls) \ Range(arrivals) : arrivals' = Append(arrivals, p)
    /\ mediaStage' = IF Len(arrivals') = Len(pendingUrls) THEN "place" ELSE mediaStage
    /\ UNCHANGED <<mediaSettings, given, doc, fate, cursor, pendingUrls, blocks,
                   imageCount, stripped>>

\* Mutant: the results are taken in the order in which the fetches ended.
ResultOfArrival(i) == arrivals[i]

(* The block whose image is the result for the i-th pending one.           *)
ResultOf(i) == pendingUrls[i]

(* The node a JSON pointer leads to; its keys are written down as they     *)
(* are, so one with a slash is read as two.                                *)
Pointed(p) == FlattenSeq([i \in DOMAIN p |-> PointerParts[p[i]]])

(* replace_url_with_base64: the target must have the object that the       *)
(* format of the pending image calls for.                                  *)
HasSource(node, kind) ==
    IF kind = "anthropic" THEN node.kind \in {"anthropic", "audio"} ELSE node.kind = "openai"
PutImage(p, from) ==
    LET t == Pointed(p) IN
    IF t \in DOMAIN doc /\ HasSource(doc[t], NodeAt(given, p).kind)
    THEN [doc EXCEPT ![t] = [Processed(@, from, FetchedLabel(from))
                               EXCEPT !.label = FetchedLabel(from), !.url = "none"]]
    ELSE doc

PlaceNext ==
    /\ mediaStage = "place"
    /\ cursor <= Len(pendingUrls)
    /\ cursor' = cursor + 1
    /\ LET from == ResultOf(cursor) IN
         IF Fetched(from) /\ fate[from].processable
         THEN /\ doc' = PutImage(pendingUrls[cursor], from)
              /\ imageCount' = imageCount + 1
         ELSE UNCHANGED <<doc, imageCount>>
    /\ UNCHANGED <<mediaSettings, given, fate, pendingUrls, arrivals, blocks, stripped, mediaStage>>

EndPlace ==
    /\ mediaStage = "place"
    /\ cursor > Len(pendingUrls)
    /\ mediaStage' = "listen"
    /\ UNCHANGED <<mediaSettings, given, doc, fate, cursor, pendingUrls, arrivals, blocks,
                   imageCount, stripped>>

-----------------------------------------------------------------------------
(* detect_audio_blocks.                                                    *)
IsAudio(node) ==
    \/ node.kind = "audio" /\ node.form = "base64" /\ node.label = "audio/wav"
    \/ node.kind = "input_audio"

DetectAudio ==
    /\ mediaStage = "listen"
    /\ blocks' = IF mediaSettings.spotter
                 THEN Those(WalkOrder, {p \in Paths(given) : IsAudio(doc[p])}) ELSE <<>>
    /\ cursor' = 1
    /\ mediaStage' = "scan"
    /\ UNCHANGED <<mediaSettings, given, doc, fate, pendingUrls, arrivals, imageCount, stripped>>

(* The path a block is found again by: parts between dots, each a name     *)
(* and the indices that follow it.                                         *)
AddStep(parts, step) ==
    IF step \notin ArrayIndices
    THEN parts \o [i \in DOMAIN PathParts[step] |-> [name |-> PathParts[step][i], indices |-> <<>>]]
    ELSE IF parts = <<>> THEN <<[name |-> "", indices |-> <<step>>]>>
    ELSE [parts EXCEPT ![Len(parts)].indices = Append(@, step)]
WrittenPath(p) ==
    LET parts[n \in 0..Len(p)] == IF n = 0 THEN <<>> ELSE AddStep(parts[n - 1], p[n])
    IN  IF p = <<>> THEN <<[name |-> "", indices |-> <<>>]>> ELSE parts[Len(p)]

(* current[name]: a key that is missing is inserted, null becomes an       *)
(* object, anything else panics.                                           *)
NullNode == [kind |-> "null", form |-> "none", label |-> "none", of |-> <<>>,
             clean |-> FALSE, bytes |-> "none", url |-> "none"]
IndexByName(w, name) ==
    LET to   == Append(w.at, name)
        here == w.doc[w.at]
        open == IF here.kind = "null" THEN [w.doc EXCEPT ![w.at].kind = "object"] ELSE w.doc
    IN  IF w.panicked \/ here.kind \in {"array", "scalar"} THEN [w EXCEPT !.panicked = TRUE]
        ELSE [doc |-> IF to \in DOMAIN open THEN open
                      ELSE [q \in DOMAIN open \cup {to} |-> IF q = to THEN NullNode ELSE open[q]],
              at |-> to, panicked |-> FALSE]
IndexByNumber(w, index) ==
    LET to == Append(w.at, index)
    IN  IF w.panicked \/ w.doc[w.at].kind # "array" \/ to \notin DOMAIN w.doc
        THEN [w EXCEPT !.panicked = TRUE]
        ELSE [w EXCEPT !.at = to]

(* A part with two indices does not parse and is passed over.              *)
TakePart(w, part) ==
    CASE part.indices = <<>>    -> IndexByName(w, part.name)
      [] Len(part.indices) = 1  -> IndexByNumber(IndexByName(w, part.name), part.indices[1])
      [] OTHER -> w
Reached(p) ==
    LET ps == WrittenPath(p)
        w[n \in 0..Len(ps)] ==
          IF n = 0 THEN [doc |-> doc, at |-> <<>>, panicked |-> FALSE] ELSE TakePart(w[n - 1], ps[n])
    IN  w[Len(ps)]

(* scan_single_block and replace_audio_with_notice.                        *)
Notice(node) == [node EXCEPT !.kind = "notice", !.form = "none", !.label = "none"]
Heard(p) == fate[p].bytes # "none" /\ fate[p].heard
ScanAudio ==
    /\ mediaStage = "scan"
    /\ cursor <= Len(blocks)
    /\ cursor' = cursor + 1
    /\ IF ~Heard(blocks[cursor]) THEN UNCHANGED <<doc, stripped, mediaStage>>
       ELSE LET w == Reached(blocks[cursor])
                hit == w.doc[w.at].kind \in AudioKinds
            IN  /\ doc' = IF hit /\ ~w.panicked THEN [w.doc EXCEPT ![w.at] = Notice(@)] ELSE w.doc
                /\ stripped' = IF hit /\ ~w.panicked THEN stripped + 1 ELSE stripped
                /\ mediaStage' = IF w.panicked THEN "panicked" ELSE mediaStage
    /\ UNCHANGED <<mediaSettings, given, fate, pendingUrls, arrivals, blocks, imageCount>>

(* The end of process_request_body: the text pass replaces what it found,  *)
(* finds nothing, or fails on all it found.  Only an image counts as a     *)
(* change in the last case.                                                *)
Conclude ==
    /\ mediaStage = "scan"
    /\ cursor > Len(blocks)
    /\ \E text \in {"nothing", "replaced", "failed"} :
         mediaStage' =
           CASE text = "nothing"  -> IF imageCount = 0 /\ stripped = 0 THEN "unmodified" ELSE "modified"
             [] text = "replaced" -> "modified"
             [] text = "failed"   -> IF imageCount = 0 THEN "unmodified" ELSE "modified"
    /\ UNCHANGED <<mediaSettings, given, doc, fate, cursor, pendingUrls, arrivals, blocks,
                   imageCount, stripped>>

MediaNext ==
    \/ Walk \/ FetchEnds \/ PlaceNext \/ EndPlace
    \/ DetectAudio \/ ScanAudio \/ Conclude

MediaSpec == MediaInit /\ [][MediaNext]_mediaVars

-----------------------------------------------------------------------------
(* A body whose paths can be written down: an object whose keys have       *)
(* neither slashes nor dots, and no array directly in an array.            *)
PlainPath(p) ==
    /\ p # <<>> => p[1] \notin ArrayIndices
    /\ \A i \in DOMAIN p : Len(PointerParts[p[i]]) = 1 /\ Len(PathParts[p[i]]) = 1
    /\ \A i \in 2..Len(p) : ~(p[i] \in ArrayIndices /\ p[i - 1] \in ArrayIndices)
PlainBody == /\ \A p \in Paths(given) : PlainPath(p)
             /\ NodeAt(given, <<>>).kind = "object"

(* What should have become of an image.                                    *)
Replaced(p) ==
    LET node == NodeAt(given, p) IN
    /\ mediaSettings.images
    /\ fate[p].processable /\ fate[p].bytes # "none"
    /\ node.form = "url" =>
         /\ mediaSettings.client /\ mediaSettings.fetch /\ fate[p].answered
         /\ fate[p].served \in Labels2
         /\ node.url = "https" \/ (node.url = "http_localhost" /\ mediaSettings.localHttp)

(* What is sent for a body with plain paths: every image that could be     *)
(* processed shows its own picture, processed, embedded, and counted once, *)
(* in whatever order the fetches ended; its label says how it is encoded,  *)
(* unless the label is none the code knows; audio in which a keyword was   *)
(* heard is a notice, unless the body goes out as it came; and every other *)
(* node is as it arrived.  Only paths that are not plain end in a panic.   *)
MediaFindsItsBlock ==
    /\ mediaStage \in {"modified", "unmodified"} /\ PlainBody =>
         LET sent == IF mediaStage = "modified" THEN doc
                     ELSE [p \in Paths(given) |-> NodeAt(given, p)]
         IN  /\ DOMAIN sent = Paths(given)
             /\ \A p \in Paths(given) :
                  LET node == NodeAt(given, p) IN
                  CASE IsImage(node) /\ Replaced(p) ->
                         /\ sent[p].of = p /\ sent[p].clean
                         /\ sent[p].kind = node.kind /\ sent[p].form = "base64" /\ sent[p].url = "none"
                         /\ sent[p].label \in {"none", "image/bmp", sent[p].bytes}
                    [] IsAudio(node) /\ mediaSettings.spotter /\ Heard(p) ->
                         \/ sent[p].kind = "notice"
                         \/ mediaStage = "unmodified" /\ imageCount = 0
                    [] OTHER -> sent[p] = node
             /\ imageCount = Cardinality({p \in DOMAIN fate :
                                  IsImage(NodeAt(given, p)) /\ Replaced(p)})
    /\ mediaStage = "panicked" => ~PlainBody
=============================================================================
