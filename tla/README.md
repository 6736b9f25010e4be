# OpenObscure in TLA+

A verification development for OpenObscure: TLA+ models of the proxy that masks
personal data (PII) on its way to an LLM provider and restores it in the answer,
of the engines that find the data, and of the services, the library and the
plugin around them; the TLC runs that check the models; and TLAPS proofs of
their main theorems. Paths without a directory are files of
`src/openobscure-core/src/`; `docs/` and `openobscure-plugin/` lie under `src/`.

    tlc -workers 2 -config lifecycle.cfg MCRequestLifecycle
    tlapm RequestLifecycleProofs.tla

`PROJECT.json` maps every definition to the lines it models, and lists the runs,
the mutants (one slip in the code per property, which the run must notice), the
hazards and the theorems.

## 1. The system

An agent sends its LLM requests to a local HTTP proxy. The proxy scans the JSON
body, replaces PII by format-preserving ciphertexts or hash tokens, keeps the
mapping of the request in memory, forwards the masked body, and restores the
plaintexts in the answer, which is buffered or an SSE stream. Images and audio
in the body are cleaned as well. A journal in a memory-mapped file says at the
next start which requests a crash cut off. The same detectors are built into a
library for phones and into a native addon, which the plugin of the agent calls
from its hooks.

### Components

| Component | State | Operations | What makes it correct | Modelled |
|---|---|---|---|---|
| proxy handler (`proxy.rs`) | a future per request, a stream closure per SSE response | choose the provider, buffer, scan, insert mapping, journal, forward, collect or stream, restore, remove, journal, reply | the text of an answer is restored; the journal entry precedes the bytes; every handler ends; headers and lengths are right | RequestLifecycle, Exchange, Forwarding, SseStream |
| mapping store (`mapping.rs`) | request id to mappings, with creation time | insert, get, remove, eviction every 60 s after a TTL of 300 s | an entry outlives the wait for its answer, none stays, every value comes back in its place | RequestLifecycle, BodyMasking |
| server (`server.rs`) | timeout layer, background tasks, readiness | serve, time out, evict, prewarm, stop | timeouts against the TTL; readiness | RequestLifecycle, HealthStats |
| journal, crash buffer (`crash_buffer.rs`) | ring of bytes and offset in a mapped file, behind a mutex | write_line, read_contents, read_incomplete | losses are found and completed requests not accused, across wraps and torn writes | CrashJournal |
| SSE buffers (`sse_accumulator.rs`) | line, content and integrity buffers | feed, flush, feed_sse_data, take_text | content once, in order, whole, scanned; `[DONE]` passed on | SseStream |
| startup (`main.rs`, `device_profile.rs`) | settings, tier, budget, models on disk | profile, choose, load, fall back, serve | the strongest backend that loads serves | Startup |
| body processing (`body.rs`) | the JSON of a body, its mappings | image, fetch, voice and text passes, replace by path | nothing found stays in clear uncounted; nothing else changes | BodyMasking, Forwarding |
| media intake (`image_detect.rs`, `image_fetch.rs`, `voice_*.rs`) | concurrent fetches, paths of blocks | find, fetch, put back, strip | a result lands in the block it came from | MediaIntake |
| key manager, vault (`key_manager.rs`, `vault.rs`) | current and previous engine behind two locks; five places of a key | rotate, current, previous; --init-key, key-rotate | versions name keys; an engine in use can be had through the overlap | KeyLifecycle |
| FPE engine (`fpe_engine.rs`), tokens (`hash_token.rs`) | tokens used in a request | format, encrypt, decrypt; generate | a token tells its value; distinct values have distinct tokens | FpeFormat, BodyMasking |
| hybrid scanner (`hybrid_scanner.rs`) | none | blank code, run engines, cluster, vote, walk JSON | one winner per cluster, no strong finding lost | HybridScanner, CodeFences |
| detectors (`scanner.rs`, `keyword_dict.rs`, `name_gazetteer.rs`, `multilingual/`, `crf_scanner.rs`) | none | match, deduplicate, look up, label | findings survive, offsets address the text, labels are the best ones | TextDetectors, WordOffsets, CrfTagger |
| NER (`ner_scanner.rs`, `wordpiece.rs`) | pool of sessions, condition variable | acquire, wait, fall back; cut, label, join, merge | no session lost, no waiter forgotten, entities reported once and whole | NerPool, NerText, NerTokens |
| response integrity (`response_integrity.rs`, `persuasion_dict.rs`) | dictionary, model | R1, R2, sampling, severity, label | what the dictionary sees counts | ResponseIntegrity |
| image pipeline (`image_pipeline.rs`, detectors) | six model slots, last use | load, infer, evict, fill | eviction costs no result; what was found is filled | ImageModels, TextRegions, FaceBoxes |
| health (`health.rs`) | counters, stats file, marker | count, save, load, report | counters survive, crashes are told | HealthStats |
| passthrough mode (`passthrough.rs`) | none | forward | headers and lengths | Forwarding |
| library (`lib_mobile.rs`) | engine, registry of a conversation | sanitize, restore, rotate | one token per value, values come back | MobileSession |
| plugin (`openobscure-plugin/`), addon (`openobscure-napi/`) | monitor state, requests in flight | start, stop, check; hooks | the state follows the proxy; hooks redact | Heartbeat, PluginRedaction, WordOffsets |
| logging | none | formatting, output | | no |

### How they interact

* The handler calls the store (an async `RwLock`) and the journal (a `Mutex`,
  held over one line); the eviction task and other handlers run at its awaits.
* `TimeoutLayer` and a broken connection drop the handler future where it waits;
  the code after that await never runs. The layer is done with a request when
  the response head is ready, so it bounds a buffered answer but not a stream.
* A stream keeps its own copy of the mappings and removes the store entry itself.
* Scans run on blocking threads, which share the NER pool and the image models.
* The health endpoint serves the counters the handlers raise and the readiness
  the prewarm task sets; the heartbeat of the plugin reads it, and the hooks
  read the state of the monitor.
* At the next start `main.rs` reads the journal, the marker and the stats file.

### Hard behaviours

Races of eviction, timeout, disconnect and answer; a crash between any two of
insert, start entry, request, completion entry and answer; a kill in the middle
of a line of a wrapping ring or of a file rewritten in place; chunks cut inside
a line or a character; a stream that goes on after `[DONE]`; threads overtaken
between being woken and locking; models evicted under an inference; checks that
settle in any order; offsets that count bytes, characters or code units; merges
of overlapping findings. `PROJECT.json` lists the hazards with their lines and
the properties that cover them; every one has at least one.

## 2. Modules

A module holds the state and the operations of one component; its type
invariant, its assumption on the constants and its properties carry the name of
the component. The value of a variable that holds a place in the program
(`phase`, `at`, `stage`, `starting`) is the program counter of a task or thread.

**The way of a request**

* **Exchange** is the contract: masked text leaves only behind a start entry,
  restored text is given only behind a completion entry, and the text of an
  answer to a masked request is restored or missing. Lines of a stream that are
  not text are relayed as they come, before the completion entry (`Relay`).
* **RequestLifecycle** is `proxy_handler` cut at its awaits, with the store, the
  eviction task, the timeout layer, the journal as a set of entries, crash and
  restart. One action per stretch between awaits or per store and journal call
  within one. `reply` is what became of the text of an answer, and the history
  variable `relayed` names the streams whose client was also given lines that
  `extract_content` takes no text from, unrestored (`PassThrough`). It implements
  Exchange (`ImplementsExchange`), with `open` and `closed` defined from the
  phases.
* **Forwarding** is what goes over the wire: provider by path prefix, headers,
  lengths, the fail modes of body processing, and the answer with its NDJSON
  collapse; passthrough mode is its other branch.
* **SseStream** is the stream closure with both SSE buffers. The provider's
  lines are two pieces each, and chunks are runs of pieces cut anywhere.
* **BodyMasking** is one body in `process_request_body` and back in
  `decrypt_response`: the passes over attachments, the loop over the matches in
  both fail modes, token generation with colliding hashes, replacement by path
  and offset, an answer quoting what was sent, and the two restoring passes.
* **MediaIntake** is what BodyMasking abstracts of the attachments: which blocks
  are found, fetches that end in any order, and where results are put back.
* **ResponseIntegrity** is the scan of an answer: R1, R2 with its windows and
  failures, severity, sampling, the label, and the mirror in the plugin.

**Finding data**

* **HybridScanner** (extends **CodeFences**, the blanking of Markdown code) is
  engines, clusters, votes and the walk of a JSON body with nested documents.
* **TextDetectors** (patterns, keywords, names), **WordOffsets** (tokenizers and
  offsets), **CrfTagger** (features to entities), **NerTokens** (loading, word
  pieces, labels) and **NerText** (chunks, BIO tags, merge) are the engines.
* **FpeFormat** is how a value becomes a token of the same format and back.
* **TextRegions** and **FaceBoxes** are what an image's models say, what is made
  of it, and which pixels are filled.
* **PluginRedaction** is the plugin's hooks with the scanners they call.

**Services**

* **CrashJournal** is the ring the journal is kept in. A cell stands for a run
  of bytes; `Lock`, `CopyCell`, `MoveOffset` are the three parts of
  `write_line`. The journal of RequestLifecycle is this one without the ring.
* **NerPool**, **KeyLifecycle**, **ImageModels**: tasks around shared state.
* **HealthStats**: processes one after the other and the files between them.
* **Heartbeat**: the plugin's timer, checks that overlap, start and stop.
* **MobileSession**: turns of a conversation, with a key rotation beside them.
* **Startup**: from memory, settings and disk to what runs.

**For TLC.** MCRequestLifecycle, MCCrashJournal, MCBodyMasking and MCSseStream
name the instances. **MCServices** and **MCDetection** put many components into
one run: they share no state, so a behaviour picks a `subject` and leaves the
others where they are; every property is checked in every behaviour, and a
component's reachable states are those it has alone.
**For TLAPS.** The modules whose names end in Proofs: RequestLifecycleProofs and
BodyMaskingProofs each for the component of that name, StreamProofs for SseStream
and for the types of MCDetection as a whole,
ServiceProofs for the services, DetectionProofs for CrfTagger, ResponseIntegrity,
Forwarding, HybridScanner, FpeFormat, TextDetectors and PluginRedaction,
NerProofs for NerTokens, NerText and WordOffsets,
ImageProofs for TextRegions, FaceBoxes and MediaIntake. **Selection** selects the
elements of a sequence by a set, in place of `SelectSeq`, whose operator
parameter the provers cannot expand; the modules proved about use it.
**DataLemmas** holds what their proofs share about sequences and recursion.

In each module some operators are marked as mutants: plausible slips in the
definition they stand beside.

### What the models assume

* A poll of a handler takes no clock time, and the timeout layer polls the
  handler after its timer (a handler that is resumed has not expired).
* `now` in the eviction loop is read before the lock is taken: an entry judged
  by it is younger than it would be judged later, so nothing is evicted early.
* Pieces of a journal line are stored in program order in shared pages, which
  outlive the process (not a power cut).
* Request ids are fresh. HTTP retries are new requests.
* What stands between `lock()` and unlock is one step, except where code of
  another thread can run: the wait on a condition variable, the two locks of a
  rotation, the slots cleared one after the other.
* Inference is external: a model gives any labels, scores, maps and boxes of
  the small sets in the .cfg, or fails. FF1 is, per length and tweak, any cipher
  with an inverse on numerals (`Ff1Assumption`; the run takes one that shifts
  them); the digest is a choice of hash per value. The FPE ciphertexts of one
  request are distinct from one another and from the text around them; FF1
  makes that likely (a domain of a million at least), the code does not check it.
* Geometry is exact: the rounding of f32 is not modelled, images are not resized.
* A text is a sequence of cells, words, bytes or characters, whichever the
  properties of the module tell apart; regular expressions are the matches they
  return.
* A stream without mappings passes chunks as they are; `event:` lines and the
  delta formats of providers are not modelled.
* The branch `done && !ri_done` of the closure is never taken: no state sets
  `done` without `ri_done`.

## 3. Runs

| Run | Module | Question |
|---|---|---|
| lifecycle | MCRequestLifecycle | safety, the refinement of Exchange, and that handlers end and the store drains, for two exchanges |
| masking | MCBodyMasking | masking and restoring of every small body, in both fail modes |
| services | MCServices | the services, one per behaviour |
| detection | MCDetection | stream, forwarding and the detection engines, one per behaviour |
| lifecycle_long_timeout | MCRequestLifecycle | a timeout longer than the TTL: `NoRawText` is violated |
| lifecycle_relayed | MCRequestLifecycle | a stream of lines without text, the timeout within the TTL: `NoRawReply` is violated |
| journal_torn | MCCrashJournal | a torn line: `EveryLossIsFound` is violated |
| sse_content_twice | MCSseStream | a stream read for integrity alone: `ContentOnce` is violated |
| masking_dotted | MCBodyMasking | keys with dots: `ClosedHidesAll` is violated |
| masking_voice | MCBodyMasking | failing matches and stripped audio: `StrippedStaysStripped` is violated |
| chunks_stall | NerText | a long word behind a short piece: `ChunksAdvance` is violated |
| plugin_offsets | PluginRedaction | text that is not ASCII: `EveryTextIsRedacted` is violated |

What the passing runs show:

| Property | States |
|---|---|
| NoRawText, MappingOutlivesWait | the text of an answer never reaches a client unrestored, since no mapping is evicted while its answer can come (timeout not above TTL); of the other lines of a stream nothing is claimed |
| JournalIsTrue | completion entries are about removed mappings; after a crash every masked request that was sent and not completed is reported, and none that was answered |
| ImplementsExchange | the lifecycle keeps the contract, step by step |
| HandlerEnds, StoreDrains | every handler ends, and every mapping leaves the store |
| MaskedOrCounted, CleanedIsSent, RoundTrip | what goes out in clear is counted; a cleaned attachment is never sent as it came (in closed mode for audio); values come back in their places |
| RestartReportIsTrue | the ring's report after a kill anywhere in a line, with wraps |
| SessionsConserved, NoSleeperForgotten | NER sessions are neither lost nor shared; nobody sleeps while one is free and no notification is on its way |
| VersionsNameKeys, HeldEngineIsKept | a version names one key; an engine in use can be had again through the overlap |
| SkippedMeansFailed, VisibleTextWasRead, ModelsAreReleased | evictions cost no result, text stays visible only where it was read or could not be, and models are given back |
| RestartTellsTheTruth | statistics are never overcounted nor lost but by a cut write, and the marker tells of panics |
| ConversationHolds | one token per value in a batch conversation, and answers are restored over turns and rotations |
| BackendServes | NER serves if it may and no configured model of it is broken, else CRF if that may and can, and neither without leave of mode and budget; an enabled pool has a session |
| StoppedStaysDisabled, BeatFollowsProxy | the monitor's state, with overlapping and late checks |
| StreamIsWhole | content once, in order, whole, scanned; `[DONE]` passed on |
| FindingsAreAnswered | masked spans are disjoint, a strong finding is answered, code alone is hidden from the scan |
| EntitiesAreReported, TokensAreReported | of the NER model's labels nothing is cut, joined or lost |
| LabelsAreBest | Viterbi finds the best of all labellings |
| FindingsSurvive, OffsetsAddressText | a finding disappears only behind another; its offsets are where it stands |
| TokenTellsValue | tokens lead back to their values, up to case |
| EvidenceCounts | two categories of R1 are reported whatever R2 does; the plugin agrees |
| TextIsHidden, FacesAreHidden | the pixels of what was found are filled, and no others |
| MediaFindsItsBlock | each result lands in its block, each other node is as it was |
| ForwardedWhole | headers, lengths, provider, and an answer cut into NDJSON lines |
| AsciiIsRedacted | the plugin's three ways of redaction on ASCII text |

Where a property carves out a case (an exception in its formula), the case is
real: the comment above it says what the code does there, and section 4 lists it.

### Bounds and why they are enough

* Exchanges share nothing but the store, the clock and the crash: two show every
  interference of one with another, and the proofs cover any number. Times
  matter only relative to one another; `RequestTimeout = TTL` is the shipped
  relation (both 300 s).
* The ring of 16 cells is not a multiple of the five cells of a line, so six
  lines wrap at a different place each time; sizes 10, 11, 12, 15 and 17 gave
  the same result.
* Four threads on two sessions: two hold, two wait, and one is overtaken between
  waking and locking; one spurious wake-up. Two rotating tasks and a request
  meet both locks of a rotation in any order.
* Two images, four configurations that between them use all six models and
  every fallback, a tile, and evictions of both kinds at any slot.
* Two counters show a save that reads them at different times; two checks show
  every order of overlapping answers; two turns and two rotations show a value
  known from the turn before under an older key.
* The memories of Startup are one per tier, with the pool sizes 0 and 2. What
  features are wanted follows auto_detect there, which no property relates.
* Bodies have two fields of up to two cells, or two entries with a nested
  document: a second match in a string is what a wrong order of offsets takes, a
  second field what a wrong path takes. The five values of masking are one of
  each way a match can go, and two names, whose tokens can collide with the
  short value's: hash, suffix and longer hash are all reached.
* A stream has four lines of two pieces: content before, between and after
  `[DONE]`, and more than the integrity buffer holds.
* Three overlapping spans, of which the first and the last do not meet, make a
  transitive cluster; sentences of five words hold a full name, a hyphenated
  one and a keyword; texts of NerText are longer than a chunk and its overlap,
  with wide characters on every boundary; three tokens and two types make a
  best labelling that differs from the best label of each token.
* Maps of 4 by 3 cells hold shapes whose labels meet late (a U), which is what
  the equivalence table of the regions is for.

### Fairness

`FairSpec` assumes that time passes, that the timers of the timeout layer and of
the eviction interval fire, and that a handler finishes the poll it is in. That
is what the runtime gives. Nothing is assumed of clients, providers, or of the
order in which locks are granted. `HandlerEnds` therefore ends at the response
head: a stream whose provider is silent is kept open by empty chunks, by design.

`ServicesSpec` assumes that the timer of the monitor fires and that its requests
settle (the socket has a timeout), and that the eviction task of the gateway
runs and time passes. It assumes nothing of images: an inference may hang, and
the models are given back all the same.

Deadlock is checked in the lifecycle runs, where time always passes. The other
runs are of things that end (a body, a text, a stream, a bounded number of lines
or turns), and their configurations say so with `CHECK_DEADLOCK FALSE`. Symmetry
is used in journal_torn, which has no liveness.

## 4. Findings

Each of these is a run that TLC finds violated.

* **Long timeout** (lifecycle_long_timeout). `request_timeout_secs` is not
  checked against the fixed TTL of 300 s. With a longer one an answer may come
  after the eviction, and the code passes the provider's tokens on, which
  docs/architecture/l0-core.md:393 and docs/configure/fpe-configuration.md:100
  exclude.
* **Relayed lines** (lifecycle_relayed). A `data:` line of a stream that
  `extract_content` takes no text from, such as the arguments of a tool call, is
  passed to the client at once and as it came (sse_accumulator.rs:576), with the
  tokens it holds and before the mapping is removed and the completion entry
  written. The two places of the docs named above exclude that too.
* **Torn line** (journal_torn). A kill in the middle of `write_line` hides the
  oldest entry in a ring that has not wrapped: the torn piece, the NULs and the
  first line are read as one line. docs/operate/crash-recovery.md:85 and :146
  say otherwise.
* **Content twice** (sse_content_twice). A stream without mappings, read for the
  integrity scan, passes its content as it comes and again in the flush.
* **Dotted keys** (masking_dotted). A key with a dot or a bracket makes the path
  of a value lead nowhere, or to another value. The replacement is skipped with
  a warning and the value is sent in clear, in closed mode and uncounted, though
  docs/configure/fpe-configuration.md:211 says none leaves the device.
* **Stripped audio** (masking_voice). The return for "no replacement" asks
  `image_stats` but not `voice_modified`: in open mode, when every match is one
  the engine fails on, the audio block that was stripped is sent as it came.
* **Chunks that stall** (chunks_stall). The next chunk of the NER scanner begins
  behind a space in the last 150 bytes, wherever this chunk began. A word longer
  than a chunk behind a short piece of text makes the loop push the same chunk
  for ever; the comment at ner_scanner.rs:641 promises progress.
* **Offsets in the plugin** (plugin_offsets). The native scanner and the /ner
  endpoint count bytes, the plugin slices UTF-16: behind the first character
  that is not ASCII the labels land in the wrong place and the value stays.

### Where the models carve out a case

Met while modelling, kept in the models as the code has them, and excepted by the
properties they touch. They disagree with a comment, a doc or a sibling of the
code, or are cases its tests leave out.

Lifecycle and forwarding:
* Error statuses, timeouts and disconnects leave the start entry incomplete as
  well, and every later start warns of it, though
  docs/operate/crash-recovery.md:171 says it means a crash: `LossIsReported` says
  that losses are among the warnings, not that the warnings are losses.
* A body whose processing fails in open mode is forwarded with a count of 0, so
  the header `x-openobscure-pii-unprotected` is not set (proxy.rs:262).
* A repeated request or response header collapses to its last value
  (`HeaderMap::insert`). `accept-encoding` goes on to the provider: a compressed
  answer is read with `from_utf8_lossy`, and its tokens are not restored.
* The collapse of an NDJSON answer keeps the last object only: tool calls of
  earlier ones are lost, a last line without `message` loses the content, and a
  `message` that is a string there panics (body.rs:842).
* Route prefixes match letters, not path segments: `/openaix` is `/openai` with
  the path `x`. Passthrough mode and proxy strip different hop-by-hop headers,
  and passthrough takes the default limit of 2 MB for a body.
* A stream with neither mappings nor integrity scan is buffered whole first.
* `--port` is applied after the validation of the configuration.

Detection:
* PII in JSON inside a string can be missed or misplaced: spans of the nested
  document are compared with those of the raw string (hybrid_scanner.rs:26).
* Clusters are transitive, so a weak chain can drop a match that overlaps no
  winner. The merge of NER chunks keeps the shorter of two matches that begin
  together, and `dedup_overlapping` of `multilingual/` holds a match only
  against its predecessor, a dropped one included.
* A code fence with text behind its opening on the same line takes the line for
  its header; text up to a later fence is then hidden from the scan, while the
  rest of a closing line is not (hybrid_scanner.rs:657).
* Offsets are those of the lower-case text in the keyword and persuasion
  dictionaries and in wordpiece.rs; `&word[..1]` in crf_scanner.rs:126 panics on
  a word that begins or ends with a wide character. Phrases of four or more
  words (20 of 248) are in the persuasion dictionary and never matched.
* The CRF's confidence is a cumulative score, not the marginal its comment at
  crf_scanner.rs:205 names. FPE folds case, so values that differ in case alone
  share a token.
* A too-large int8 model hides a usable plain one; text beyond 512 pieces of a
  chunk is not labelled.

Images and audio:
* Text regions without a letter read give a confidence of 1.0 and are not filled,
  against image_pipeline.rs:625; regions end at the last marked cell, so the
  right end of a text stays visible; region texts are joined in the order of a
  HashMap, so PII that spans two of them is found or not from run to run.
* A face is filled as an ellipse in its clipped box; empty boxes are counted.
* An image under an unknown media type is encoded as PNG below the old label.
  JSON pointers of fetched images are not escaped: a key `a/b` beside `a: {b}`
  puts the picture into the other block. The size limit of a fetch is checked
  after the body was read, though image_fetch.rs:8 says while it streams.
* The notice for audio is written through a path cut at dots: it adds junk keys,
  or panics on an array at the root (voice_pipeline.rs:185).
* Screenshots are not redacted region by region whatever the tier, as
  screen_guard.rs:8 says: only the prefilter is passed over.

Services:
* `panic = "abort"` in both release profiles (openobscure-core/Cargo.toml:162,
  openobscure-napi/Cargo.toml:24) makes every `catch_unwind` dead, against
  docs/reference/fail-behavior-reference.md:160. HealthStats has both profiles.
* A waiter of the NER pool waits two fresh seconds after each wake, and one
  whose time is over does not look once more.
* key-rotate reports success for a key that a source of higher priority hides;
  the server never calls `rotate`; the key version of the health endpoint is
  copied once (server.rs:39).
* `ner_enabled` is read by the validation only; the pool size of a gateway's
  budget by nobody; the share of an embedded Standard device is always 275 MB,
  so its thresholds decide nothing.
* The mapping of one call of the library leaves out values known from earlier
  calls, so the app has to add mappings up (lib_mobile.rs:892).
* The one NER directory that is tried is the first that is configured: a broken
  small model hides a good large one beside it (main.rs:1433), and in the library
  also the other way, against "fall back to whatever is available"
  (lib_mobile.rs:661). With `ner_enabled = false` and a pool size of 0 a gateway
  announces an empty pool and tries no other model.
* A check of the heartbeat that `stop` has no handle to can make a stopped
  monitor active.

### What holds

With ordinary keys nothing found is sent in clear in closed mode, the count of
open mode is exact, and every value comes back in its place although tokens may
be prefixes of one another. The text of an answer never reaches a client
unrestored while the timeout does not exceed the TTL. After a crash every masked request that was sent and not
completed is reported (the ring permitting), and none that was answered.
No completion entry is written without a start entry.
Contrary to what docs/operate/crash-recovery.md:214 warns of, a wrapping ring
accuses no completed request (but one whose stream flushed again when the
process died). Sessions, wake-ups, versions, statistics, readiness and models
keep what they promise through every race of the runs.

## 5. Proofs

| Module | Theorem | States |
|---|---|---|
| RequestLifecycleProofs | TypeCorrect | `Spec => []TypeOK`, under `LifecycleAssumption` alone; with `completed` within `started` |
| | InvariantHolds | `Spec => []IInv` |
| | TextIsRestored | `Spec => []NoRawText` |
| | MappingIsThere | `Spec => []MappingOutlivesWait` |
| | JournalTellsTheTruth | `Spec => []JournalIsTrue` |
| | LifecycleImplementsExchange | `Spec => ImplementsExchange` |
| BodyMaskingProofs | CleanedStaysCleaned | `Spec => []CleanedIsSent` |
| | ValuesAreMasked | `PathsLeadBack` implies `Spec => []MaskedOrCounted` |
| | MaskingTypeCorrect | `PathsLeadBack` implies `Spec => []TypeOK` |
| | AnswersAreRestored | `Spec => []RoundTrip` |
| StreamProofs | StreamsAreWhole | `HasMappings` implies `Spec => [](TypeOK /\ StreamIsWhole)` |
| | DetectionTypeCorrect | `DetectionSpec => []DetectionTypeOK` |
| DetectionProofs | BestLabelsChosen | `CrfSpec => []LabelsAreBest` |
| | EvidenceIsCounted | `RiSpec => []EvidenceCounts` |
| | RequestsAreForwarded | `ForwardSpec => []ForwardedWhole` |
| | FindingsHold | `FenceSpec /\ ScanSpec => []FindingsAreAnswered` |
| | TokensTellValues | `FpeSpec => []TokenTellsValue` |
| | NoFindingIsLost | `DetSpec => []FindingsSurvive` |
| | HooksRedactAscii | `HookSpec => []AsciiIsRedacted` |
| ServiceProofs | PoolTypeCorrect, NoSessionIsLost, NoWakeUpIsLost | `[]PoolTypeOK`, `[]SessionsConserved`, `[]NoSleeperForgotten` |
| | AVersionNamesAKey, EnginesOverlap | `[]VersionsNameKeys`, `[]HeldEngineIsKept` |
| | RestartIsTrue | `[]RestartTellsTheTruth` |
| | BestBackendServes | `[]BackendServes` |
| | DoubtfulTextIsFilled, EvictionsCostNothing | `[]VisibleTextWasRead`, `SkippedMeansFailed` |
| | StoppedMonitorSleeps | `StoppedStaysDisabled` |
| | ConversationsHold | `Merging` implies `SessionSpec => [](SessionTypeOK /\ ConversationHolds)` |
| | RestartReports | `Spec => []TypeOK /\ RestartReportIsTrue` |
| | ServicesTypeCorrect | `ServicesSpec => []ServicesTypeOK` |
| NerProofs | LabelledWordsFound | `TokenSpec => []TokensAreReported` |
| | OffsetsHold | `WordSpec => []OffsetsAddressText` |
| | EntitiesHold | `NerSpec => []EntitiesAreReported` |
| ImageProofs | TextHolds | `OcrSpec => [](OcrTypeOK /\ TextIsHidden)` |
| | EveryFaceIsHidden | `FaceSpec => []FacesAreHidden` |
| | EveryBlockIsFound | `MediaSpec => []MediaFindsItsBlock` |

They hold for every value of the constants that the named assumption of the
module admits. The theorems of RequestLifecycleProofs but the first assume
`RequestTimeout <= TTL` too; without it they are false, as the run
lifecycle_long_timeout shows. Three other theorems have a hypothesis, and each is
the line between what the code promises and what it does not:

* `PathsLeadBack`: the keys read from the path of a field are those of this field
  and of no other, which is so when no key has a dot or a bracket. Without it
  `MaskedOrCounted` is false (run masking_dotted). TLC evaluates it on every run
  of MCBodyMasking: it holds of the plain body and not of the dotted one.
* `HasMappings`: the stream has tokens to restore. Without it content is sent
  twice (run sse_content_twice).
* `Merging`: the app adds the mapping of each call to its own, as the library's
  mapping of one call leaves out the values known before (section 4).

**The lifecycle.** `TypeOK` says that completion entries are among the start
entries, which needs one more fact of each request (`EntryInv`): it has no mappings
before they are made, and once past the journal a masked one has its start entry.
`NoRawText` is not inductive either: it depends on `get`
finding the entry, that on the entry being younger than the TTL, and that on the
age of the mappings never exceeding the age of the handler's timer, as both count
the same ticks and the mappings are created after the timer. `IInv` is `TypeOK`
and, for each request, four parts: `ClockInv` (that relation of the clocks, and
that an entry is in the store as long as the answer can still come), `PhaseInv`
(what each phase implies of `masked`, `held`, `streamed`, `sent`), `HistoryInv`
(what the journal, the reply and the relayed lines imply of each other) and `RestartInv` (what the
last report implies). Each part mentions one request only, so a step of a request
preserves the parts of the others by a frame lemma, and its own by one case per
action. The refinement follows from `IInv`, with a step or a stutter of Exchange
for each action; a relayed line is the step `Relay`. Nothing in `IInv` keeps tokens
from a client: `relayed` is only known to name open or past streams of masked requests.

**Attachments.** The step that could break `CleanedIsSent` is the return for a
body without replacements; `MatchedIsReplaced` says that closed mode never takes
it, as each match there leaves a replacement, and that is where open mode fails.

**Masking.** The invariant (`EncryptOK`) keeps the matches already done, which
the program forgets: they and the matches to come are the matches of the body;
the results, stripped of their tokens, are those of them that are masked, in
order; and in open mode the count is the number of the others. When no match is
left, the results of a field are those at its hidden cells, in rising order
(`AllReplaced`, where `PathsLeadBack` is used), so that `Replaced`, a sort and a
recursive splice, goes through them from the last to the first. `SpliceAll` is
the induction over it: behind the place reached, the string has the words of the
original and, of its values, only those kept (`Fits`); before it, it is the
original, so that the offsets still address their cells. Replacing from the
first match on would break just that, and is the mutant of the run. The count of
the header is then the length of a selection from all the fields' matches joined.

**What comes back.** `RoundTrip` speaks of the end of the restoring only. Its
invariant has two parts. `RecordsOK`: tokens of different values differ
(`TokensApart`, which is what the suffixes of a colliding hash are for), and what
is recorded for a value is recorded for no other, so that recording it twice
changes nothing. `RestoreOK`: the text is at every step the pieces of the answer,
each in the form `Shown` gives it, which depends on what is still to be replaced.
That a replacement changes whole pieces and nothing across their borders is
`ReplacePieces`, by induction over the pieces. It needs that what is replaced is
the beginning of no other piece: tokens are (a plain hash begins the hash with
its suffix), but not the longest of those left, and that is why the code sorts by
length; replacing in another order is the mutant. The fuzzy pass never finds a
reformatted number that is not its own, as a ciphertext tells its value.

**Streams.** What the client has been shown and the content buffer together
(`Handed`) are the content of the lines that have arrived, each once, in order
(`ContentOK`), as long as no character was cut; what remains of a line between
two chunks is the piece before its end (`PiecesOK`); a flush leaves the buffer
empty, and a stream ends only behind one (`FlushOK`); what was shown has been in
the text the scanner gets (`ScanOK`). A chunk is any run of pieces, so the
lemmas cut a sequence at the line ends of a run of any length.

**The journal.** Cells are counted from the oldest on. At most the five oldest
are pieces of a torn line or of the one being written; behind them stands the
history, the field `f` of the `p`-th line at `Pos(p, f)` (`RingOK`). Moving the
offset shifts all positions by five, and a wrap is the remainder in `Place`. As
the completion entry of a request comes behind its start entry (`EntriesOK`), a
start entry that can still be read whole is followed by its completion, so none
that was completed is reported.

**Conversations.** The registry of a call is the mapping of the app and what the
call has added, with one entry per value (`Carried`); the entries are all the
app's once it has merged them, so every token in the history is known, and a
text of known tokens is restored token by token. A rotation in between changes
the key of new tokens only.

**The CRF.** After `t` tokens each cell of the trellis is the weight of the best
way to its label (`PointersOK` keeps that the pointer of a cell attains it).
Two inductions over the tokens: no labelling of a prefix weighs more than the
cell of its last label, and the labels followed back from the best cell weigh
as much as that cell.

**Response integrity.** A pass of windows of one size is a walk over the places of
the text (`Walked`), which adds what overlaps nothing found so far. By induction
over the places, what a walk leaves out overlaps something at least as long, and
the walks of the core and of the plugin, which differ in the passes that need no
walk, find the same. Two categories are reported whatever R2 answers, as only the
role `suppress` drops flags, and `RoleOf` never gives it when there are two.

**Forwarding.** The collapse of an NDJSON answer restores the contents of all its
lines joined; the lemmas relate that to the lines given to the client, one by
one or collapsed, and say which header a repeated name collapses to, by induction
over a list of any length.

**Code and the vote.** The blanked copy differs from the text by blanks only, and
a wide letter is never cut since what is blanked begins at a backtick and ends at
one or just before one (`BlankKeeps`, which uses that the text is valid UTF-8). In
a text without fences the backticks of a line so far are even in number, or no
more of them follow (`Pairing`), which gives what each byte behind the scan must
be. A cluster is what the overlaps reach from a match in as many steps as there
are matches; each step adds a match unless the set is closed, so the last one is
closed (`ReachCloses`), and closed sets that meet are equal (`ClustersApart`).
Winners stand where a match of their cluster does, so winners of different
clusters cannot overlap. In nested JSON a hit that already stands at the place of
a value is the value's own, if the string is alone in its entry (`AddKeeps`);
with others it may be that of another string, and the value is lost (section 4).

**Tokens.** A value taken apart into letters and separators is the separators put
among the letters from the front, and so is any string with other letters of the
same number; taking that apart gives those letters and the same separators. This
is an induction over the string (`AllWeave`): a letter more stays behind all that
is put in (`ApplyMore`, as every separator fits where it belongs, `Fit`), a
separator more comes last. A token is cut where its value is, since the @ of an
address is in no alphabet and the country of an IBAN stays letters
(`ValueReplaced`), and folding leaves it as it is, as the folded alphabets have
lower case only. So decryption is given the numerals that came out of the cipher.

**Findings.** Sorting by insertion keeps what is sorted, in order of the starts
(`InsertedInOrder`). Of the matches passed so far those that are kept end where
the last one ends or before, and a match that is dropped begins behind the start
and before the end of a kept one (`StandFor`). What the dictionary found of two
and three words only grows, so a term that gives way meets a longer or equal one
at the end as well.

**The plugin.** `redactViaNative` replaces the last match first, so a replacement
leaves everything behind it as it was: by induction over the matches the text is
the one that replaces every match where it stands, if the offsets of the addon
are those of the text. In ASCII they are, as the bytes before a character and the
units before it are one number. The semantic pass and the patterns replace one
after the other; that is the same as replacing both sets at once, because a label
holds nothing a pattern finds.

**The pool.** The two invariants are inductive with the type. The work is in
counting: a thread that changes its stage makes one set of threads larger and
another smaller by one, so sessions and notifications balance.

**Keys.** Only the holder of the write lock installs, one version above all
(`NewestInv`, `LockInv`); from the moment the lock is taken the engine one
version back is the previous one, or its overlap is over (`OverlapInv`).

**Statistics.** What a save has read lies between the counters it began with and
the present ones (`SaveInv`); the file holds the last whole save unless a write
was cut (`FileInv`); the marker says whether there was a panic (`MarkerInv`).

**Startup.** What is allowed and what was passed over at each point of the start
(`ProgressInv`), with the settings fixed (`SettingsSettled`). The one directory that is
tried stands for all that could be when none of them is broken
(`DirIsRepresentative`).

**Images.** An image holds the clone its phase needs or none (`CloneInv`), and
evictions touch slots only, so what ends a phase is a result or a failure.
Nothing is read before the last phase ends (`ReadingInv`), so a doubtful reading
fills all text that was found.

**Faces.** The boxes are put in the order of confidence by insertion, so what
comes behind a place is less sure (`RankIs`, `RankedIs`), and suppression goes
through them keeping two facts (`NmsIs`): every box seen so far is kept or gives
way to a kept one, and no kept one overlaps an earlier one. That the ellipse
filled covers the one inscribed in the face needs arithmetic: each side of the
expanded box is no shorter and its middle is moved by half a pixel at the most
(`SideGrows`), a pixel is tested at a point between its corners
(`BetweenCorners`), and a point in an ellipse is in one with longer axes
(`EllipseGrows`).

**Media blocks.** The body is at every stage what arrived, with a picture where
one was embedded or placed so far and a notice where one was heard so far
(`MediaInv`, `Look`); the sets grow by the block at the cursor and by no other, as
the walk lists each block once (`ListsAre`, `ShownGrows`, `SilentGrows`). A block is
found again because a key without slashes is its own pointer (`PointedIs`), and
because the parts written down for the first steps of a plain path lead where these
steps lead (`PartsLead`, by induction over the path): an index follows a name, so it
is added to a part that has none. `PlainBody` is part of the property; without it a
body with other paths ends in a panic, which TLC finds.

**Text in images.** The specification calls a patch what a widening set of marked cells
comes to; the program labels the cells row by row and joins labels in a table. Between
them stands a third form: a patch is what no closed set of marked cells parts from a
cell (`PatchIs`; the widening ends because fewer marked cells are left each time,
`ReachIsClosure`). The root of a label is unique (`RootUnique`), so a union moves one
root onto another and nothing else (`UnionRoots`), and a new label is a root of its own
(`NewRoot`). After n cells (`LabelledTo`) two labelled cells beside each other have one
root, and two of one root are parted by no closed set; a cell that joins two classes
keeps both (`LabelJoined`). After the last cell the classes are the patches
(`ClassesArePatches`). The rest is rounding, that a box whose corner and size are both
rounded down loses at most two pixels at its far edges (`SpanFilled`, once for each
axis); that the decoder's text is the letters of a reading where their class is new
(`StepSpells`); that what occurs in one result occurs in the joined text in whatever
order (`CombinedHolds`); and that an average of 80 needs a result of 80
(`ConfidenceIsOfOne`).

**Word pieces.** The cuts of a word spell what is before them and were each the
longest that fits (`NextCutIs`, `SegmentIs`); the pieces of a text go from word to
word without a gap (`AllPiecesAre`), so the window holds a prefix of the words, all
but its last whole (`PieceWindowIs`). Decoding keeps that the entities which end before a
word are out and the one the word is in is open (`DecodedTo`, `DecodeGoesOn`); what
is flushed at the end is then one entity for each joined stretch (`FlushIs`).

**Offsets.** The offset behind the first k characters is the sum of their sizes
(`BehindIs`); it rises with k, so an offset is at one edge (`OffsetsRise`, `EdgeIs`).
A token is the part of a run between its first and last character that is no
hyphen (`TrimmedIs`), and as hyphens are one byte and one unit wide the offset of the
run and the number of hyphens trimmed make that of the word (`PlaceIs`). In a text
whose lower case has the same sizes, characters and offsets of the lower case are
those of the text (`LowerIs`, `LowerOffsets`), so what is looked up in lower case may
be cut from the text as written. A word between hyphens and blanks is what trimming
leaves of a run (`LoneIsAlone`). `WordAssumption` says that the words of the
dictionaries have no characters but those words of a text have.

**Chunks and entities.** A word of a chunk is what the chunk holds of a word of the
text, and the words in sight are one after another there (`SightedWords`), so the
decoder is followed word by word: behind n words it has put out the entities that
ended, and the one that runs is open (`DecodingStep`). No word that fits a chunk lies
across the end of one (`NotAcross`): a chunk ends at whitespace, or it has none but
perhaps its first byte and then is as long as it may be. So the words not yet whole in
a chunk begin behind the next chunk's start, which is never behind this one's end
(`NextStartIs`), even when it goes back. In the merge every mark is kept or yields to
one of its type that meets it and begins no later (`DedupIs`); as there is whitespace
between entities, that one is of the same entity (`MarksApart`). That the cutting comes
to an end is not claimed: the run chunks_stall shows that it may not.

**The heartbeat.** While the monitor is stopped, a check that `stop` could reach
is over or aborted (`StopInv`), and what is aborted never succeeds.

**The services together.** MCServices starts every service in a state of its own and
moves one (`OnlyOneMoves`), so the invariants of the eight hold side by side
(`ServicesInv`), whichever service a behaviour is about.

**The detection parts together.** MCDetection keeps the parts it does not drive at
rest, so of those nothing is asked: the invariant (`SubjectInv`) is that of the
subject. It is the invariant of the part's own theorem and, where the types need more,
what lies between two steps: labels come before tags and tags end in the text
(`TagsOK`), the fence scan stops one place behind the text (`InText`), only paths of
the body that arrived are waited for and no more images are counted than were embedded
or placed (`MediaLists`, `MediaCounts`), and the pieces fit the window (`TokenTypes`).
The constants are arbitrary here too, whatever the run assigns them.

**Data.** The induction theorems of the library take an operator as parameter,
which no prover here can instantiate. DataLemmas derives from the well-foundedness
of the predecessor relation a principle over sets: a set that has 0 and, with a
number below N, the next one, has all of 0..N. A statement over data is then the set of
the numbers (or sequences) for which it holds. From it follow that the functions the
models define by recursion over 0..n exist and satisfy their equations
(`RecursionExists`), what a selection, a flattened sequence and a part are, and that
selecting commutes with joining, flattening and mapping.

**Only model-checked:** the liveness properties (`HandlerEnds`, `StoreDrains`,
`ModelsAreReleased`, `BeatFollowsProxy`), which are beyond the prover. Every invariant
and every action property that a passing run checks is the subject of a theorem.

## 6. Not modelled

* Logging and its scrubbing layer, the inspect command, service files, the
  other commands of `main.rs`, parsing of the configuration: formatting and I/O
  without a protocol.
* Regular expressions, checksums and the language detection: pure tables whose
  tests enumerate them; a model would repeat them. What is done with the matches
  is in TextDetectors and HybridScanner.
* Inference, resizing, codecs, keyword spotting, keychain: external, as any
  outcome of a small set.
* `SseAccumulator`, which the proxy does not use any more; event names and
  delta formats of providers.
* Dash variants and the fuzzy patterns of `decrypt_response`; latency histograms.
* Routing of axum, the shutdown signal, bindings (UniFFI, NAPI types).

## 7. Further work

A composition of SseStream with the stream phases of RequestLifecycle, and of
BodyMasking with `MaskBody` and `PassBody`, which today are matched by hand.
