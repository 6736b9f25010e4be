-------------------------- MODULE RequestLifecycle --------------------------
(***************************************************************************)
(* One HTTP exchange through the proxy, from proxy_handler's first await   *)
(* to the last byte of the response: the handler future and the response   *)
(* stream of proxy.rs, the MappingStore of mapping.rs with its eviction    *)
(* task, the TimeoutLayer of server.rs, the request journal of             *)
(* crash_buffer.rs (its ring is the subject of CrashJournal), and a crash  *)
(* and restart of the process.                                             *)
(*                                                                         *)
(* A handler is cut at its awaits: between two of them other handlers, the *)
(* eviction task, the timer and a dropped connection may run.  Time is the *)
(* number of coarse ticks; a poll of a handler takes none, so the timer,   *)
(* which tower polls before the handler, has not expired when a step       *)
(* starts.  Both clocks stop counting at the limit they are compared with. *)
(***************************************************************************)
EXTENDS Integers

CONSTANTS
    Requests,        \* request ids (a fresh UUID v4 each: none is used twice)
    RequestTimeout,  \* proxy.request_timeout_secs, in ticks
    TTL,             \* MappingStore::new(ttl_secs), in ticks
    FailClosed,      \* proxy.fail_mode = "closed"
    RiEnabled,       \* state.response_integrity is Some
    JournalOpen      \* state.request_journal is Some

ASSUME LifecycleAssumption ==
    /\ RequestTimeout \in Nat \ {0}
    /\ TTL \in Nat \ {0}
    /\ FailClosed \in BOOLEAN
    /\ RiEnabled \in BOOLEAN
    /\ JournalOpen \in BOOLEAN

VARIABLES
    up,         \* the process is serving
    phase,      \* where each exchange stands
    streamed,   \* the response is an SSE stream whose head was already sent
    eof,        \* the upstream body ended (or broke) in the flush under way
    elapsed,    \* age of the handler's TimeoutLayer timer
    masked,     \* has_mappings: the body sent upstream holds ciphertext
    age,        \* now - created_at of the request's RequestMappings
    store,      \* ids with an entry in the MappingStore
    held,       \* the handler or stream owns a copy of the mappings (get -> Some)
    sent,       \* what the provider was sent: "nothing", "plain" or "masked"
    reply,      \* what the client was given
    relayed,    \* history: ids whose client was also given event lines as they came
    started,    \* ids with a start entry in the journal
    completed,  \* ids with a completion entry in the journal
    reported    \* ids read_incomplete returned at the last start

vars == <<up, phase, streamed, eof, elapsed, masked, age, store, held, sent,
          reply, relayed, started, completed, reported>>

clock   == <<elapsed, age>>
journal == <<started, completed>>

(* The phases at whose start the handler or the stream is suspended in an  *)
(* await; the others run in the same poll as the phase before them.        *)
Awaits == {"buffering", "scanning", "inserting", "sending", "collecting",
           "reading", "opening", "removing", "streaming"}
Inline == {"journaling", "building", "completing", "replying"}
Active == Awaits \cup Inline
Ended  == {"answered", "refused", "timedout", "abandoned", "lost"}
Phases == {"idle"} \cup Active \cup Ended

Replies == {"none", "error", "plain", "restored", "ciphertext"}

TypeOK ==
    /\ up \in BOOLEAN
    /\ phase \in [Requests -> Phases]
    /\ streamed \in [Requests -> BOOLEAN]
    /\ eof \in [Requests -> BOOLEAN]
    /\ elapsed \in [Requests -> 0..RequestTimeout]
    /\ masked \in [Requests -> BOOLEAN]
    /\ age \in [Requests -> 0..TTL]
    /\ store \subseteq Requests
    /\ held \in [Requests -> BOOLEAN]
    /\ sent \in [Requests -> {"nothing", "plain", "masked"}]
    /\ reply \in [Requests -> Replies]
    /\ started \subseteq Requests
    /\ relayed \subseteq Requests
    /\ completed \subseteq started
    /\ reported \subseteq Requests

Init ==
    /\ up = TRUE
    /\ phase = [r \in Requests |-> "idle"]
    /\ streamed = [r \in Requests |-> FALSE]
    /\ eof = [r \in Requests |-> FALSE]
    /\ elapsed = [r \in Requests |-> 0]
    /\ masked = [r \in Requests |-> FALSE]
    /\ age = [r \in Requests |-> 0]
    /\ store = {}
    /\ held = [r \in Requests |-> FALSE]
    /\ sent = [r \in Requests |-> "nothing"]
    /\ reply = [r \in Requests |-> "none"]
    /\ relayed = {}
    /\ started = {}
    /\ completed = {}
    /\ reported = {}

-----------------------------------------------------------------------------
(* The mutants below replace the definitions named in PROJECT.json; each   *)
(* is a plausible slip in the code, and breaks a property.                 *)

\* The layer polls the handler before its timer.
ResumeLate(r, p) == phase[r] = p

\* The clock stops one tick short of its limit.
CountShort(n, limit) == IF n + 1 < limit THEN n + 1 ELSE n

\* A completion entry for every exchange, also one without mappings.
CompleteAll(r) ==
    /\ phase[r] = "completing"
    /\ completed' = IF JournalOpen THEN completed \cup {r} ELSE completed
    /\ phase' = [phase EXCEPT ![r] = "replying"]
    /\ UNCHANGED <<up, streamed, eof, clock, masked, store, held, sent, reply,
                   started, reported, relayed>>

\* Eviction one tick early; eviction of live exchanges only.
ExpiredEarly    == {r \in store : age[r] + 1 >= TTL}
ExpiredLiveOnly == {r \in store : age[r] >= TTL /\ phase[r] \in Active}

\* read_incomplete with its sets swapped.
IncompleteSwapped == completed \ started

\* The masked body is forwarded without a start entry.
InsertUnjournaled(r) ==
    /\ phase[r] = "inserting"
    /\ elapsed[r] < RequestTimeout
    /\ store' = store \cup {r}
    /\ phase' = [phase EXCEPT ![r] = "building"]
    /\ UNCHANGED <<up, streamed, eof, clock, masked, held, sent, reply,
                   journal, reported, relayed>>

-----------------------------------------------------------------------------
(* The poll that resumes r in phase p: the timer of a handler that has not *)
(* answered yet was polled first and had not expired.                      *)
Resume(r, p) ==
    /\ phase[r] = p
    /\ (streamed[r] \/ elapsed[r] < RequestTimeout)

GoTo(r, p) == phase' = [phase EXCEPT ![r] = p]

(* The exchange is over with status p: the timer is dropped with it.       *)
Finish(r, p) ==
    /\ GoTo(r, p)
    /\ elapsed' = [elapsed EXCEPT ![r] = 0]

(* An error status instead of a response.  No error path of proxy_handler  *)
(* touches the store or the journal.                                       *)
Refuse(r) ==
    /\ Finish(r, "refused")
    /\ reply' = [reply EXCEPT ![r] = "error"]

-----------------------------------------------------------------------------
(* A request is routed, or refused with 404 because no provider matches.   *)
Receive(r) ==
    /\ up
    /\ phase[r] = "idle"
    /\ \/ GoTo(r, "buffering") /\ UNCHANGED <<elapsed, reply>>
       \/ Refuse(r)
    /\ UNCHANGED <<up, streamed, eof, masked, age, store, held, sent, journal,
                   reported, relayed>>

(* The body is buffered; 413 over the limit, 400 on a read error.          *)
BufferBody(r) ==
    /\ Resume(r, "buffering")
    /\ \/ GoTo(r, "scanning") /\ UNCHANGED <<elapsed, reply>>
       \/ Refuse(r)
    /\ UNCHANGED <<up, streamed, eof, masked, age, store, held, sent, journal,
                   reported, relayed>>

(* PII was found and replaced: the mappings are created, with created_at,  *)
(* after the last await of process_request_body.                           *)
MaskBody(r) ==
    /\ Resume(r, "scanning")
    /\ GoTo(r, "inserting")
    /\ masked' = [masked EXCEPT ![r] = TRUE]
    /\ age' = [age EXCEPT ![r] = 0]
    /\ UNCHANGED <<up, streamed, eof, elapsed, store, held, sent, reply,
                   journal, reported, relayed>>

(* No mappings: nothing to scan, nothing found, or an error in fail-open   *)
(* mode, which forwards the original body.                                 *)
PassBody(r) ==
    /\ Resume(r, "scanning")
    /\ GoTo(r, "building")
    /\ UNCHANGED <<up, streamed, eof, clock, masked, store, held, sent, reply,
                   journal, reported, relayed>>

(* process_request_body failed in fail-closed mode: 502.                   *)
RejectBody(r) ==
    /\ FailClosed
    /\ Resume(r, "scanning")
    /\ Refuse(r)
    /\ UNCHANGED <<up, streamed, eof, masked, age, store, held, sent, journal,
                   reported, relayed>>

(* mapping_store.insert got the write lock.                                *)
InsertMapping(r) ==
    /\ Resume(r, "inserting")
    /\ store' = store \cup {r}
    /\ GoTo(r, "journaling")
    /\ UNCHANGED <<up, streamed, eof, clock, masked, held, sent, reply,
                   journal, reported, relayed>>

(* The start entry, in the poll that inserted the mapping.                 *)
JournalStart(r) ==
    /\ phase[r] = "journaling"
    /\ started' = IF JournalOpen THEN started \cup {r} ELSE started
    /\ GoTo(r, "building")
    /\ UNCHANGED <<up, streamed, eof, clock, masked, store, held, sent, reply,
                   completed, reported, relayed>>

(* build_upstream_request and the hand-over to the HTTP client; 500 when   *)
(* the request cannot be built.                                            *)
Forward(r) ==
    /\ phase[r] = "building"
    /\ \/ /\ GoTo(r, "sending")
          /\ sent' = [sent EXCEPT ![r] = IF masked[r] THEN "masked" ELSE "plain"]
          /\ UNCHANGED <<elapsed, reply>>
       \/ /\ Refuse(r)
          /\ UNCHANGED sent
    /\ UNCHANGED <<up, streamed, eof, masked, age, store, held, journal,
                   reported, relayed>>

(* The head of the upstream response: an event stream takes the streaming  *)
(* path when there is something to restore or to scan; 502 on an error.    *)
UpstreamHead(r) ==
    /\ Resume(r, "sending")
    /\ \/ /\ masked[r] \/ RiEnabled
          /\ GoTo(r, "opening")
          /\ UNCHANGED <<elapsed, reply>>
       \/ GoTo(r, "collecting") /\ UNCHANGED <<elapsed, reply>>
       \/ Refuse(r)
    /\ UNCHANGED <<up, streamed, eof, masked, age, store, held, sent, journal,
                   reported, relayed>>

-----------------------------------------------------------------------------
(* The buffered path.                                                      *)

(* The whole body arrived, or broke off: 502.                              *)
CollectBody(r) ==
    /\ Resume(r, "collecting")
    /\ \/ /\ GoTo(r, IF masked[r] THEN "reading" ELSE "replying")
          /\ UNCHANGED <<elapsed, reply>>
       \/ Refuse(r)
    /\ UNCHANGED <<up, streamed, eof, masked, age, store, held, sent, journal,
                   reported, relayed>>

(* mapping_store.get: Some restores the body; None (evicted) falls to the  *)
(* else branch, which passes the upstream body on as it came.              *)
ReadMapping(r) ==
    /\ Resume(r, "reading")
    /\ held' = [held EXCEPT ![r] = r \in store]
    /\ GoTo(r, IF r \in store THEN "removing" ELSE "replying")
    /\ UNCHANGED <<up, streamed, eof, clock, masked, store, sent, reply,
                   journal, reported, relayed>>

-----------------------------------------------------------------------------
(* The streaming path.                                                     *)

(* The one mapping_store.get of the stream; the head of the response is    *)
(* sent and the timeout layer is done with the request.                    *)
OpenStream(r) ==
    /\ Resume(r, "opening")
    /\ held' = [held EXCEPT ![r] = r \in store]
    /\ streamed' = [streamed EXCEPT ![r] = TRUE]
    /\ Finish(r, "streaming")
    /\ UNCHANGED <<up, eof, masked, age, store, sent, reply, journal, reported, relayed>>

(* With mappings the text of a frame waits in the decryptor, but a data    *)
(* line in which extract_content finds no text (the arguments of a tool    *)
(* call), and the rest of a line whose beginning was in a chunk that is    *)
(* not UTF-8, goes to the client at once, as it came.                      *)
PassThrough(r) == held[r] /\ relayed' = relayed \cup {r}

(* A data frame.  Without mappings feed hands it to the client as it came. *)
Frame(r) ==
    /\ phase[r] = "streaming"
    /\ \/ /\ ~held[r]
          /\ reply' = [reply EXCEPT ![r] = IF masked[r] THEN "ciphertext" ELSE "plain"]
          /\ UNCHANGED relayed
       \/ PassThrough(r) /\ UNCHANGED reply
    /\ UNCHANGED <<up, phase, streamed, eof, clock, masked, store, held, sent,
                   journal, reported>>

(* [DONE] was seen in a frame, or the body ended or broke: flush.          *)
BeginFlush(r) ==
    /\ phase[r] = "streaming"
    /\ \E ended \in BOOLEAN : eof' = [eof EXCEPT ![r] = ended]
    /\ GoTo(r, "removing")
    /\ UNCHANGED <<up, streamed, clock, masked, store, held, sent, reply,
                   journal, reported, relayed>>

-----------------------------------------------------------------------------
(* What both paths do last, in this order.                                 *)

RemoveMapping(r) ==
    /\ Resume(r, "removing")
    /\ store' = store \ {r}
    /\ age' = [age EXCEPT ![r] = 0]
    /\ GoTo(r, "completing")
    /\ UNCHANGED <<up, streamed, eof, elapsed, masked, held, sent, reply,
                   journal, reported, relayed>>

JournalComplete(r) ==
    /\ phase[r] = "completing"
    /\ completed' = IF JournalOpen /\ masked[r] THEN completed \cup {r}
                                                ELSE completed
    /\ GoTo(r, "replying")
    /\ UNCHANGED <<up, streamed, eof, clock, masked, store, held, sent, reply,
                   started, reported, relayed>>

(* The body, or the flushed tail of the stream, goes to the client.  The   *)
(* frame with [DONE] may have lines without text too, which go before the  *)
(* tail as they came; after it the stream is polled again.                 *)
Reply(r) ==
    /\ phase[r] = "replying"
    /\ reply' = [reply EXCEPT ![r] = IF ~masked[r] THEN "plain"
                                     ELSE IF held[r] THEN "restored"
                                     ELSE "ciphertext"]
    /\ \/ UNCHANGED relayed
       \/ streamed[r] /\ ~eof[r] /\ PassThrough(r)
    /\ IF streamed[r] /\ ~eof[r]
       THEN GoTo(r, "streaming") /\ UNCHANGED elapsed
       ELSE Finish(r, "answered")
    /\ UNCHANGED <<up, streamed, eof, masked, age, store, held, sent, journal,
                   reported>>

-----------------------------------------------------------------------------
(* The environment of a handler.                                           *)

(* The TimeoutLayer answers 504 and drops the handler where it waits.      *)
Timeout(r) ==
    /\ phase[r] \in Awaits
    /\ ~streamed[r]
    /\ elapsed[r] = RequestTimeout
    /\ Finish(r, "timedout")
    /\ reply' = [reply EXCEPT ![r] = "error"]
    /\ UNCHANGED <<up, streamed, eof, masked, age, store, held, sent, journal,
                   reported, relayed>>

(* The client is gone: hyper drops the handler, or the body stream.        *)
Disconnect(r) ==
    /\ phase[r] \in Awaits
    /\ Finish(r, "abandoned")
    /\ UNCHANGED <<up, streamed, eof, masked, age, store, held, sent, reply,
                   journal, reported, relayed>>

(* One pass of eviction_loop: retain what is younger than the TTL.         *)
Expired == {r \in store : age[r] >= TTL}

Evict ==
    /\ Expired # {}
    /\ store' = store \ Expired
    /\ age' = [r \in Requests |-> IF r \in Expired THEN 0 ELSE age[r]]
    /\ UNCHANGED <<up, phase, streamed, eof, elapsed, masked, held, sent,
                   reply, journal, reported, relayed>>

(* A clock that is compared with limit: beyond it there is nothing to tell *)
(* apart.                                                                  *)
Count(n, limit) == IF n < limit THEN n + 1 ELSE n

(* Time passes for the timer of every handler and for every mapping.       *)
Tick ==
    /\ elapsed' = [r \in Requests |->
                     IF phase[r] \in Active /\ ~streamed[r]
                     THEN Count(elapsed[r], RequestTimeout)
                     ELSE elapsed[r]]
    /\ age' = [r \in Requests |->
                 IF r \in store \/ phase[r] = "inserting"
                 THEN Count(age[r], TTL)
                 ELSE age[r]]
    /\ UNCHANGED <<up, phase, streamed, eof, masked, store, held, sent, reply,
                   journal, reported, relayed>>

(* The process dies: memory is gone, the mmap-backed journal stays.        *)
Crash ==
    /\ up
    /\ up' = FALSE
    /\ phase' = [r \in Requests |-> IF phase[r] \in Active THEN "lost"
                                                           ELSE phase[r]]
    /\ store' = {}
    /\ age' = [r \in Requests |-> 0]
    /\ elapsed' = [r \in Requests |-> 0]
    /\ UNCHANGED <<streamed, eof, masked, held, sent, reply, journal, reported, relayed>>

(* RequestJournal::read_incomplete, on the ids the ring still holds.       *)
Incomplete == started \ completed

(* run_serve opens the journal and warns of each incomplete entry.  The    *)
(* journal is not cleared.                                                 *)
Restart ==
    /\ ~up
    /\ up' = TRUE
    /\ reported' = Incomplete
    /\ UNCHANGED <<phase, streamed, eof, clock, masked, store, held, sent,
                   reply, journal, relayed>>

-----------------------------------------------------------------------------
(* Steps the handler takes in the poll it is in, whatever the others do.   *)
InlineStep(r) == JournalStart(r) \/ Forward(r) \/ JournalComplete(r) \/ Reply(r)

Step(r) ==
    \/ Receive(r)
    \/ BufferBody(r)
    \/ MaskBody(r)
    \/ PassBody(r)
    \/ RejectBody(r)
    \/ InsertMapping(r)
    \/ JournalStart(r)
    \/ Forward(r)
    \/ UpstreamHead(r)
    \/ CollectBody(r)
    \/ ReadMapping(r)
    \/ OpenStream(r)
    \/ Frame(r)
    \/ BeginFlush(r)
    \/ RemoveMapping(r)
    \/ JournalComplete(r)
    \/ Reply(r)
    \/ Timeout(r)
    \/ Disconnect(r)

Next ==
    \/ \E r \in Requests : Step(r)
    \/ Evict
    \/ Tick
    \/ Crash
    \/ Restart

Spec == Init /\ [][Next]_vars

(* Time passes, the timer of the layer and the interval of the eviction    *)
(* task fire, and a handler that is running finishes its poll.  Nothing is *)
(* assumed of the client, of the provider or of the locks.                 *)
Fairness ==
    /\ WF_vars(Tick)
    /\ WF_vars(Evict)
    /\ \A r \in Requests : WF_vars(Timeout(r)) /\ WF_vars(InlineStep(r))

FairSpec == Spec /\ Fairness
-----------------------------------------------------------------------------
(* A masked exchange that still waits for its answer, and still can get    *)
(* it: the timer has not expired.                                          *)
AwaitsAnswer(r) ==
    /\ masked[r]
    /\ ~streamed[r]
    /\ elapsed[r] < RequestTimeout
    /\ phase[r] \in {"journaling", "building", "sending", "collecting",
                     "reading", "opening"}

(* The text of an answer to a masked request never reaches the client      *)
(* unrestored.  The only way is a mapping_store.get that finds nothing, so *)
(* this is a race of the eviction task against the slowest exchange the    *)
(* timeout layer lets live: it holds when RequestTimeout <= TTL.           *)
NoRawText == \A r \in Requests : reply[r] # "ciphertext"

(* The client is never given the provider's tokens (l0-core.md:393: "it    *)
(* never relays raw LLM output containing FPE tokens to the client").  A   *)
(* stream relays the lines it takes no text from.                          *)
NoRawReply == NoRawText /\ relayed = {}

(* Eviction never takes the mapping of an exchange that can still be       *)
(* answered, and a stream keeps the copy it opened with, however long it   *)
(* lasts and whatever becomes of the entry.                                *)
MappingOutlivesWait ==
    \A r \in Requests :
        /\ AwaitsAnswer(r) => r \in store
        /\ masked[r] /\ streamed[r] => held[r]

(* A completion entry tells the truth about the store: the mapping is gone *)
(* (remove comes before write_entry on every path), also when a stream     *)
(* goes on after [DONE] and flushes again.                                 *)
CompletedIsCleared == \A r \in completed : r \notin store

(* After a restart, an exchange the crash cut off between the provider and *)
(* the completion entry is among those read_incomplete reports.            *)
LossIsReported ==
    \A r \in Requests :
        (/\ up
         /\ JournalOpen
         /\ phase[r] = "lost"
         /\ sent[r] = "masked"
         /\ r \notin completed) => r \in reported

(* The warnings of a restart never name an exchange that was answered, nor *)
(* one whose restored text reached its client: the entry precedes the      *)
(* bytes on every path (crash-recovery.md:356 tells operators of such      *)
(* false positives).                                                       *)
NoFalseAlarm ==
    \A r \in reported : reply[r] # "restored" /\ phase[r] # "answered"

(* What the journal is relied on for: the mapping of a completed exchange  *)
(* is gone, no answered exchange lacks its entry, and every exchange a     *)
(* crash cut off is reported.                                              *)
JournalIsTrue == CompletedIsCleared /\ NoFalseAlarm /\ LossIsReported

Open == {r \in Requests : phase[r] \in Active}
Over == {r \in Requests : phase[r] \in Ended}

Ex == INSTANCE Exchange WITH open <- Open, closed <- Over

(* The lifecycle implements the promise of Exchange.                       *)
ImplementsExchange == Ex!Spec

(* A handler always comes to an end: answered, refused, or cut off by the  *)
(* timeout layer, whatever the provider and the client do.  (A stream has  *)
(* no such bound: its timeouts only yield keep-alives.)                    *)
HandlerEnds ==
    \A r \in Requests :
        (phase[r] \in Active /\ ~streamed[r])
            ~> (phase[r] \in Ended \/ streamed[r])

(* No plaintext stays in memory for good: every entry of the store goes,   *)
(* that of an abandoned or endless exchange by eviction.                   *)
StoreDrains == \A r \in Requests : r \in store ~> r \notin store
=============================================================================
