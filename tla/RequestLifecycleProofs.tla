----------------------- MODULE RequestLifecycleProofs -----------------------
(***************************************************************************)
(* Proofs about RequestLifecycle, for any set of requests and any clocks.  *)
(* Everything but TypeOK needs RequestTimeout <= TTL, the relation of the  *)
(* two settings that lifecycle_long_timeout.cfg breaks.  What a stream     *)
(* relays besides its text (the variable relayed) is allowed throughout:   *)
(* nothing here says that a client never sees a token.                     *)
(***************************************************************************)
EXTENDS RequestLifecycle, TLAPS

(* A step that is none of r's leaves all that belongs to r alone.          *)
Untouched(r) ==
    /\ up' = up
    /\ phase'[r] = phase[r]
    /\ streamed'[r] = streamed[r]
    /\ elapsed'[r] = elapsed[r]
    /\ masked'[r] = masked[r]
    /\ age'[r] = age[r]
    /\ held'[r] = held[r]
    /\ sent'[r] = sent[r]
    /\ reply'[r] = reply[r]
    /\ (r \in store') = (r \in store)
    /\ (r \in started') = (r \in started)
    /\ (r \in completed') = (r \in completed)
    /\ (r \in relayed') = (r \in relayed)
    /\ reported' = reported

Early   == {"idle", "buffering", "scanning"}
Waiting == {"inserting", "journaling", "building", "sending", "collecting",
            "reading", "opening"}

(* The two clocks: while the timer of a masked exchange has not expired,   *)
(* its mapping is no older than the exchange, so eviction left it alone.   *)
ClockInv(r) ==
    masked[r] /\ phase[r] \in Waiting /\ elapsed[r] < RequestTimeout =>
        /\ age[r] <= elapsed[r]
        /\ phase[r] # "inserting" => r \in store

(* What each phase knows of its exchange.                                  *)
PhaseInv(r) ==
    /\ phase[r] \in Early =>
         /\ ~masked[r] /\ ~streamed[r] /\ ~held[r]
         /\ sent[r] = "nothing" /\ reply[r] = "none"
    /\ phase[r] \in Waiting =>
         /\ ~streamed[r] /\ ~held[r]
         /\ reply[r] = "none"
         /\ r \notin completed
    /\ phase[r] \in {"inserting", "journaling"} =>
         masked[r] /\ sent[r] = "nothing"
    /\ phase[r] = "building" => sent[r] = "nothing"
    /\ phase[r] \in Active \ (Early \cup {"inserting", "journaling", "building"}) =>
         sent[r] = IF masked[r] THEN "masked" ELSE "plain"
    /\ phase[r] = "reading" => masked[r]
    /\ phase[r] \in {"removing", "completing"} =>
         /\ masked[r] => held[r]
         /\ ~streamed[r] => masked[r] /\ reply[r] = "none"
    /\ phase[r] \in {"completing", "replying"} => r \notin store
    /\ phase[r] = "replying" =>
         /\ masked[r] => held[r] /\ (JournalOpen => r \in completed)
         /\ ~streamed[r] => reply[r] = "none"
    /\ phase[r] = "streaming" => streamed[r]

(* What the store, the journal and the two outside parties remember.       *)
HistoryInv(r) ==
    /\ r \in store => masked[r]
    /\ r \in started => masked[r]
    /\ (/\ masked[r]
        /\ JournalOpen
        /\ phase[r] \in Active \ {"inserting", "journaling"}) => r \in started
    /\ sent[r] = "masked" /\ JournalOpen => r \in started
    /\ r \in completed => sent[r] = "masked" /\ r \notin store
    /\ reply[r] = "restored" /\ JournalOpen => r \in completed
    /\ phase[r] = "answered" /\ masked[r] /\ JournalOpen => r \in completed
    /\ reply[r] # "ciphertext"
    /\ streamed[r] /\ masked[r] => held[r]
    /\ held[r] => masked[r]
    /\ r \in relayed => streamed[r] /\ masked[r]

(* What a crash and a restart leave.                                       *)
RestartInv(r) ==
    /\ ~up => phase[r] \notin Active
    /\ r \in reported => /\ r \in started
                         /\ JournalOpen
                         /\ phase[r] \in Ended
                         /\ reply[r] # "restored"
                         /\ phase[r] # "answered"
    /\ (/\ up
        /\ JournalOpen
        /\ phase[r] = "lost"
        /\ sent[r] = "masked"
        /\ r \notin completed) => r \in reported
    /\ r \in started => JournalOpen

RequestInv(r) ==
    ClockInv(r) /\ PhaseInv(r) /\ HistoryInv(r) /\ RestartInv(r)

IInv == TypeOK /\ \A r \in Requests : RequestInv(r)

-----------------------------------------------------------------------------
(* The state has its types throughout: every action assigns each variable  *)
(* it touches a value of the set the code's fields range over.  That the   *)
(* completion entries are among the start entries is not a type; it needs  *)
(* to know that a masked exchange past the journal has its start entry.    *)
EntryInv(r) ==
    /\ phase[r] \in Early => ~masked[r]
    /\ (/\ masked[r]
        /\ JournalOpen
        /\ phase[r] \in Active \ {"inserting", "journaling"}) => r \in started

LEMMA InitTypeOK == Init => TypeOK
BY LifecycleAssumption DEF Init, TypeOK, Phases, Replies

LEMMA StepTypeOK ==
  ASSUME TypeOK, NEW r \in Requests, EntryInv(r), Step(r)
  PROVE  TypeOK'
<1> USE LifecycleAssumption DEF TypeOK, GoTo, Finish, Refuse, Resume, clock,
        journal, Phases, Active, Awaits, Inline, Ended, Replies
<1>1. CASE Receive(r)          BY <1>1 DEF Receive
<1>2. CASE BufferBody(r)       BY <1>2 DEF BufferBody
<1>3. CASE MaskBody(r)         BY <1>3 DEF MaskBody
<1>4. CASE PassBody(r)         BY <1>4 DEF PassBody
<1>5. CASE RejectBody(r)       BY <1>5 DEF RejectBody
<1>6. CASE InsertMapping(r)    BY <1>6 DEF InsertMapping
<1>7. CASE JournalStart(r)     BY <1>7 DEF JournalStart
<1>8. CASE Forward(r)          BY <1>8 DEF Forward
<1>9. CASE UpstreamHead(r)     BY <1>9 DEF UpstreamHead
<1>10. CASE CollectBody(r)     BY <1>10 DEF CollectBody
<1>11. CASE ReadMapping(r)     BY <1>11 DEF ReadMapping
<1>12. CASE OpenStream(r)      BY <1>12 DEF OpenStream
<1>13. CASE Frame(r)           BY <1>13 DEF Frame, PassThrough
<1>14. CASE BeginFlush(r)      BY <1>14 DEF BeginFlush
<1>15. CASE RemoveMapping(r)   BY <1>15 DEF RemoveMapping
<1>16. CASE JournalComplete(r) BY <1>16 DEF JournalComplete, EntryInv
<1>17. CASE Reply(r)           BY <1>17 DEF Reply, PassThrough
<1>18. CASE Timeout(r)         BY <1>18 DEF Timeout
<1>19. CASE Disconnect(r)      BY <1>19 DEF Disconnect
<1> QED
  BY <1>1, <1>2, <1>3, <1>4, <1>5, <1>6, <1>7, <1>8, <1>9, <1>10, <1>11,
     <1>12, <1>13, <1>14, <1>15, <1>16, <1>17, <1>18, <1>19 DEF Step

LEMMA NextTypeOK ==
  ASSUME TypeOK, \A r \in Requests : EntryInv(r), [Next]_vars
  PROVE  TypeOK'
<1> USE LifecycleAssumption DEF TypeOK
<1>1. CASE \E r \in Requests : Step(r)
  BY <1>1, StepTypeOK
<1>2. CASE Evict   BY <1>2 DEF Evict, Expired, journal
<1>3. CASE Tick    BY <1>3 DEF Tick, Count, journal
<1>4. CASE Crash
  <2>1. phase' \in [Requests -> Phases]
    <3>1. \A r \in Requests : (IF phase[r] \in Active THEN "lost" ELSE phase[r])
                                 \in Phases
      BY DEF Phases, Ended
    <3> QED BY <1>4, <3>1 DEF Crash
  <2>2. elapsed' \in [Requests -> 0..RequestTimeout] /\ age' \in [Requests -> 0..TTL]
    BY <1>4 DEF Crash
  <2> QED BY <1>4, <2>1, <2>2 DEF Crash, journal
<1>5. CASE Restart BY <1>5 DEF Restart, Incomplete, journal, clock
<1>6. CASE UNCHANGED vars BY <1>6 DEF vars
<1> QED
  BY <1>1, <1>2, <1>3, <1>4, <1>5, <1>6 DEF Next

(* What belongs to one exchange is left alone by the steps of the others.  *)
LEMMA OthersUntouched ==
  ASSUME TypeOK, NEW q \in Requests, NEW r \in Requests, q # r, Step(q)
  PROVE  Untouched(r)
<1> USE DEF TypeOK, Untouched, GoTo, Finish, Refuse, clock, journal
<1>1. CASE Receive(q)          BY <1>1 DEF Receive
<1>2. CASE BufferBody(q)       BY <1>2 DEF BufferBody
<1>3. CASE MaskBody(q)         BY <1>3 DEF MaskBody
<1>4. CASE PassBody(q)         BY <1>4 DEF PassBody
<1>5. CASE RejectBody(q)       BY <1>5 DEF RejectBody
<1>6. CASE InsertMapping(q)    BY <1>6 DEF InsertMapping
<1>7. CASE JournalStart(q)     BY <1>7 DEF JournalStart
<1>8. CASE Forward(q)          BY <1>8 DEF Forward
<1>9. CASE UpstreamHead(q)     BY <1>9 DEF UpstreamHead
<1>10. CASE CollectBody(q)     BY <1>10 DEF CollectBody
<1>11. CASE ReadMapping(q)     BY <1>11 DEF ReadMapping
<1>12. CASE OpenStream(q)      BY <1>12 DEF OpenStream
<1>13. CASE Frame(q)           BY <1>13 DEF Frame, PassThrough
<1>14. CASE BeginFlush(q)      BY <1>14 DEF BeginFlush
<1>15. CASE RemoveMapping(q)   BY <1>15 DEF RemoveMapping
<1>16. CASE JournalComplete(q) BY <1>16 DEF JournalComplete
<1>17. CASE Reply(q)           BY <1>17 DEF Reply, PassThrough
<1>18. CASE Timeout(q)         BY <1>18 DEF Timeout
<1>19. CASE Disconnect(q)      BY <1>19 DEF Disconnect
<1> QED
  BY <1>1, <1>2, <1>3, <1>4, <1>5, <1>6, <1>7, <1>8, <1>9, <1>10,
     <1>11, <1>12, <1>13, <1>14, <1>15, <1>16, <1>17, <1>18, <1>19 DEF Step

LEMMA OwnEntry ==
  ASSUME TypeOK, NEW r \in Requests, EntryInv(r), Step(r)
  PROVE  EntryInv(r)'
<1> USE DEF TypeOK, GoTo, Finish, Refuse, Resume, clock, journal, EntryInv,
        Early, Active, Awaits, Inline, Ended
<1>1. CASE Receive(r)          BY <1>1 DEF Receive
<1>2. CASE BufferBody(r)       BY <1>2 DEF BufferBody
<1>3. CASE MaskBody(r)         BY <1>3 DEF MaskBody
<1>4. CASE PassBody(r)         BY <1>4 DEF PassBody
<1>5. CASE RejectBody(r)       BY <1>5 DEF RejectBody
<1>6. CASE InsertMapping(r)    BY <1>6 DEF InsertMapping
<1>7. CASE JournalStart(r)     BY <1>7 DEF JournalStart
<1>8. CASE Forward(r)          BY <1>8 DEF Forward
<1>9. CASE UpstreamHead(r)     BY <1>9 DEF UpstreamHead
<1>10. CASE CollectBody(r)     BY <1>10 DEF CollectBody
<1>11. CASE ReadMapping(r)     BY <1>11 DEF ReadMapping
<1>12. CASE OpenStream(r)      BY <1>12 DEF OpenStream
<1>13. CASE Frame(r)           BY <1>13 DEF Frame, PassThrough
<1>14. CASE BeginFlush(r)      BY <1>14 DEF BeginFlush
<1>15. CASE RemoveMapping(r)   BY <1>15 DEF RemoveMapping
<1>16. CASE JournalComplete(r) BY <1>16 DEF JournalComplete
<1>17. CASE Reply(r)           BY <1>17 DEF Reply, PassThrough
<1>18. CASE Timeout(r)         BY <1>18 DEF Timeout
<1>19. CASE Disconnect(r)      BY <1>19 DEF Disconnect
<1> QED
  BY <1>1, <1>2, <1>3, <1>4, <1>5, <1>6, <1>7, <1>8, <1>9, <1>10,
     <1>11, <1>12, <1>13, <1>14, <1>15, <1>16, <1>17, <1>18, <1>19 DEF Step

LEMMA NextEntry ==
  ASSUME TypeOK, NEW r \in Requests, EntryInv(r), [Next]_vars
  PROVE  EntryInv(r)'
<1>1. ASSUME Untouched(r) PROVE EntryInv(r)'
  BY <1>1 DEF Untouched, EntryInv
<1>2. CASE \E q \in Requests : Step(q)
  <2> PICK q \in Requests : Step(q)
    BY <1>2
  <2>1. CASE q = r
    BY <2>1, OwnEntry
  <2>2. CASE q # r
    BY <1>1, <2>2, OthersUntouched
  <2> QED BY <2>1, <2>2
<1>3. CASE Evict \/ Tick \/ Restart \/ UNCHANGED vars
  BY <1>3 DEF Evict, Tick, Restart, vars, journal, clock, EntryInv
<1>4. CASE Crash
  BY <1>4 DEF Crash, journal, TypeOK, EntryInv, Early, Active, Awaits, Inline, Ended
<1> QED BY <1>2, <1>3, <1>4 DEF Next

(* Type correctness, for all constants: above all, no completion entry     *)
(* without a start entry, which rests on EntryInv.                         *)
THEOREM TypeCorrect == Spec => []TypeOK
<1> DEFINE TInv == TypeOK /\ \A r \in Requests : EntryInv(r)
<1>1. Init => TInv
  BY InitTypeOK DEF Init, EntryInv, Active, Awaits, Inline
<1>2. TInv /\ [Next]_vars => TInv'
  BY NextTypeOK, NextEntry
<1>3. TInv => TypeOK
  OBVIOUS
<1> QED BY <1>1, <1>2, <1>3, PTL DEF Spec
-----------------------------------------------------------------------------
(* The invariant of one exchange survives the steps of the others...       *)
LEMMA UntouchedInv ==
  ASSUME NEW r \in Requests, RequestInv(r), Untouched(r)
  PROVE  RequestInv(r)'
BY DEF RequestInv, ClockInv, PhaseInv, HistoryInv, RestartInv, Untouched

(* ... and its own.                                                        *)
LEMMA OwnStep ==
  ASSUME RequestTimeout <= TTL, TypeOK, NEW r \in Requests, RequestInv(r),
         Step(r)
  PROVE  RequestInv(r)'
<1> USE LifecycleAssumption DEF TypeOK, GoTo, Finish, Refuse, Resume, clock,
        journal, RequestInv, ClockInv, PhaseInv, HistoryInv, RestartInv,
        Early, Waiting, Active, Awaits, Inline, Ended
<1>1. CASE Receive(r)          BY <1>1 DEF Receive
<1>2. CASE BufferBody(r)       BY <1>2 DEF BufferBody
<1>3. CASE MaskBody(r)         BY <1>3 DEF MaskBody
<1>4. CASE PassBody(r)         BY <1>4 DEF PassBody
<1>5. CASE RejectBody(r)       BY <1>5 DEF RejectBody
<1>6. CASE InsertMapping(r)    BY <1>6 DEF InsertMapping
<1>7. CASE JournalStart(r)     BY <1>7 DEF JournalStart
<1>8. CASE Forward(r)          BY <1>8 DEF Forward
<1>9. CASE UpstreamHead(r)     BY <1>9 DEF UpstreamHead
<1>10. CASE CollectBody(r)     BY <1>10 DEF CollectBody
<1>11. CASE ReadMapping(r)     BY <1>11 DEF ReadMapping
<1>12. CASE OpenStream(r)      BY <1>12 DEF OpenStream
<1>13. CASE Frame(r)           BY <1>13 DEF Frame, PassThrough
<1>14. CASE BeginFlush(r)      BY <1>14 DEF BeginFlush
<1>15. CASE RemoveMapping(r)   BY <1>15 DEF RemoveMapping
<1>16. CASE JournalComplete(r) BY <1>16 DEF JournalComplete
<1>17. CASE Reply(r)           BY <1>17 DEF Reply, PassThrough
<1>18. CASE Timeout(r)         BY <1>18 DEF Timeout
<1>19. CASE Disconnect(r)      BY <1>19 DEF Disconnect
<1> QED
  BY <1>1, <1>2, <1>3, <1>4, <1>5, <1>6, <1>7, <1>8, <1>9, <1>10,
     <1>11, <1>12, <1>13, <1>14, <1>15, <1>16, <1>17, <1>18, <1>19 DEF Step
-----------------------------------------------------------------------------
(* The steps that touch every exchange at once.                            *)
LEMMA EnvironmentStep ==
  ASSUME RequestTimeout <= TTL, TypeOK, NEW r \in Requests, RequestInv(r),
         Evict \/ Tick \/ Crash \/ Restart
  PROVE  RequestInv(r)'
<1> USE LifecycleAssumption DEF TypeOK, journal, clock, RequestInv, ClockInv,
        PhaseInv, HistoryInv, RestartInv, Early, Waiting, Active, Awaits,
        Inline, Ended
<1>1. CASE Evict   BY <1>1 DEF Evict, Expired
<1>2. CASE Tick    BY <1>2 DEF Tick, Count
<1>3. CASE Crash   BY <1>3 DEF Crash
<1>4. CASE Restart BY <1>4 DEF Restart, Incomplete, Phases
<1> QED BY <1>1, <1>2, <1>3, <1>4

LEMMA InitIInv == Init => IInv
<1> SUFFICES ASSUME Init, NEW r \in Requests PROVE RequestInv(r)
  BY InitTypeOK DEF IInv
<1> QED
  BY LifecycleAssumption DEF Init, RequestInv, ClockInv, PhaseInv, HistoryInv,
     RestartInv, Waiting, Active, Awaits, Inline, Ended

LEMMA NextIInv ==
  ASSUME RequestTimeout <= TTL
  PROVE  IInv /\ [Next]_vars => IInv'
<1>e. IInv => TypeOK /\ \A r \in Requests : EntryInv(r)
  BY DEF IInv, RequestInv, PhaseInv, HistoryInv, EntryInv
<1> SUFFICES ASSUME IInv, [Next]_vars, NEW r \in Requests
             PROVE  RequestInv(r)'
  BY <1>e, NextTypeOK DEF IInv
<1>1. TypeOK /\ RequestInv(r)
  BY DEF IInv
<1>2. CASE \E q \in Requests : Step(q)
  <2> PICK q \in Requests : Step(q)
    BY <1>2
  <2>1. CASE q = r
    BY <1>1, <2>1, OwnStep
  <2>2. CASE q # r
    BY <1>1, <2>2, OthersUntouched, UntouchedInv
  <2> QED BY <2>1, <2>2
<1>3. CASE Evict \/ Tick \/ Crash \/ Restart
  BY <1>1, <1>3, EnvironmentStep
<1>4. CASE UNCHANGED vars
  <2>1. Untouched(r)
    BY <1>4 DEF vars, Untouched
  <2> QED BY <1>1, <2>1, UntouchedInv
<1> QED BY <1>2, <1>3, <1>4 DEF Next

THEOREM InvariantHolds ==
  ASSUME RequestTimeout <= TTL
  PROVE  Spec => []IInv
<1>1. Init => IInv                     BY InitIInv
<1>2. IInv /\ [Next]_vars => IInv'     BY NextIInv
<1> QED BY <1>1, <1>2, PTL DEF Spec

-----------------------------------------------------------------------------
(* With a timeout no longer than the TTL, the text of an answer to a       *)
(* masked request never reaches the client unrestored: eviction always     *)
(* loses its race.  The lines a stream takes no text from are not text.    *)
THEOREM TextIsRestored ==
  ASSUME RequestTimeout <= TTL
  PROVE  Spec => []NoRawText
<1>1. IInv => NoRawText
  BY DEF IInv, RequestInv, HistoryInv, NoRawText
<1> QED BY <1>1, InvariantHolds, PTL

(* The mapping of an exchange that can still be answered is in the store,  *)
(* and that of a stream in the stream.                                     *)
THEOREM MappingIsThere ==
  ASSUME RequestTimeout <= TTL
  PROVE  Spec => []MappingOutlivesWait
<1>1. IInv => MappingOutlivesWait
  BY DEF IInv, RequestInv, ClockInv, HistoryInv, MappingOutlivesWait,
     AwaitsAnswer, Waiting
<1> QED BY <1>1, InvariantHolds, PTL

(* The three things the journal is read for: a completion entry means the  *)
(* mapping is gone, a loss is reported, and a delivered response is not.   *)
THEOREM JournalTellsTheTruth ==
  ASSUME RequestTimeout <= TTL
  PROVE  Spec => []JournalIsTrue
<1>1. IInv => JournalIsTrue
  <2> SUFFICES ASSUME IInv
               PROVE  CompletedIsCleared /\ LossIsReported /\ NoFalseAlarm
    BY DEF JournalIsTrue
  <2>1. CompletedIsCleared
    BY DEF IInv, TypeOK, RequestInv, HistoryInv, CompletedIsCleared
  <2>2. LossIsReported
    BY DEF IInv, RequestInv, RestartInv, LossIsReported
  <2>3. NoFalseAlarm
    BY DEF IInv, TypeOK, RequestInv, RestartInv, NoFalseAlarm
  <2> QED BY <2>1, <2>2, <2>3
<1> QED BY <1>1, InvariantHolds, PTL
-----------------------------------------------------------------------------
(* The refinement of Exchange.                                             *)

LEMMA StaysOpen ==
  ASSUME TypeOK, NEW r \in Requests, NEW p \in Active, phase[r] \in Active,
         GoTo(r, p)
  PROVE  UNCHANGED <<Open, Over>>
BY DEF TypeOK, GoTo, Open, Over, Active, Awaits, Inline, Ended

LEMMA Closes ==
  ASSUME TypeOK, NEW r \in Requests, NEW p \in Ended, phase[r] \in Active,
         GoTo(r, p)
  PROVE  r \in Open /\ Open' = Open \ {r} /\ Over' = Over \cup {r}
BY DEF TypeOK, GoTo, Open, Over, Active, Awaits, Inline, Ended

LEMMA RefuseFails ==
  ASSUME TypeOK, NEW r \in Requests, phase[r] \in Active, reply[r] = "none",
         r \notin relayed, Refuse(r), UNCHANGED <<sent, journal, relayed>>
  PROVE  Ex!Fail(r)
<1>1. r \in Open /\ Open' = Open \ {r} /\ Over' = Over \cup {r}
  BY Closes DEF Refuse, Finish, Ended
<1> QED BY <1>1 DEF Ex!Fail, Refuse, journal

LEMMA StepRefines ==
  ASSUME RequestTimeout <= TTL, IInv, NEW r \in Requests, Step(r)
  PROVE  [Ex!Next]_(Ex!exchange)
<1> DEFINE Stutters == UNCHANGED <<Open, Over, sent, reply, relayed, started, completed>>
<1>0. /\ TypeOK /\ ClockInv(r) /\ PhaseInv(r) /\ HistoryInv(r)
      /\ RestartInv(r)
  BY DEF IInv, RequestInv
<1>s. ASSUME Stutters PROVE [Ex!Next]_(Ex!exchange)
  BY <1>s DEF Ex!exchange
<1> USE DEF Resume, clock, journal
<1>1. CASE Receive(r)
  <2>1. CASE GoTo(r, "buffering") /\ UNCHANGED <<elapsed, reply>>
    <3>1. Open' = Open \cup {r} /\ Over' = Over /\ r \notin Open \cup Over
      BY <1>0, <1>1, <2>1 DEF TypeOK, Receive, GoTo, Open, Over, Active,
         Awaits, Inline, Ended
    <3> QED BY <1>1, <2>1, <3>1 DEF Receive, Ex!Begin, Ex!Next
  <2>2. CASE Refuse(r)
    <3>1. Over' = Over \cup {r} /\ Open' = Open /\ r \notin Open \cup Over
      BY <1>0, <1>1, <2>2 DEF TypeOK, Receive, Refuse, Finish, GoTo, Open,
         Over, Active, Awaits, Inline, Ended
    <3> QED BY <1>1, <2>2, <3>1 DEF Receive, Refuse, Ex!Begin, Ex!Next
  <2> QED BY <1>1, <2>1, <2>2 DEF Receive
<1>2. CASE BufferBody(r)
  <2>1. CASE GoTo(r, "scanning") /\ UNCHANGED reply
    BY <1>0, <1>s, <1>2, <2>1, StaysOpen DEF BufferBody, Active, Awaits
  <2>2. CASE Refuse(r)
    <3>1. Ex!Fail(r)
      BY <1>0, <1>2, <2>2, RefuseFails DEF BufferBody, PhaseInv, HistoryInv, Early, Active, Awaits
    <3> QED BY <3>1 DEF Ex!Next
  <2> QED BY <1>2, <2>1, <2>2 DEF BufferBody
<1>3. CASE MaskBody(r)
  BY <1>0, <1>s, <1>3, StaysOpen DEF MaskBody, Active, Awaits
<1>4. CASE PassBody(r)
  BY <1>0, <1>s, <1>4, StaysOpen DEF PassBody, Active, Awaits, Inline
<1>5. CASE RejectBody(r)
  <2>1. Ex!Fail(r)
    BY <1>0, <1>5, RefuseFails DEF RejectBody, PhaseInv, HistoryInv, Early, Active, Awaits
  <2> QED BY <2>1 DEF Ex!Next
<1>6. CASE InsertMapping(r)
  BY <1>0, <1>s, <1>6, StaysOpen DEF InsertMapping, Active, Awaits, Inline
<1>7. CASE JournalStart(r)
  <2>1. UNCHANGED <<Open, Over>> /\ r \in Open /\ sent[r] = "nothing"
    BY <1>0, <1>7, StaysOpen DEF JournalStart, PhaseInv, Open, Active, Awaits, Inline
  <2>2. CASE JournalOpen
    <3>1. Ex!Announce(r)
      BY <1>7, <2>1, <2>2 DEF JournalStart, Ex!Announce
    <3> QED BY <3>1 DEF Ex!Next
  <2>3. CASE ~JournalOpen
    BY <1>s, <1>7, <2>1, <2>3 DEF JournalStart
  <2> QED BY <2>2, <2>3
<1>8. CASE Forward(r)
  <2>1. CASE GoTo(r, "sending") /\ UNCHANGED <<elapsed, reply>>
             /\ sent' = [sent EXCEPT ![r] = IF masked[r] THEN "masked" ELSE "plain"]
    <3>1. UNCHANGED <<Open, Over>> /\ r \in Open /\ sent[r] = "nothing"
      BY <1>0, <1>8, <2>1, StaysOpen DEF Forward, PhaseInv, Open, Active, Awaits, Inline
    <3>2. /\ masked[r] /\ JournalOpen => r \in started
          /\ ~masked[r] => r \notin started
      BY <1>0, <1>8 DEF Forward, HistoryInv, Active, Inline
    <3>3. Ex!SendMasked(r) \/ Ex!SendPlain(r)
      BY <1>8, <2>1, <3>1, <3>2 DEF Forward, Ex!SendMasked, Ex!SendPlain
    <3> QED BY <3>3 DEF Ex!Next
  <2>2. CASE Refuse(r) /\ UNCHANGED sent
    <3>1. Ex!Fail(r)
      BY <1>0, <1>8, <2>2, RefuseFails DEF Forward, PhaseInv, HistoryInv, Waiting, Active, Inline
    <3> QED BY <3>1 DEF Ex!Next
  <2> QED BY <1>8, <2>1, <2>2 DEF Forward
<1>9. CASE UpstreamHead(r)
  <2>1. CASE \E p \in {"opening", "collecting"} : GoTo(r, p) /\ UNCHANGED reply
    BY <1>0, <1>s, <1>9, <2>1, StaysOpen DEF UpstreamHead, Active, Awaits
  <2>2. CASE Refuse(r)
    <3>1. Ex!Fail(r)
      BY <1>0, <1>9, <2>2, RefuseFails DEF UpstreamHead, PhaseInv, HistoryInv, Waiting, Active, Awaits
    <3> QED BY <3>1 DEF Ex!Next
  <2> QED BY <1>9, <2>1, <2>2 DEF UpstreamHead
<1>10. CASE CollectBody(r)
  <2>1. CASE \E p \in {"reading", "replying"} : GoTo(r, p) /\ UNCHANGED reply
    BY <1>0, <1>s, <1>10, <2>1, StaysOpen DEF CollectBody, Active, Awaits, Inline
  <2>2. CASE Refuse(r)
    <3>1. Ex!Fail(r)
      BY <1>0, <1>10, <2>2, RefuseFails DEF CollectBody, PhaseInv, HistoryInv, Waiting, Active, Awaits
    <3> QED BY <3>1 DEF Ex!Next
  <2> QED BY <1>10, <2>1, <2>2 DEF CollectBody
<1>11. CASE ReadMapping(r)
  <2>1. \E p \in {"removing", "replying"} : GoTo(r, p)
    BY <1>11 DEF ReadMapping
  <2> QED
    BY <1>0, <1>s, <1>11, <2>1, StaysOpen DEF ReadMapping, Active, Awaits, Inline
<1>12. CASE OpenStream(r)
  BY <1>0, <1>s, <1>12, StaysOpen DEF OpenStream, Finish, Active, Awaits
<1>13. CASE Frame(r)
  <2>1. UNCHANGED <<Open, Over>>
    BY <1>13 DEF Frame, PassThrough, Open, Over
  <2>2. r \in Open /\ sent[r] = IF masked[r] THEN "masked" ELSE "plain"
    BY <1>0, <1>13 DEF Frame, PassThrough, PhaseInv, TypeOK, Open, Early, Active, Awaits
  <2>3. CASE held[r]
    <3>1. Ex!Relay(r)
      BY <1>0, <1>13, <2>1, <2>2, <2>3 DEF Frame, PassThrough, HistoryInv, Ex!Relay, Ex!Relays
    <3> QED BY <3>1 DEF Ex!Next
  <2>4. CASE ~held[r]
    <3>1. ~masked[r]
      BY <1>0, <1>13, <2>4 DEF Frame, PassThrough, PhaseInv, HistoryInv
    <3>2. Ex!Answer(r)
      BY <1>13, <2>1, <2>2, <2>4, <3>1 DEF Frame, PassThrough, Ex!Answer
    <3> QED BY <3>2 DEF Ex!Next
  <2> QED BY <2>3, <2>4
<1>14. CASE BeginFlush(r)
  BY <1>0, <1>s, <1>14, StaysOpen DEF BeginFlush, Active, Awaits
<1>15. CASE RemoveMapping(r)
  BY <1>0, <1>s, <1>15, StaysOpen DEF RemoveMapping, Active, Awaits, Inline
<1>16. CASE JournalComplete(r)
  <2>1. UNCHANGED <<Open, Over>> /\ r \in Open
    BY <1>0, <1>16, StaysOpen DEF JournalComplete, Open, Active, Awaits, Inline
  <2>2. CASE JournalOpen /\ masked[r]
    <3>1. sent[r] = "masked"
      BY <1>0, <1>16, <2>2 DEF JournalComplete, PhaseInv, Early, Active, Inline
    <3>2. Ex!Complete(r)
      BY <1>16, <2>1, <2>2, <3>1 DEF JournalComplete, Ex!Complete
    <3> QED BY <3>2 DEF Ex!Next
  <2>3. CASE ~(JournalOpen /\ masked[r])
    BY <1>s, <1>16, <2>1, <2>3 DEF JournalComplete
  <2> QED BY <2>2, <2>3
<1>17. CASE Reply(r)
  <2>1. /\ sent[r] = IF masked[r] THEN "masked" ELSE "plain"
        /\ masked[r] => held[r] /\ (JournalOpen => r \in completed)
    BY <1>0, <1>17 DEF Reply, PassThrough, PhaseInv, Early, Active, Inline
  <2>2. /\ r \in Open
        /\ \/ UNCHANGED <<Open, Over>>
           \/ Open' = Open \ {r} /\ Over' = Over \cup {r}
    BY <1>0, <1>17, StaysOpen, Closes
       DEF Reply, Finish, Open, Active, Awaits, Inline, Ended
  <2>3. held[r] => masked[r]
    BY <1>0 DEF HistoryInv
  <2>4. Ex!Answer(r)
    BY <1>17, <2>1, <2>2, <2>3 DEF Reply, PassThrough, Ex!Answer, Ex!Relays
  <2> QED BY <2>4 DEF Ex!Next
<1>18. CASE Timeout(r)
  <2>1. reply[r] = "none" /\ phase[r] \in Active /\ r \notin relayed
    BY <1>0, <1>18 DEF Timeout, PhaseInv, HistoryInv, Early, Waiting, Active, Awaits
  <2>2. r \in Open /\ Open' = Open \ {r} /\ Over' = Over \cup {r}
    BY <1>0, <1>18, <2>1, Closes DEF Timeout, Finish, Ended
  <2>3. Ex!Fail(r)
    BY <1>18, <2>1, <2>2 DEF Timeout, Ex!Fail
  <2> QED BY <2>3 DEF Ex!Next
<1>19. CASE Disconnect(r)
  <2>1. r \in Open /\ Open' = Open \ {r} /\ Over' = Over \cup {r}
    BY <1>0, <1>19, Closes DEF Disconnect, Finish, Active, Ended
  <2>2. Ex!Break
    BY <1>19, <2>1 DEF Disconnect, Ex!Break
  <2> QED BY <2>2 DEF Ex!Next
<1> QED
  BY <1>1, <1>2, <1>3, <1>4, <1>5, <1>6, <1>7, <1>8, <1>9, <1>10, <1>11,
     <1>12, <1>13, <1>14, <1>15, <1>16, <1>17, <1>18, <1>19 DEF Step

LEMMA NextRefines ==
  ASSUME RequestTimeout <= TTL
  PROVE  IInv /\ [Next]_vars => [Ex!Next]_(Ex!exchange)
<1> SUFFICES ASSUME IInv, [Next]_vars PROVE [Ex!Next]_(Ex!exchange)
  OBVIOUS
<1>1. CASE \E r \in Requests : Step(r)
  BY <1>1, StepRefines
<1>2. CASE Evict \/ Tick \/ Restart \/ UNCHANGED vars
  BY <1>2 DEF Evict, Tick, Restart, vars, journal, Open, Over, Ex!exchange
<1>3. CASE Crash
  <2>1. Open' = Open \ Open /\ Over' = Over \cup Open
    BY <1>3 DEF IInv, TypeOK, Crash, Open, Over, Active, Awaits, Inline, Ended
  <2>2. Ex!Break
    BY <1>3, <2>1 DEF Crash, journal, Ex!Break
  <2> QED BY <2>2 DEF Ex!Next
<1> QED BY <1>1, <1>2, <1>3 DEF Next

(* Every behaviour of the lifecycle is one the contract allows: masked     *)
(* text leaves only behind a start entry, restored text reaches the client *)
(* only behind a completion entry, the text of an answer is never passed   *)
(* on unrestored, and lines without text are relayed only by a stream that *)
(* is still open.                                                          *)
THEOREM LifecycleImplementsExchange ==
  ASSUME RequestTimeout <= TTL
  PROVE  Spec => ImplementsExchange
<1>1. Init => Ex!Init
  BY DEF Init, Ex!Init, Open, Over, Active, Awaits, Inline, Ended
<1>2. IInv /\ [Next]_vars => [Ex!Next]_(Ex!exchange)
  BY NextRefines
<1> QED
  BY <1>1, <1>2, InvariantHolds, PTL DEF Spec, Ex!Spec, ImplementsExchange
=============================================================================
