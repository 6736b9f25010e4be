----------------------------- MODULE Heartbeat -----------------------------
(***************************************************************************)
(* HeartbeatMonitor of the plugin (heartbeat.ts): a timer that asks the    *)
(* health endpoint of the proxy, and a state the redaction hooks read.     *)
(* The timer does not wait for the check before: the timeout of a request  *)
(* is one of silence, and a slow answer or a short interval lets checks    *)
(* overlap and settle in any order.  stop() aborts a request by the one    *)
(* handle the monitor keeps.  The event loop runs one callback at a time.  *)
(***************************************************************************)
EXTENDS Integers, FiniteSets

CONSTANTS
    Checks,       \* bound: checks under way at the same time
    MaxTurns,     \* bound: times the proxy changes its condition
    MaxStarts,    \* bound: calls of start()
    MaxFailures   \* bound: where the count of failures saturates

ASSUME BeatAssumption ==
    MaxTurns \in Nat /\ MaxStarts \in Nat /\ MaxFailures \in Nat

VARIABLES
    beat,      \* _state
    timer,     \* the interval timer is set
    activeReq, \* the check whose request can be aborted
    flight,    \* per check: where its request is
    failures,  \* _consecutiveFailures
    lastHealth,\* status of _lastHealth
    proxy,     \* the condition of the proxy
    turns,     \* how often that changed
    starts,    \* how often start() was called
    orphans    \* history: checks that stop() left running

beatVars == <<beat, timer, activeReq, flight, failures, lastHealth, proxy,
              turns, starts, orphans>>

ProxyStates == {"active", "passthrough", "degraded", "recovering", "disabled"}
Answers     == {"active", "passthrough"}
Conditions  == Answers \cup {"warming", "down"}
Flights     == {"free", "sent", "unready", "failed", "aborted"} \cup Answers

BeatTypeOK ==
    /\ beat \in ProxyStates
    /\ timer \in BOOLEAN
    /\ activeReq \in Checks \cup {"none"}
    /\ flight \in [Checks -> Flights]
    /\ failures \in 0..MaxFailures
    /\ lastHealth \in Answers \cup {"none"}
    /\ proxy \in Conditions
    /\ turns \in 0..MaxTurns /\ starts \in 0..MaxStarts
    /\ orphans \subseteq Checks

BeatInit ==
    /\ beat = "disabled" /\ timer = FALSE
    /\ activeReq = "none"
    /\ flight = [c \in Checks |-> "free"]
    /\ failures = 0 /\ lastHealth = "none"
    /\ proxy \in Conditions
    /\ turns = 0 /\ starts = 0
    /\ orphans = {}

OnlyBeat == UNCHANGED <<proxy, turns>>
-----------------------------------------------------------------------------
(* fetchHealth: a new request, and the handle to it.                       *)
Fetch ==
    \E c \in Checks :
      /\ flight[c] = "free"
      /\ flight' = [flight EXCEPT ![c] = "sent"]
      /\ activeReq' = c

(* start(): active until the first check says otherwise.                   *)
StartBeat ==
    /\ ~timer
    /\ starts < MaxStarts
    /\ starts' = starts + 1
    /\ timer' = TRUE
    /\ beat' = "active"
    /\ Fetch
    /\ UNCHANGED <<failures, lastHealth, orphans>> /\ OnlyBeat

TickBeat ==
    /\ timer
    /\ Fetch
    /\ UNCHANGED <<beat, timer, failures, lastHealth, starts, orphans>> /\ OnlyBeat

\* Mutant: the request under way is not aborted.
StopBeatOnly ==
    /\ timer
    /\ timer' = FALSE
    /\ beat' = "disabled"
    /\ orphans' = {c \in Checks \ {activeReq} : flight[c] # "free"}
    /\ UNCHANGED <<activeReq, flight, failures, lastHealth, starts>> /\ OnlyBeat

(* stop(): the request that is destroyed still reports an error.           *)
StopBeat ==
    /\ timer
    /\ timer' = FALSE
    /\ beat' = "disabled"
    /\ flight' = [c \in Checks |->
                    IF c = activeReq /\ flight[c] # "free" THEN "aborted" ELSE flight[c]]
    /\ activeReq' = "none"
    /\ orphans' = {c \in Checks \ {activeReq} : flight[c] # "free"}
    /\ UNCHANGED <<failures, lastHealth, starts>> /\ OnlyBeat

(* The proxy answers with its condition at this moment, with 503 while the *)
(* models are warmed up, or not at all.                                    *)
Answer(c) ==
    /\ flight[c] = "sent"
    /\ flight' = [flight EXCEPT ![c] =
                    CASE proxy = "down" -> "failed"
                      [] proxy = "warming" -> "unready"
                      [] OTHER -> proxy]
    /\ UNCHANGED <<beat, timer, activeReq, failures, lastHealth, starts, orphans>>
    /\ OnlyBeat

(* The connection breaks behind the headers: neither end nor error comes,  *)
(* and the promise is never settled.                                       *)
CutOff(c) ==
    /\ flight[c] \in Answers
    /\ proxy = "down"
    /\ flight' = [flight EXCEPT ![c] = "free"]
    /\ orphans' = orphans \ {c}
    /\ UNCHANGED <<beat, timer, activeReq, failures, lastHealth, starts>> /\ OnlyBeat

(* check() goes on after an answer.  The recovering state is passed        *)
(* through, for its message.                                               *)
Succeed(c) ==
    /\ flight[c] \in Answers
    /\ flight' = [flight EXCEPT ![c] = "free"]
    /\ activeReq' = "none"
    /\ lastHealth' = flight[c]
    /\ failures' = 0
    /\ beat' = flight[c]
    /\ orphans' = orphans \ {c}
    /\ UNCHANGED <<timer, starts>> /\ OnlyBeat

\* Mutant: only an active monitor degrades.
FailActive(c) ==
    /\ flight[c] \in {"failed", "unready", "aborted"}
    /\ flight' = [flight EXCEPT ![c] = "free"]
    /\ activeReq' = IF flight[c] = "unready" THEN activeReq ELSE "none"
    /\ failures' = IF failures < MaxFailures THEN failures + 1 ELSE failures
    /\ beat' = IF beat = "active" THEN "degraded" ELSE beat
    /\ orphans' = orphans \ {c}
    /\ UNCHANGED <<timer, lastHealth, starts>> /\ OnlyBeat

(* check() goes on after an error or a timeout, which forget the handle,   *)
(* whichever request it is of, or after a status that is not 200.          *)
Fail(c) ==
    /\ flight[c] \in {"failed", "unready", "aborted"}
    /\ flight' = [flight EXCEPT ![c] = "free"]
    /\ activeReq' = IF flight[c] = "unready" THEN activeReq ELSE "none"
    /\ failures' = IF failures < MaxFailures THEN failures + 1 ELSE failures
    /\ beat' = IF beat = "disabled" THEN beat ELSE "degraded"
    /\ orphans' = orphans \ {c}
    /\ UNCHANGED <<timer, lastHealth, starts>> /\ OnlyBeat

(* The proxy is started, killed, or put into another mode.                 *)
Turn ==
    /\ turns < MaxTurns
    /\ proxy' \in Conditions \ {proxy}
    /\ turns' = turns + 1
    /\ UNCHANGED <<beat, timer, activeReq, flight, failures, lastHealth, starts, orphans>>

BeatNext ==
    \/ StartBeat \/ TickBeat \/ StopBeat \/ Turn
    \/ \E c \in Checks : Answer(c) \/ CutOff(c) \/ Succeed(c) \/ Fail(c)

BeatSpec == BeatInit /\ [][BeatNext]_beatVars

(* The timer fires, and a request is answered or fails: its socket has a   *)
(* timeout.                                                                *)
BeatProgress(c) == Answer(c) \/ CutOff(c) \/ Succeed(c) \/ Fail(c)
-----------------------------------------------------------------------------
(* Once stopped the monitor stays disabled until it is started: the check  *)
(* that stop() could abort is aborted.  The exception are checks it had no *)
(* handle to, overtaken by a later one or by the error of an earlier one:  *)
(* their late success makes a stopped monitor active.                      *)
StoppedStaysDisabled ==
    [][~timer /\ ~timer' /\ beat = "disabled" /\ beat' # "disabled"
       => \E c \in orphans : flight[c] # "free" /\ flight'[c] = "free"]_beatVars

(* The state of a monitor that runs follows the proxy: degraded for good   *)
(* once it is down (or never becomes ready), active or passthrough for     *)
(* good once it answers so, whatever checks overlap.                       *)
BeatFollowsProxy ==
    /\ <>[](timer /\ proxy \in {"down", "warming"}) => <>[](beat = "degraded")
    /\ \A a \in Answers : <>[](timer /\ proxy = a) => <>[](beat = a)
=============================================================================
