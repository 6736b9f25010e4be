------------------------------ MODULE NerPool ------------------------------
(***************************************************************************)
(* NerPool of ner_scanner.rs: a fixed number of NER sessions behind a      *)
(* mutex and a condition variable.  Threads of the scan take a session,    *)
(* wait up to two seconds for one, and fall back to the other detectors    *)
(* when none comes.  Everything between lock() and unlock is one step: the *)
(* mutex is held; the wait releases it, so a thread can be overtaken       *)
(* between being notified and locking again.                               *)
(***************************************************************************)
EXTENDS Integers, FiniteSets

CONSTANTS
    Threads,     \* threads that scan texts
    PoolSize,    \* sessions loaded at start (ner_pool_size)
    WaitTicks,   \* the two seconds of one wait
    MaxWoken     \* bound: spurious wake-ups of a behaviour

ASSUME PoolAssumption ==
    /\ IsFiniteSet(Threads)
    /\ PoolSize \in Nat
    /\ WaitTicks \in Nat
    /\ MaxWoken \in Nat

VARIABLES
    stage,    \* per thread: where it is in acquire
    free,     \* sessions in the vector
    ticks,    \* per thread: how long its present wait has lasted
    spurious  \* spurious wake-ups so far

poolVars == <<stage, free, ticks, spurious>>

Stages == {"idle", "blocked", "woken", "expired", "holding"}
In(s) == {t \in Threads : stage[t] = s}

PoolTypeOK ==
    /\ stage \in [Threads -> Stages]
    /\ free \in 0..PoolSize
    /\ ticks \in [Threads -> 0..WaitTicks]
    /\ spurious \in 0..MaxWoken

PoolInit ==
    /\ stage = [t \in Threads |-> "idle"]
    /\ free = PoolSize
    /\ ticks = [t \in Threads |-> 0]
    /\ spurious = 0

-----------------------------------------------------------------------------
\* Mutant: the session is not taken out of the vector.
TakeCopies(t) ==
    /\ free > 0
    /\ stage' = [stage EXCEPT ![t] = "holding"]
    /\ UNCHANGED <<free, ticks>>

(* pool.pop(): the session is the thread's alone.                          *)
Take(t) ==
    /\ free > 0
    /\ free' = free - 1
    /\ stage' = [stage EXCEPT ![t] = "holding"]
    /\ UNCHANGED ticks

(* wait_timeout: the mutex is released, two new seconds begin.             *)
Wait(t) ==
    /\ free = 0
    /\ stage' = [stage EXCEPT ![t] = "blocked"]
    /\ ticks' = [ticks EXCEPT ![t] = 0]
    /\ UNCHANGED free

(* The top of the loop in acquire, entered by a call or by a wake-up that  *)
(* was not a timeout.                                                      *)
Look(t) ==
    /\ stage[t] \in {"idle", "woken"}
    /\ Take(t) \/ Wait(t)
    /\ UNCHANGED spurious

(* Two seconds are over: the thread gives up when it has the mutex again,  *)
(* without looking whether a session came back meanwhile.                  *)
Expire(t) ==
    /\ stage[t] = "blocked"
    /\ ticks[t] = WaitTicks
    /\ stage' = [stage EXCEPT ![t] = "expired"]
    /\ UNCHANGED <<free, ticks, spurious>>

GiveUp(t) ==
    /\ stage[t] = "expired"
    /\ stage' = [stage EXCEPT ![t] = "idle"]
    /\ UNCHANGED <<free, ticks, spurious>>

WakeUp(t) ==
    /\ stage[t] = "blocked"
    /\ spurious < MaxWoken
    /\ stage' = [stage EXCEPT ![t] = "woken"]
    /\ spurious' = spurious + 1
    /\ UNCHANGED <<free, ticks>>

\* Mutant: the session is pushed and nobody notified.
ReleaseSilently(t) ==
    /\ stage[t] = "holding"
    /\ free' = free + 1
    /\ stage' = [stage EXCEPT ![t] = "idle"]
    /\ UNCHANGED <<ticks, spurious>>

(* The guard is dropped, also when a scan fails or, in a build that        *)
(* unwinds, panics: push, and notify_one for one of those that wait.       *)
Release(t) ==
    /\ stage[t] = "holding"
    /\ free' = free + 1
    /\ IF In("blocked") = {}
       THEN stage' = [stage EXCEPT ![t] = "idle"]
       ELSE \E w \in In("blocked") :
                stage' = [stage EXCEPT ![t] = "idle", ![w] = "woken"]
    /\ UNCHANGED <<ticks, spurious>>

(* Time passes for the threads that wait.                                  *)
PoolTick ==
    /\ \E t \in In("blocked") : ticks[t] < WaitTicks
    /\ ticks' = [t \in Threads |->
                   IF stage[t] = "blocked" /\ ticks[t] < WaitTicks
                   THEN ticks[t] + 1 ELSE ticks[t]]
    /\ UNCHANGED <<stage, free, spurious>>

PoolNext ==
    \/ \E t \in Threads :
         Look(t) \/ Expire(t) \/ GiveUp(t) \/ WakeUp(t) \/ Release(t)
    \/ PoolTick

PoolSpec == PoolInit /\ [][PoolNext]_poolVars
-----------------------------------------------------------------------------
(* No session is lost or shared: those in the vector and those held by a   *)
(* thread are the ones loaded at start, whatever timed out or panicked.    *)
SessionsConserved == free + Cardinality(In("holding")) = PoolSize

(* No lost wake-up: when sessions lie in the vector while threads sleep on *)
(* the condition variable, as many threads are already awake and on their  *)
(* way to take them.                                                       *)
NoSleeperForgotten == In("blocked") # {} => free <= Cardinality(In("woken"))
=============================================================================
