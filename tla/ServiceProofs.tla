--------------------------- MODULE ServiceProofs ---------------------------
(***************************************************************************)
(* Proofs about the services around the proxy, one section for each: the   *)
(* pool of models, the keys, the health statistics, the monitor of the     *)
(* plugin, the start, the models of the image pipeline, the conversations  *)
(* and the journal in its ring.  They share no variable; each section      *)
(* stands alone, and the last one puts them together.                      *)
(***************************************************************************)
EXTENDS MCServices, FiniteSetTheorems, DataLemmas

-----------------------------------------------------------------------------
(***************************************************************************)
(* Proofs about NerPool, for any finite set of threads, any pool and any   *)
(* length of a wait.  The two invariants are inductive together with the   *)
(* type; the work is in counting threads that change their stage.          *)
(***************************************************************************)

PoolInv == PoolTypeOK /\ SessionsConserved /\ NoSleeperForgotten

-----------------------------------------------------------------------------
LEMMA InIsFinite ==
    ASSUME NEW s
    PROVE  IsFiniteSet(In(s)) /\ Cardinality(In(s)) \in Nat
<1>1. In(s) \in SUBSET Threads  BY DEF In
<1>2. IsFiniteSet(In(s))  BY <1>1, FS_Subset, PoolAssumption
<1> QED  BY <1>2, FS_CardinalityType

LEMMA InIsFiniteNext ==
    ASSUME NEW s
    PROVE  IsFiniteSet(In(s)') /\ Cardinality(In(s)') \in Nat
<1>1. In(s)' \in SUBSET Threads  BY DEF In
<1>2. IsFiniteSet(In(s)')  BY <1>1, FS_Subset, PoolAssumption
<1> QED  BY <1>2, FS_CardinalityType

(* A thread that enters a stage is one more in it.                         *)
LEMMA Entering ==
    ASSUME NEW s, NEW t, t \notin In(s), In(s)' = In(s) \cup {t}
    PROVE  Cardinality(In(s)') = Cardinality(In(s)) + 1
BY InIsFinite, FS_AddElement

(* A thread that leaves a stage is one less in it, and one was there.      *)
LEMMA Leaving ==
    ASSUME NEW s, NEW t, t \in In(s), In(s)' = In(s) \ {t}
    PROVE  Cardinality(In(s)') = Cardinality(In(s)) - 1 /\ Cardinality(In(s)) >= 1
<1>1. Cardinality(In(s)') = Cardinality(In(s)) - 1  BY InIsFinite, FS_RemoveElement
<1> QED  BY <1>1, InIsFinite, InIsFiniteNext

-----------------------------------------------------------------------------
(* All sessions are free and no thread has asked.                          *)
LEMMA PoolInitInv == PoolInit => PoolInv
<1> SUFFICES ASSUME PoolInit PROVE PoolInv  OBVIOUS
<1>1. In("holding") = {} /\ In("blocked") = {}  BY DEF PoolInit, In
<1>2. PoolTypeOK  BY PoolAssumption DEF PoolInit, PoolTypeOK, Stages
<1>3. SessionsConserved
  BY <1>1, FS_EmptySet, PoolAssumption DEF SessionsConserved, PoolInit
<1> QED  BY <1>1, <1>2, <1>3 DEF PoolInv, NoSleeperForgotten

LEMMA TakeStep ==
    ASSUME PoolInv, NEW t \in Threads, Look(t), Take(t)
    PROVE  PoolInv'
<1>1. PoolTypeOK'
  BY PoolAssumption DEF PoolInv, PoolTypeOK, Stages, Look, Take
<1>2. In("holding")' = In("holding") \cup {t} /\ t \notin In("holding")
  BY DEF PoolInv, PoolTypeOK, Look, Take, In
<1>3. Cardinality(In("holding")') = Cardinality(In("holding")) + 1
  BY <1>2, Entering
<1>4. free > 0 /\ free' = free - 1 /\ free \in Nat
  BY DEF PoolInv, PoolTypeOK, Take
<1>5. SessionsConserved'
  BY <1>3, <1>4, InIsFinite, PoolAssumption DEF PoolInv, SessionsConserved
<1>6. In("blocked")' = In("blocked")
  BY DEF PoolInv, PoolTypeOK, Look, Take, In
<1>7. NoSleeperForgotten'
  <2>1. CASE stage[t] = "idle"
    <3>1. In("woken")' = In("woken")
      BY <2>1 DEF PoolInv, PoolTypeOK, Take, In
    <3> QED  BY <3>1, <1>4, <1>6, InIsFinite DEF PoolInv, NoSleeperForgotten
  <2>2. CASE stage[t] = "woken"
    <3>1. In("woken")' = In("woken") \ {t} /\ t \in In("woken")
      BY <2>2 DEF PoolInv, PoolTypeOK, Take, In
    <3>2. Cardinality(In("woken")') = Cardinality(In("woken")) - 1
      BY <3>1, Leaving
    <3> QED  BY <3>2, <1>4, <1>6, InIsFinite DEF PoolInv, NoSleeperForgotten
  <2> QED  BY <2>1, <2>2 DEF Look
<1> QED  BY <1>1, <1>5, <1>7 DEF PoolInv

LEMMA WaitStep ==
    ASSUME PoolInv, NEW t \in Threads, Look(t), Wait(t)
    PROVE  PoolInv'
<1>1. PoolTypeOK'
  BY PoolAssumption DEF PoolInv, PoolTypeOK, Stages, Look, Wait
<1>2. In("holding")' = In("holding") /\ free' = free /\ free = 0
  BY DEF PoolInv, PoolTypeOK, Look, Wait, In
<1>3. SessionsConserved'  BY <1>2 DEF PoolInv, SessionsConserved
<1>4. NoSleeperForgotten'  BY <1>2, InIsFiniteNext DEF NoSleeperForgotten
<1> QED  BY <1>1, <1>3, <1>4 DEF PoolInv

LEMMA ExpireStep ==
    ASSUME PoolInv, NEW t \in Threads, Expire(t) \/ GiveUp(t)
    PROVE  PoolInv'
<1>1. PoolTypeOK'
  BY DEF PoolInv, PoolTypeOK, Stages, Expire, GiveUp
<1>2. /\ In("holding")' = In("holding")
      /\ In("woken")' = In("woken")
      /\ In("blocked")' \subseteq In("blocked")
      /\ free' = free
  BY DEF PoolInv, PoolTypeOK, Expire, GiveUp, In
<1> QED  BY <1>1, <1>2 DEF PoolInv, SessionsConserved, NoSleeperForgotten

LEMMA WakeUpStep ==
    ASSUME PoolInv, NEW t \in Threads, WakeUp(t)
    PROVE  PoolInv'
<1>1. PoolTypeOK'
  BY PoolAssumption DEF PoolInv, PoolTypeOK, Stages, WakeUp
<1>2. /\ In("holding")' = In("holding")
      /\ In("woken")' = In("woken") \cup {t}
      /\ t \notin In("woken")
      /\ In("blocked") # {}
      /\ free' = free /\ free \in Nat
  BY DEF PoolInv, PoolTypeOK, WakeUp, In
<1>3. Cardinality(In("woken")') = Cardinality(In("woken")) + 1
  BY <1>2, Entering
<1> QED
  BY <1>1, <1>2, <1>3, InIsFinite DEF PoolInv, SessionsConserved, NoSleeperForgotten

(* The thread that gives a session back wakes one that sleeps, so as many  *)
(* more are awake as there are more sessions.                              *)
LEMMA ReleaseStep ==
    ASSUME PoolInv, NEW t \in Threads, Release(t)
    PROVE  PoolInv'
<1>1. In("holding")' = In("holding") \ {t} /\ t \in In("holding")
  BY DEF PoolInv, PoolTypeOK, Release, In
<1>2. /\ Cardinality(In("holding")') = Cardinality(In("holding")) - 1
      /\ Cardinality(In("holding")) >= 1
  BY <1>1, Leaving
<1>3. free' = free + 1 /\ free \in Nat  BY DEF PoolInv, PoolTypeOK, Release
<1>4. SessionsConserved'
  BY <1>2, <1>3, InIsFinite DEF PoolInv, SessionsConserved
<1>5. free' \in 0..PoolSize
  BY <1>3, <1>4, InIsFiniteNext, PoolAssumption DEF SessionsConserved
<1>6. PoolTypeOK'
  BY <1>5 DEF PoolInv, PoolTypeOK, Stages, Release, In
<1>7. NoSleeperForgotten'
  <2>1. CASE In("blocked") = {}
    <3>1. In("blocked")' = {}
      BY <2>1 DEF PoolInv, PoolTypeOK, Release, In
    <3> QED  BY <3>1 DEF NoSleeperForgotten
  <2>2. CASE In("blocked") # {}
    <3>1. PICK w \in In("blocked") :
              stage' = [stage EXCEPT ![t] = "idle", ![w] = "woken"]
      BY <2>2 DEF Release
    <3>2. In("woken")' = In("woken") \cup {w} /\ w \notin In("woken")
      BY <3>1 DEF PoolInv, PoolTypeOK, Release, In
    <3>3. Cardinality(In("woken")') = Cardinality(In("woken")) + 1
      BY <3>2, Entering
    <3> QED
      BY <2>2, <3>3, <1>3, InIsFinite DEF PoolInv, NoSleeperForgotten
  <2> QED  BY <2>1, <2>2
<1> QED  BY <1>4, <1>6, <1>7 DEF PoolInv

LEMMA TickStep ==
    ASSUME PoolInv, PoolTick \/ UNCHANGED poolVars
    PROVE  PoolInv'
<1>1. stage' = stage /\ free' = free /\ spurious' = spurious
  BY DEF PoolTick, poolVars
<1>2. ticks' \in [Threads -> 0..WaitTicks]
  BY PoolAssumption DEF PoolInv, PoolTypeOK, PoolTick, poolVars
<1> QED
  BY <1>1, <1>2 DEF PoolInv, PoolTypeOK, SessionsConserved, NoSleeperForgotten, In

(* Each step of the pool keeps the invariant.                              *)
LEMMA PoolStepInv == PoolInv /\ [PoolNext]_poolVars => PoolInv'
<1> SUFFICES ASSUME PoolInv, [PoolNext]_poolVars PROVE PoolInv'  OBVIOUS
<1>1. ASSUME NEW t \in Threads, Look(t) PROVE PoolInv'
  BY <1>1, TakeStep, WaitStep DEF Look
<1>2. ASSUME NEW t \in Threads, Expire(t) \/ GiveUp(t) PROVE PoolInv'
  BY <1>2, ExpireStep
<1>3. ASSUME NEW t \in Threads, WakeUp(t) PROVE PoolInv'
  BY <1>3, WakeUpStep
<1>4. ASSUME NEW t \in Threads, Release(t) PROVE PoolInv'
  BY <1>4, ReleaseStep
<1>5. CASE PoolTick \/ UNCHANGED poolVars  BY <1>5, TickStep
<1> QED  BY <1>1, <1>2, <1>3, <1>4, <1>5 DEF PoolNext

-----------------------------------------------------------------------------
(* Every variable of the pool keeps its type.                              *)
THEOREM PoolTypeCorrect == PoolSpec => []PoolTypeOK
<1>1. PoolInv => PoolTypeOK  BY DEF PoolInv
<1> QED  BY PoolInitInv, PoolStepInv, <1>1, PTL DEF PoolSpec

(* Sessions are neither lost nor shared, for any number of threads and     *)
(* sessions and however often waits end by time or by themselves.          *)
THEOREM NoSessionIsLost == PoolSpec => []SessionsConserved
<1>1. PoolInv => SessionsConserved  BY DEF PoolInv
<1> QED  BY PoolInitInv, PoolStepInv, <1>1, PTL DEF PoolSpec

(* A session never lies idle beside a sleeping thread without another      *)
(* thread already awake to take it.                                        *)
THEOREM NoWakeUpIsLost == PoolSpec => []NoSleeperForgotten
<1>1. PoolInv => NoSleeperForgotten  BY DEF PoolInv
<1> QED  BY PoolInitInv, PoolStepInv, <1>1, PTL DEF PoolSpec

-----------------------------------------------------------------------------
(***************************************************************************)
(* Proofs about KeyLifecycle, for any number of rotating tasks and of      *)
(* requests, any overlap and any keys.                                     *)
(*                                                                         *)
(* A version names one key because only the holder of the write lock       *)
(* installs, one version above all that exist; an engine in use is found   *)
(* again because, from the moment the lock is taken, the engine one        *)
(* version back is the previous one, or its overlap is over.               *)
(***************************************************************************)

(* At most the holder of the lock has retired an engine, and who has read  *)
(* a key has read one.                                                     *)
LockInv ==
    /\ \A r \in Rotators : task[r].at = "moved" => lock = r
    /\ \A r \in Rotators : task[r].at \in {"read", "moved"} => task[r].key # 0

(* The current engine is the newest of those installed; a server that is   *)
(* down has none, and nobody works on it.                                  *)
NewestInv ==
    /\ manager.up => manager.current \in installed
    /\ \A e \in installed : e.version \in 1..manager.current.version
    /\ \A q \in Requests : held[q] # Nothing => held[q] \in installed
    /\ ~manager.up =>
         /\ installed = {}
         /\ \A r \in Rotators : task[r].at = "idle"

Expired == time - manager.retired >= Overlap

(* What previous holds while an engine is being replaced, and after.       *)
OverlapInv ==
    IF \E r \in Rotators : task[r].at = "moved"
    THEN manager.previous = manager.current \/ Expired
    ELSE \A e \in installed :
             e.version + 1 = manager.current.version => e = manager.previous \/ Expired

KeyInv == KeyTypeOK /\ LockInv /\ NewestInv /\ VersionsNameKeys /\ OverlapInv

(* The part of the state that commands leave alone.                        *)
ServerVars == <<manager, lock, task, held, time, installed>>

-----------------------------------------------------------------------------
LEMMA FpeKeyType == KeyTypeOK => FpeKey \in Keys \cup {0}
BY KeyAssumption DEF KeyTypeOK, FpeKey, Keys, OutsideKey

(* No server runs.                                                         *)
LEMMA KeyInitInv == KeyInit => KeyInv
<1> SUFFICES ASSUME KeyInit PROVE KeyInv  OBVIOUS
<1>1. KeyTypeOK
  BY KeyAssumption DEF KeyInit, KeyTypeOK, Stopped, Nothing, Keys, OutsideKey, Engines
<1>2. LockInv /\ NewestInv /\ VersionsNameKeys /\ OverlapInv
  BY DEF KeyInit, LockInv, NewestInv, VersionsNameKeys, OverlapInv, Stopped, Nothing
<1> QED  BY <1>1, <1>2 DEF KeyInv

(* The commands change the vault only.                                     *)
LEMMA CommandStep ==
    ASSUME KeyInv, InitKey \/ KeyRotate \/ InitFpeKey \/ VerifyKey
    PROVE  KeyInv'
<1>1. KeyTypeOK'
  BY KeyAssumption DEF KeyInv, KeyTypeOK, InitKey, KeyRotate, InitFpeKey, VerifyKey, OnlyCommand
<1>2. UNCHANGED ServerVars
  BY DEF InitKey, KeyRotate, InitFpeKey, VerifyKey, OnlyCommand, ServerVars
<1>3. LockInv' /\ NewestInv' /\ VersionsNameKeys' /\ OverlapInv'
  BY <1>2 DEF KeyInv, LockInv, NewestInv, VersionsNameKeys, OverlapInv, Expired, ServerVars
<1> QED  BY <1>1, <1>3 DEF KeyInv

LEMMA RotatorStartStep ==
    ASSUME KeyInv, ServerStart
    PROVE  KeyInv'
<1>1. FpeKey \in Keys  BY FpeKeyType DEF KeyInv, ServerStart
<1> DEFINE engine == [version |-> 1, key |-> FpeKey]
<1>2. /\ manager' = [current |-> engine, previous |-> Nothing, retired |-> 0, up |-> TRUE]
      /\ installed' = {engine}
      /\ UNCHANGED <<outside, keychain, made, command, lock, task, held, time>>
  BY DEF ServerStart, OnlyManager
<1>3. engine \in Engines  BY <1>1 DEF Engines
<1> HIDE DEF engine
<1>4. KeyTypeOK'  BY <1>2, <1>3 DEF KeyInv, KeyTypeOK
<1>5. /\ ~manager.up /\ installed = {}
      /\ \A r \in Rotators : task[r].at = "idle"
      /\ \A q \in Requests : held[q] = Nothing
  BY DEF KeyInv, NewestInv, ServerStart
<1>6. LockInv' /\ VersionsNameKeys'  BY <1>2, <1>5 DEF KeyInv, LockInv, VersionsNameKeys
<1>7. engine.version = 1  BY DEF engine
<1>8. NewestInv' /\ OverlapInv'  BY <1>2, <1>5, <1>7 DEF NewestInv, OverlapInv
<1> QED  BY <1>4, <1>6, <1>8 DEF KeyInv

LEMMA RotatorStopStep ==
    ASSUME KeyInv, ServerStop
    PROVE  KeyInv'
<1>1. KeyTypeOK'
  BY DEF KeyInv, KeyTypeOK, ServerStop, OnlyManager, Stopped
<1>2. LockInv' /\ NewestInv' /\ VersionsNameKeys' /\ OverlapInv'
  BY DEF ServerStop, LockInv, NewestInv, VersionsNameKeys, OverlapInv, Stopped
<1> QED  BY <1>1, <1>2 DEF KeyInv

LEMMA ReadVaultStep ==
    ASSUME KeyInv, NEW r \in Rotators, ReadVault(r)
    PROVE  KeyInv'
<1>1. FpeKey \in Keys /\ FpeKey # 0  BY FpeKeyType DEF KeyInv, ReadVault
<1>2. /\ task' = [task EXCEPT ![r] = [at |-> "read", key |-> FpeKey]]
      /\ task[r].at = "idle" /\ manager.up
      /\ UNCHANGED <<outside, keychain, made, command, manager, lock, held, time, installed>>
  BY DEF ReadVault, OnlyManager
<1>3. KeyTypeOK'  BY <1>1, <1>2 DEF KeyInv, KeyTypeOK
<1>4. \A s \in Rotators : task'[s].at = "moved" <=> task[s].at = "moved"
  BY <1>2 DEF KeyInv, KeyTypeOK
<1>5. LockInv'  BY <1>1, <1>2, <1>4 DEF KeyInv, LockInv, KeyTypeOK
<1>6. NewestInv' /\ VersionsNameKeys'
  BY <1>2 DEF KeyInv, NewestInv, VersionsNameKeys
<1>7. OverlapInv'  BY <1>2, <1>4 DEF KeyInv, OverlapInv, Expired
<1> QED  BY <1>3, <1>5, <1>6, <1>7 DEF KeyInv

(* Whoever takes the lock finds nobody else at work.                       *)
LEMMA RetireStep ==
    ASSUME KeyInv, NEW r \in Rotators, Retire(r)
    PROVE  KeyInv'
<1>1. /\ task[r].at = "read" /\ lock = "free" /\ lock' = r
      /\ task' = [task EXCEPT ![r].at = "moved"]
      /\ manager' = [manager EXCEPT !.previous = manager.current, !.retired = time]
      /\ UNCHANGED <<outside, keychain, made, command, held, time, installed>>
  BY DEF Retire, OnlyManager
<1>2. KeyTypeOK'
  <2>1. time \in Nat  BY KeyAssumption DEF KeyInv, KeyTypeOK
  <2> QED  BY <1>1, <2>1 DEF KeyInv, KeyTypeOK
<1>3. \A s \in Rotators : s # r => task'[s].at # "moved"
  BY <1>1, KeyAssumption DEF KeyInv, KeyTypeOK, LockInv
<1>4. LockInv'  BY <1>1, <1>3 DEF KeyInv, KeyTypeOK, LockInv
<1>5. /\ manager'.current = manager.current /\ manager'.up = manager.up
      /\ manager'.previous = manager.current
  BY <1>1 DEF KeyInv, KeyTypeOK
<1>6. manager.up  BY <1>1 DEF KeyInv, NewestInv
<1>7. NewestInv' /\ VersionsNameKeys'
  BY <1>1, <1>5, <1>6 DEF KeyInv, NewestInv, VersionsNameKeys
<1>8. task'[r].at = "moved"  BY <1>1 DEF KeyInv, KeyTypeOK
<1>9. OverlapInv'  BY <1>5, <1>8 DEF OverlapInv
<1> QED  BY <1>2, <1>4, <1>7, <1>9 DEF KeyInv

(* The new engine is one version above all others; the one below it is the *)
(* engine that was current.                                                *)
LEMMA InstallStep ==
    ASSUME KeyInv, NEW r \in Rotators, Install(r)
    PROVE  KeyInv'
<1> DEFINE engine == [version |-> manager.current.version + 1, key |-> task[r].key]
<1>1. /\ task[r].at = "moved" /\ lock' = "free"
      /\ task' = [task EXCEPT ![r] = [at |-> "idle", key |-> 0]]
      /\ manager' = [manager EXCEPT !.current = engine]
      /\ installed' = installed \cup {engine}
      /\ UNCHANGED <<outside, keychain, made, command, held, time>>
  BY DEF Install, OnlyManager
<1>2. manager.up /\ manager.current \in installed /\ lock = r
  BY <1>1 DEF KeyInv, NewestInv, LockInv
<1>3. manager.current.version \in Nat /\ installed \subseteq Engines
  BY <1>2 DEF KeyInv, KeyTypeOK, Engines
<1>4. engine \in Engines /\ engine.version = manager.current.version + 1
  BY <1>1, <1>3 DEF KeyInv, KeyTypeOK, LockInv, Engines
<1> HIDE DEF engine
<1>5. KeyTypeOK'  BY <1>1, <1>4 DEF KeyInv, KeyTypeOK
<1>6. \A s \in Rotators : task'[s].at # "moved"
  BY <1>1, <1>2 DEF KeyInv, KeyTypeOK, LockInv
<1>7. LockInv'  BY <1>1, <1>6 DEF KeyInv, KeyTypeOK, LockInv
<1>8. /\ manager'.current = engine /\ manager'.up = manager.up
      /\ manager'.previous = manager.previous /\ manager'.retired = manager.retired
  BY <1>1 DEF KeyInv, KeyTypeOK
<1>9. \A e \in installed : e.version \in 1..manager.current.version /\ e.version < engine.version
  BY <1>3, <1>4 DEF KeyInv, NewestInv, Engines
<1>10. NewestInv'
  <2>1. \A e \in installed' : e.version \in 1..engine.version
    BY <1>1, <1>3, <1>4, <1>9 DEF Engines
  <2> QED  BY <1>1, <1>2, <1>8, <2>1 DEF KeyInv, NewestInv
<1>11. VersionsNameKeys'
  BY <1>1, <1>4, <1>9 DEF KeyInv, VersionsNameKeys, Engines
<1>12. OverlapInv'
  <2>1. manager.previous = manager.current \/ Expired  BY <1>1 DEF KeyInv, OverlapInv
  <2>2. Expired' <=> Expired  BY <1>1, <1>8 DEF Expired
  <2>3. SUFFICES ASSUME NEW e \in installed', e.version + 1 = engine.version
                 PROVE  e = manager.current
    BY <1>6, <1>8, <2>1, <2>2 DEF OverlapInv
  <2>4. e \in installed /\ e.version = manager.current.version
    BY <1>1, <1>3, <1>4, <2>3 DEF Engines
  <2>5. e.key = manager.current.key  BY <1>2, <2>4 DEF KeyInv, VersionsNameKeys
  <2> QED  BY <1>2, <1>3, <2>4, <2>5 DEF Engines
<1> QED  BY <1>5, <1>7, <1>10, <1>11, <1>12 DEF KeyInv

LEMMA RequestStep ==
    ASSUME KeyInv, NEW q \in Requests, Current(q) \/ Done(q)
    PROVE  KeyInv'
<1>1. /\ \/ /\ held' = [held EXCEPT ![q] = manager.current]
            /\ manager.up
         \/ held' = [held EXCEPT ![q] = Nothing]
      /\ UNCHANGED <<outside, keychain, made, command, manager, lock, task, time, installed>>
  BY DEF Current, Done, OnlyManager
<1>2. KeyTypeOK'  BY <1>1 DEF KeyInv, KeyTypeOK
<1>3. LockInv' /\ VersionsNameKeys' /\ OverlapInv'
  BY <1>1 DEF KeyInv, LockInv, VersionsNameKeys, OverlapInv, Expired
<1>4. NewestInv'  BY <1>1 DEF KeyInv, KeyTypeOK, NewestInv
<1> QED  BY <1>2, <1>3, <1>4 DEF KeyInv

LEMMA PreviousStep ==
    ASSUME KeyInv, Previous
    PROVE  KeyInv'
<1>1. /\ manager' = [manager EXCEPT !.previous = Nothing] /\ Expired
      /\ UNCHANGED <<outside, keychain, made, command, lock, task, held, time, installed>>
  BY DEF Previous, OnlyManager, Expired
<1>2. KeyTypeOK'  BY <1>1 DEF KeyInv, KeyTypeOK
<1>3. /\ manager'.current = manager.current /\ manager'.up = manager.up
      /\ manager'.retired = manager.retired
  BY <1>1 DEF KeyInv, KeyTypeOK
<1>4. Expired'  BY <1>1, <1>3 DEF Expired
<1>5. LockInv' /\ NewestInv' /\ VersionsNameKeys'
  BY <1>1, <1>3 DEF KeyInv, LockInv, NewestInv, VersionsNameKeys
<1>6. OverlapInv'  BY <1>4 DEF OverlapInv
<1> QED  BY <1>2, <1>5, <1>6 DEF KeyInv

LEMMA KeyTickStep ==
    ASSUME KeyInv, KeyTick \/ UNCHANGED keyVars
    PROVE  KeyInv'
<1>1. /\ time' \in {time, time + 1} /\ time' \in 0..MaxTime
      /\ UNCHANGED <<outside, keychain, made, command, manager, lock, task, held, installed>>
  BY KeyAssumption DEF KeyInv, KeyTypeOK, KeyTick, OnlyManager, keyVars
<1>2. KeyTypeOK'  BY <1>1 DEF KeyInv, KeyTypeOK
<1>3. Expired => Expired'
  BY <1>1, KeyAssumption DEF KeyInv, KeyTypeOK, Expired
<1>4. LockInv' /\ NewestInv' /\ VersionsNameKeys'
  BY <1>1 DEF KeyInv, LockInv, NewestInv, VersionsNameKeys
<1>5. OverlapInv'  BY <1>1, <1>3 DEF KeyInv, OverlapInv
<1> QED  BY <1>2, <1>4, <1>5 DEF KeyInv

(* Each step of the keys keeps the invariant.                              *)
LEMMA KeyStepInv == KeyInv /\ [KeyNext]_keyVars => KeyInv'
<1> SUFFICES ASSUME KeyInv, [KeyNext]_keyVars PROVE KeyInv'  OBVIOUS
<1>1. CASE InitKey \/ KeyRotate \/ InitFpeKey \/ VerifyKey  BY <1>1, CommandStep
<1>2. CASE ServerStart  BY <1>2, RotatorStartStep
<1>3. CASE ServerStop  BY <1>3, RotatorStopStep
<1>4. CASE Previous  BY <1>4, PreviousStep
<1>5. CASE KeyTick \/ UNCHANGED keyVars  BY <1>5, KeyTickStep
<1>6. ASSUME NEW r \in Rotators, ReadVault(r) \/ Retire(r) \/ Install(r) PROVE KeyInv'
  BY <1>6, ReadVaultStep, RetireStep, InstallStep
<1>7. ASSUME NEW q \in Requests, Current(q) \/ Done(q) PROVE KeyInv'
  BY <1>7, RequestStep
<1> QED  BY <1>1, <1>2, <1>3, <1>4, <1>5, <1>6, <1>7 DEF KeyNext

-----------------------------------------------------------------------------
(* A version names one key, for any number of rotating tasks.              *)
THEOREM AVersionNamesAKey == KeySpec => []VersionsNameKeys
<1>1. KeyInv => VersionsNameKeys  BY DEF KeyInv
<1> QED  BY KeyInitInv, KeyStepInv, <1>1, PTL DEF KeySpec

(* An engine a request holds is current or previous through its overlap.   *)
THEOREM EnginesOverlap == KeySpec => []HeldEngineIsKept
<1>1. KeyInv => HeldEngineIsKept
  <2> SUFFICES ASSUME KeyInv, NEW q \in Requests, held[q] # Nothing, lock = "free",
                      manager.current.version <= held[q].version + 1, ~Expired
               PROVE  held[q] \in {manager.current, manager.previous}
    BY KeyAssumption DEF HeldEngineIsKept, Expired, KeyInv, KeyTypeOK
  <2>1. held[q] \in installed /\ manager.up /\ manager.current \in installed
    BY DEF KeyInv, NewestInv
  <2>2. \A r \in Rotators : task[r].at # "moved"  BY KeyAssumption DEF KeyInv, LockInv
  <2>3. held[q] \in Engines /\ manager.current \in Engines
    BY <2>1 DEF KeyInv, KeyTypeOK
  <2>4. held[q].version \in 1..manager.current.version  BY <2>1 DEF KeyInv, NewestInv
  <2>5. CASE held[q].version = manager.current.version
    <3>1. held[q].key = manager.current.key
      BY <2>1, <2>5 DEF KeyInv, VersionsNameKeys
    <3> QED  BY <2>3, <2>5, <3>1 DEF Engines
  <2>6. CASE held[q].version + 1 = manager.current.version
    BY <2>1, <2>2, <2>6 DEF KeyInv, OverlapInv
  <2> QED  BY <2>3, <2>4, <2>5, <2>6 DEF Engines
<1> QED  BY KeyInitInv, KeyStepInv, <1>1, PTL DEF KeySpec

-----------------------------------------------------------------------------
(***************************************************************************)
(* Proofs about HealthStats, for any counters, either build profile and    *)
(* any number of processes one after the other.                            *)
(*                                                                         *)
(* RestartTellsTheTruth is not inductive: it needs what lies between a     *)
(* save and the next start.  A snapshot in progress holds, for what it has *)
(* read, at least the counters it began with and no more than the present  *)
(* ones; the file holds the last whole save unless a write was cut off.    *)
(***************************************************************************)

\* Less or equal, counter by counter.
Below(f, g) == \A c \in Counters : f[c] <= g[c]

SaveInv ==
    /\ process # "serving" => save.at = "none"
    /\ process = "serving" => ~cut
    /\ save.at # "none" =>
         /\ Below(save.value, counted)
         /\ Below(save.began, counted)
         /\ \A c \in save.read : save.began[c] <= save.value[c]
    /\ save.at = "truncated" => save.read = Counters

FileInv ==
    /\ process = "starting" => counted = Zero
    /\ ~cut /\ save.at # "truncated" => Below(kept, statsFile.value)

MarkerInv == marker = panicked

HealthInv ==
    HealthTypeOK /\ SaveInv /\ FileInv /\ MarkerInv /\ RestartTellsTheTruth

USE DEF Tally

-----------------------------------------------------------------------------
LEMMA ZeroType == Zero \in Tally /\ \A c \in Counters : Zero[c] = 0
BY HealthAssumption DEF Zero

(* No process has run.                                                     *)
LEMMA HealthInitInv == HealthInit => HealthInv
<1> SUFFICES ASSUME HealthInit PROVE HealthInv  OBVIOUS
<1>1. HealthTypeOK
  <2>1. statsFile \in [kind : {"absent", "empty"}, value : {Zero}]  BY DEF HealthInit
  <2>2. /\ save.at = "none" /\ save.read = {} /\ save.value = Zero /\ save.began = Zero
    BY DEF HealthInit, NoSave
  <2>3. /\ {marker, cut, panicked} \subseteq BOOLEAN
        /\ reported \in [told : BOOLEAN, due : BOOLEAN]
        /\ aborts \in Profiles
    BY DEF HealthInit
  <2>4. counted \in Tally /\ happened \in Tally /\ kept \in Tally  BY ZeroType DEF HealthInit
  <2> QED  BY <2>1, <2>2, <2>3, <2>4, ZeroType DEF HealthInit, HealthTypeOK
<1>2. SaveInv /\ FileInv /\ MarkerInv
  <2>1. SaveInv  BY DEF HealthInit, SaveInv, NoSave
  <2>2. Below(Zero, Zero)  BY ZeroType DEF Below
  <2>3. FileInv  BY <2>2 DEF HealthInit, FileInv
  <2> QED  BY <2>1, <2>3 DEF HealthInit, MarkerInv
<1>3. RestartTellsTheTruth
  BY ZeroType DEF HealthInit, RestartTellsTheTruth, NeverOvercounted, SavedCountsSurvive,
                  CrashIsReported
<1> QED  BY <1>1, <1>2, <1>3 DEF HealthInv

LEMMA CheckMarkerStep ==
    ASSUME HealthInv, CheckMarker
    PROVE  HealthInv'
<1>1. HealthTypeOK'  BY ZeroType DEF HealthInv, HealthTypeOK, MarkerInv, CheckMarker
<1>2. SaveInv' /\ FileInv' /\ MarkerInv'
  BY ZeroType DEF HealthInv, SaveInv, FileInv, MarkerInv, CheckMarker
<1>3. NeverOvercounted'
  BY ZeroType DEF HealthInv, HealthTypeOK, RestartTellsTheTruth, NeverOvercounted, CheckMarker
<1>4. SavedCountsSurvive' /\ CrashIsReported'
  BY DEF HealthInv, MarkerInv, SavedCountsSurvive, CrashIsReported, CheckMarker
<1> QED  BY <1>1, <1>2, <1>3, <1>4 DEF HealthInv, RestartTellsTheTruth

LEMMA RecordingStep ==
    ASSUME HealthInv, LoadAndServe
    PROVE  HealthInv'
<1>1. /\ process = "starting" /\ process' = "serving" /\ counted = Zero /\ save.at = "none"
      /\ kept' = (IF cut THEN counted' ELSE kept) /\ cut' = FALSE
      /\ UNCHANGED <<aborts, statsFile, save, marker, happened, panicked, reported>>
      /\ readiness' \in {"warming", "ready"}
  BY DEF HealthInv, SaveInv, FileInv, LoadAndServe
<1>2. statsFile.value \in Tally  BY ZeroType DEF HealthInv, HealthTypeOK
<1>3. counted' = statsFile.value
  BY <1>1, <1>2, ZeroType, HealthAssumption DEF LoadAndServe
<1>4. Below(kept', counted')
  BY <1>1, <1>2, <1>3, HealthAssumption DEF HealthInv, FileInv, Below
<1>5. HealthTypeOK'  BY <1>1, <1>2, <1>3 DEF HealthInv, HealthTypeOK
<1>6. SaveInv' /\ FileInv' /\ MarkerInv'
  BY <1>1, <1>3, <1>4 DEF HealthInv, SaveInv, FileInv, MarkerInv
<1>7. NeverOvercounted' /\ CrashIsReported'
  BY <1>1, <1>3 DEF HealthInv, RestartTellsTheTruth, NeverOvercounted, CrashIsReported
<1>8. SavedCountsSurvive'
  BY <1>4, <1>5, HealthAssumption DEF SavedCountsSurvive, Below, HealthTypeOK
<1> QED  BY <1>5, <1>6, <1>7, <1>8 DEF HealthInv, RestartTellsTheTruth

LEMMA CountStep ==
    ASSUME HealthInv, NEW c \in Counters, CountUp(c)
    PROVE  HealthInv'
<1>1. /\ process = "serving" /\ happened[c] < MaxCount
      /\ counted' = [counted EXCEPT ![c] = @ + 1]
      /\ happened' = [happened EXCEPT ![c] = @ + 1]
      /\ UNCHANGED <<aborts, process, statsFile, save, readiness, marker, kept, cut,
                     panicked, reported>>
  BY DEF CountUp
<1>2. counted \in Tally /\ happened \in Tally /\ kept \in Tally
      /\ save.value \in Tally /\ save.began \in Tally /\ statsFile.value \in Tally
  BY ZeroType DEF HealthInv, HealthTypeOK
<1>3. Below(counted, counted') /\ Below(happened, happened') /\ Below(counted', happened')
  BY <1>1, <1>2, HealthAssumption
  DEF HealthInv, RestartTellsTheTruth, NeverOvercounted, Below
<1>4. counted' \in Tally /\ happened' \in Tally
  <2>1. happened' \in Tally  BY <1>1, <1>2, HealthAssumption
  <2>2. counted' \in [Counters -> Nat]  BY <1>1, <1>2, HealthAssumption
  <2> QED  BY <2>1, <2>2, <1>3, HealthAssumption DEF Below
<1>5. HealthTypeOK'  BY <1>1, <1>4 DEF HealthInv, HealthTypeOK
<1>6. SaveInv'
  BY <1>1, <1>2, <1>3, <1>4, HealthAssumption DEF HealthInv, SaveInv, Below
<1>7. FileInv' /\ MarkerInv'
  BY <1>1 DEF HealthInv, FileInv, MarkerInv, Below
<1>8. RestartTellsTheTruth'
  BY <1>1, <1>2, <1>3, <1>4, HealthAssumption
  DEF HealthInv, RestartTellsTheTruth, NeverOvercounted, SavedCountsSurvive, CrashIsReported,
      Below
<1> QED  BY <1>5, <1>6, <1>7, <1>8 DEF HealthInv

(* A save runs beside the requests that count.                             *)
LEMMA SaveBeginsStep ==
    ASSUME HealthInv, SaveBegins
    PROVE  HealthInv'
<1>1. /\ process = "serving" /\ save.at = "none"
      /\ save' = [at |-> "reading", read |-> {}, value |-> Zero, began |-> counted]
      /\ UNCHANGED <<aborts, process, counted, readiness, marker, happened, panicked,
                     reported, statsFile, kept, cut>>
  BY DEF SaveBegins, NoSave, OnlySave
<1>2. counted \in Tally  BY DEF HealthInv, HealthTypeOK
<1>3. HealthTypeOK'  BY <1>1, <1>2, ZeroType DEF HealthInv, HealthTypeOK
<1>4. SaveInv' /\ FileInv'
  BY <1>1, <1>2, ZeroType, HealthAssumption DEF HealthInv, SaveInv, FileInv, Below
<1>5. MarkerInv' /\ RestartTellsTheTruth'
  BY <1>1 DEF HealthInv, MarkerInv, RestartTellsTheTruth, NeverOvercounted,
              SavedCountsSurvive, CrashIsReported
<1> QED  BY <1>3, <1>4, <1>5 DEF HealthInv

LEMMA SaveReadsStep ==
    ASSUME HealthInv, NEW c \in Counters, SaveReads(c)
    PROVE  HealthInv'
<1>1. /\ save.at = "reading"
      /\ save' = [save EXCEPT !.read = @ \cup {c}, !.value[c] = counted[c]]
      /\ UNCHANGED <<aborts, process, counted, readiness, marker, happened, panicked,
                     reported, statsFile, kept, cut>>
  BY DEF SaveReads, OnlySave
<1>2. counted \in Tally /\ save.value \in Tally /\ save.began \in Tally
      /\ save.read \subseteq Counters
  BY DEF HealthInv, HealthTypeOK
<1>3. /\ save'.at = save.at /\ save'.began = save.began
      /\ save'.read = save.read \cup {c}
      /\ save'.value = [save.value EXCEPT ![c] = counted[c]]
  BY <1>1
<1>4. save'.value \in Tally  BY <1>2, <1>3
<1>5. HealthTypeOK'  BY <1>1, <1>2, <1>3, <1>4 DEF HealthInv, HealthTypeOK
<1>6. SaveInv'
  BY <1>1, <1>2, <1>3, <1>4, HealthAssumption DEF HealthInv, SaveInv, Below
<1>7. FileInv' /\ MarkerInv' /\ RestartTellsTheTruth'
  BY <1>1, <1>3 DEF HealthInv, FileInv, MarkerInv, RestartTellsTheTruth, NeverOvercounted,
              SavedCountsSurvive, CrashIsReported
<1> QED  BY <1>5, <1>6, <1>7 DEF HealthInv

LEMMA SaveTruncatesStep ==
    ASSUME HealthInv, SaveTruncates
    PROVE  HealthInv'
<1>1. /\ save.at = "reading" /\ save.read = Counters
      /\ save' = [save EXCEPT !.at = "truncated"]
      /\ statsFile' = [kind |-> "empty", value |-> Zero]
      /\ UNCHANGED <<aborts, process, counted, readiness, marker, happened, panicked,
                     reported, kept, cut>>
  BY DEF SaveTruncates, OnlySave
<1>2. save' = [save EXCEPT !.at = "truncated"] /\ save'.at = "truncated"
      /\ save'.read = save.read /\ save'.value = save.value /\ save'.began = save.began
  <2>1. save.at \in {"none", "reading", "truncated"}  BY DEF HealthInv, HealthTypeOK
  <2> QED  BY <1>1, <2>1
<1>3. HealthTypeOK'  BY <1>1, <1>2, ZeroType DEF HealthInv, HealthTypeOK
<1>4. SaveInv' /\ FileInv' /\ MarkerInv'
  BY <1>1, <1>2 DEF HealthInv, SaveInv, FileInv, MarkerInv
<1>5. NeverOvercounted'
  BY <1>1, <1>3, ZeroType, HealthAssumption
  DEF HealthInv, HealthTypeOK, RestartTellsTheTruth, NeverOvercounted
<1>6. SavedCountsSurvive' /\ CrashIsReported'
  BY <1>1 DEF HealthInv, RestartTellsTheTruth, SavedCountsSurvive, CrashIsReported
<1> QED  BY <1>3, <1>4, <1>5, <1>6 DEF HealthInv, RestartTellsTheTruth

LEMMA SaveWritesStep ==
    ASSUME HealthInv, SaveWrites
    PROVE  HealthInv'
<1>1. /\ save.at = "truncated" /\ save.read = Counters
      /\ statsFile' = [kind |-> "whole", value |-> save.value]
      /\ kept' = save.began /\ save' = NoSave
      /\ UNCHANGED <<aborts, process, counted, readiness, marker, happened, panicked,
                     reported, cut>>
  BY DEF HealthInv, SaveInv, SaveWrites, OnlySave
<1>2. save.value \in Tally /\ save.began \in Tally /\ counted \in Tally /\ happened \in Tally
  BY DEF HealthInv, HealthTypeOK
<1>3. Below(save.began, save.value) /\ Below(save.value, counted) /\ Below(save.began, counted)
  BY <1>1 DEF HealthInv, SaveInv, Below
<1>4. HealthTypeOK'  BY <1>1, <1>2, ZeroType DEF HealthInv, HealthTypeOK, NoSave
<1>5. SaveInv' /\ FileInv' /\ MarkerInv'
  BY <1>1, <1>3 DEF HealthInv, SaveInv, FileInv, MarkerInv, NoSave
<1>6. RestartTellsTheTruth'
  BY <1>1, <1>2, <1>3, HealthAssumption
  DEF HealthInv, RestartTellsTheTruth, NeverOvercounted, SavedCountsSurvive, CrashIsReported,
      Below
<1> QED  BY <1>4, <1>5, <1>6 DEF HealthInv

(* However the process ends, the file is the last whole save or cut off.   *)
LEMMA EndStep ==
    ASSUME HealthInv, Ends, marker' = panicked', marker' \in BOOLEAN
    PROVE  HealthInv'
<1>1. /\ process' = "down" /\ cut' = (cut \/ save.at = "truncated") /\ save' = NoSave
      /\ UNCHANGED <<aborts, counted, statsFile, readiness, happened, kept, reported>>
  BY DEF Ends
<1>2. HealthTypeOK'
  BY <1>1, ZeroType DEF HealthInv, HealthTypeOK, NoSave
<1>3. SaveInv' /\ FileInv' /\ MarkerInv'
  BY <1>1 DEF HealthInv, SaveInv, FileInv, MarkerInv, NoSave
<1>4. RestartTellsTheTruth'
  BY <1>1 DEF HealthInv, RestartTellsTheTruth, NeverOvercounted, SavedCountsSurvive,
              CrashIsReported
<1> QED  BY <1>2, <1>3, <1>4 DEF HealthInv

LEMMA OtherStep ==
    ASSUME HealthInv, Warmed \/ Killed \/ InferencePanics \/ UNCHANGED healthVars
    PROVE  HealthInv'
<1>1. CASE Killed
  BY <1>1, EndStep DEF Killed, HealthInv, HealthTypeOK, MarkerInv
<1>2. CASE InferencePanics /\ aborts  BY <1>2, EndStep DEF InferencePanics
<1>3. CASE (InferencePanics /\ ~aborts) \/ Warmed \/ UNCHANGED healthVars
  <2>1. /\ UNCHANGED <<aborts, process, counted, statsFile, save, happened, kept, cut, reported>>
        /\ readiness' \in {"cold", "warming", "ready"}
        /\ marker' = panicked' /\ {marker', panicked'} \subseteq BOOLEAN
    BY <1>3 DEF HealthInv, HealthTypeOK, MarkerInv, InferencePanics, Warmed, healthVars
  <2>2. HealthTypeOK'  BY <2>1 DEF HealthInv, HealthTypeOK
  <2>3. SaveInv' /\ FileInv' /\ MarkerInv'
    BY <2>1 DEF HealthInv, SaveInv, FileInv, MarkerInv
  <2>4. RestartTellsTheTruth'
    BY <2>1 DEF HealthInv, RestartTellsTheTruth, NeverOvercounted, SavedCountsSurvive,
                CrashIsReported
  <2> QED  BY <2>2, <2>3, <2>4 DEF HealthInv
<1> QED  BY <1>1, <1>2, <1>3 DEF HealthInv, HealthTypeOK

(* Each step of the statistics keeps the invariant.                        *)
LEMMA HealthStepInv == HealthInv /\ [HealthNext]_healthVars => HealthInv'
BY CheckMarkerStep, RecordingStep, CountStep, SaveBeginsStep, SaveReadsStep, SaveTruncatesStep,
   SaveWritesStep, OtherStep DEF HealthNext

-----------------------------------------------------------------------------
(* What a process takes over from those before it is true: no count is     *)
(* invented, a whole save is not lost, and a panic is reported exactly     *)
(* when there was one.                                                     *)
THEOREM RestartIsTrue == HealthSpec => []RestartTellsTheTruth
<1>1. HealthInv => RestartTellsTheTruth  BY DEF HealthInv
<1> QED  BY HealthInitInv, HealthStepInv, <1>1, PTL DEF HealthSpec

-----------------------------------------------------------------------------
(***************************************************************************)
(* Proofs about Heartbeat, for any checks under way, any number of starts  *)
(* and any behaviour of the proxy.                                         *)
(*                                                                         *)
(* A stopped monitor can only be woken by a check that stop() left         *)
(* running: whatever else was under way is aborted, and what is aborted    *)
(* never succeeds.                                                         *)
(***************************************************************************)

Settled(c) == flight[c] \in {"free", "aborted"}

(* While the monitor is stopped, a check that is not an orphan is over or  *)
(* was aborted.                                                            *)
StopInv == ~timer => \A c \in Checks \ orphans : Settled(c)

BeatInv == BeatTypeOK /\ StopInv

-----------------------------------------------------------------------------
(* The monitor has not been started.                                       *)
LEMMA BeatInitInv == BeatInit => BeatInv
<1> SUFFICES ASSUME BeatInit PROVE BeatInv  OBVIOUS
<1>1. flight \in [Checks -> Flights]  BY DEF BeatInit, Flights
<1>2. BeatTypeOK
  <2>1. /\ timer \in BOOLEAN /\ proxy \in Conditions /\ orphans \subseteq Checks
        /\ activeReq \in Checks \cup {"none"} /\ lastHealth \in Answers \cup {"none"}
        /\ beat \in ProxyStates
    BY DEF BeatInit, ProxyStates
  <2>2. turns \in 0..MaxTurns /\ starts \in 0..MaxStarts /\ failures \in 0..MaxFailures
    BY BeatAssumption DEF BeatInit
  <2> QED  BY <1>1, <2>1, <2>2 DEF BeatTypeOK
<1>3. StopInv  BY DEF BeatInit, StopInv, Settled
<1> QED  BY <1>2, <1>3 DEF BeatInv

LEMMA FetchStep ==
    ASSUME BeatInv, StartBeat \/ TickBeat
    PROVE  BeatInv'
<1>1. timer'  BY DEF StartBeat, TickBeat
<1>2. PICK c \in Checks : flight' = [flight EXCEPT ![c] = "sent"] /\ activeReq' = c
  BY DEF StartBeat, TickBeat, Fetch
<1>3. flight' \in [Checks -> Flights] /\ activeReq' \in Checks \cup {"none"}
  BY <1>2 DEF BeatInv, BeatTypeOK, Flights
<1>4. BeatTypeOK'
  <2>1. CASE StartBeat
    <3>1. beat' \in ProxyStates /\ starts' \in 0..MaxStarts
      BY <2>1, BeatAssumption DEF StartBeat, ProxyStates, BeatInv, BeatTypeOK
    <3> QED  BY <1>1, <1>3, <2>1, <3>1 DEF StartBeat, OnlyBeat, BeatInv, BeatTypeOK
  <2>2. CASE TickBeat
    BY <1>3, <2>2 DEF TickBeat, OnlyBeat, BeatInv, BeatTypeOK
  <2> QED  BY <2>1, <2>2
<1> QED  BY <1>1, <1>4 DEF BeatInv, StopInv

LEMMA MonitorStopStep ==
    ASSUME BeatInv, StopBeat
    PROVE  BeatInv'
<1>1. flight' = [c \in Checks |->
                   IF c = activeReq /\ flight[c] # "free" THEN "aborted" ELSE flight[c]]
      /\ orphans' = {c \in Checks \ {activeReq} : flight[c] # "free"}
  BY DEF StopBeat
<1>2. flight' \in [Checks -> Flights]  BY <1>1 DEF BeatInv, BeatTypeOK, Flights
<1>3. BeatTypeOK'
  BY <1>1, <1>2 DEF BeatInv, BeatTypeOK, StopBeat, OnlyBeat, ProxyStates
<1>4. ASSUME NEW c \in Checks, c \notin orphans' PROVE Settled(c)'
  BY <1>1, <1>4 DEF Settled
<1> QED  BY <1>3, <1>4 DEF BeatInv, StopInv

(* An answer is on its way to a check that was sent, which while the       *)
(* monitor is stopped is an orphan.                                        *)
LEMMA AnswerStep ==
    ASSUME BeatInv, NEW c \in Checks, Answer(c)
    PROVE  BeatInv'
<1>1. PICK f \in Flights : flight' = [flight EXCEPT ![c] = f]
  <2>1. proxy \in Conditions  BY DEF BeatInv, BeatTypeOK
  <2>2. CASE proxy = "down"  BY <2>2 DEF Answer, Flights
  <2>3. CASE proxy = "warming"  BY <2>3 DEF Answer, Flights
  <2>4. CASE proxy \in Answers  BY <2>4 DEF Answer, Flights, Answers
  <2> QED  BY <2>1, <2>2, <2>3, <2>4 DEF Conditions
<1>2. flight[c] = "sent"
      /\ UNCHANGED <<beat, timer, activeReq, failures, lastHealth, starts, orphans>>
      /\ UNCHANGED <<proxy, turns>>
  BY DEF Answer, OnlyBeat
<1>3. BeatTypeOK'  BY <1>1, <1>2 DEF BeatInv, BeatTypeOK
<1>4. ASSUME ~timer', NEW d \in Checks, d \notin orphans' PROVE Settled(d)'
  <2>1. d # c  BY <1>2, <1>4 DEF BeatInv, StopInv, Settled
  <2> QED  BY <1>1, <1>2, <1>4, <2>1 DEF BeatInv, BeatTypeOK, StopInv, Settled
<1> QED  BY <1>3, <1>4 DEF BeatInv, StopInv

(* A check that comes to its end is free, and no orphan any longer.        *)
LEMMA CheckEnds ==
    ASSUME BeatInv, NEW c \in Checks, CutOff(c) \/ Succeed(c) \/ Fail(c)
    PROVE  BeatInv'
<1>1. /\ flight' = [flight EXCEPT ![c] = "free"]
      /\ orphans' = orphans \ {c}
      /\ UNCHANGED <<timer, starts, proxy, turns>>
  BY DEF CutOff, Succeed, Fail, OnlyBeat
<1>2. flight' \in [Checks -> Flights]
  BY <1>1 DEF BeatInv, BeatTypeOK, Flights
<1>3. beat' \in ProxyStates /\ activeReq' \in Checks \cup {"none"}
      /\ failures' \in 0..MaxFailures /\ lastHealth' \in Answers \cup {"none"}
  <2>1. CASE CutOff(c)  BY <2>1 DEF CutOff, BeatInv, BeatTypeOK
  <2>2. CASE Succeed(c)
    BY <2>2, BeatAssumption DEF Succeed, BeatInv, BeatTypeOK, ProxyStates, Answers
  <2>3. CASE Fail(c)
    BY <2>3, BeatAssumption DEF Fail, BeatInv, BeatTypeOK, ProxyStates
  <2> QED  BY <2>1, <2>2, <2>3
<1>4. BeatTypeOK'  BY <1>1, <1>2, <1>3 DEF BeatInv, BeatTypeOK
<1>5. ASSUME ~timer', NEW d \in Checks, d \notin orphans' PROVE Settled(d)'
  BY <1>1, <1>5 DEF BeatInv, BeatTypeOK, StopInv, Settled
<1> QED  BY <1>4, <1>5 DEF BeatInv, StopInv

LEMMA TurnStep ==
    ASSUME BeatInv, Turn \/ UNCHANGED beatVars
    PROVE  BeatInv'
<1>1. UNCHANGED <<beat, timer, activeReq, flight, failures, lastHealth, starts, orphans>>
  BY DEF Turn, beatVars
<1>2. BeatTypeOK'
  BY <1>1, BeatAssumption DEF BeatInv, BeatTypeOK, Turn, beatVars
<1> QED  BY <1>1, <1>2 DEF BeatInv, StopInv, Settled

(* Each step of the monitor keeps the invariant.                           *)
LEMMA BeatStepInv == BeatInv /\ [BeatNext]_beatVars => BeatInv'
BY FetchStep, MonitorStopStep, AnswerStep, CheckEnds, TurnStep DEF BeatNext

(* What lets a stopped monitor leave the disabled state.                   *)
Woken ==
    ~timer /\ ~timer' /\ beat = "disabled" /\ beat' # "disabled"
      => \E c \in orphans : flight[c] # "free" /\ flight'[c] = "free"

LEMMA OnlyOrphansWake == BeatInv /\ [BeatNext]_beatVars => [Woken]_beatVars
<1> SUFFICES ASSUME BeatInv, BeatNext, ~timer, ~timer', beat = "disabled", beat' # "disabled"
             PROVE  \E c \in orphans : flight[c] # "free" /\ flight'[c] = "free"
  BY DEF Woken
<1>1. PICK c \in Checks : Succeed(c)
  BY DEF BeatNext, StartBeat, TickBeat, StopBeat, Turn, Answer, CutOff, Fail
<1>2. flight[c] \in Answers /\ flight' = [flight EXCEPT ![c] = "free"]  BY <1>1 DEF Succeed
<1>3. c \in orphans  BY <1>2 DEF BeatInv, StopInv, Settled, Answers
<1>4. flight[c] # "free" /\ flight'[c] = "free"
  BY <1>2 DEF Answers, BeatInv, BeatTypeOK
<1> QED  BY <1>3, <1>4

(* A monitor that is stopped stays disabled, except for a late success of  *)
(* a check that stop() had no handle to: nothing else wakes it, whatever   *)
(* checks overlap and however often it was started before.                 *)
THEOREM StoppedMonitorSleeps == BeatSpec => StoppedStaysDisabled
BY BeatInitInv, BeatStepInv, OnlyOrphansWake, PTL
   DEF BeatSpec, StoppedStaysDisabled, Woken

-----------------------------------------------------------------------------
(***************************************************************************)
(* Proofs about Startup, for every amount of memory, every size of pool,   *)
(* every setting and every state of the disk, in both hosts.               *)
(***************************************************************************)

(* What a start has settled when it has come so far.                       *)
SettingsInv ==
    /\ embedded \in BOOLEAN
    /\ disk \in [Dirs -> {"absent", "broken", "good"}]
    /\ settings.pool \in Nat
    /\ starting \notin {"new", "refused"} => Valid

Passed(s) == starting \in s

CrfPassedOver == CrfAllowed => disk["crf"] # "good"
NerPassedOver == NerAllowed => ~NerLoads
NerServes     == NerAllowed /\ (settings.nerEnabled => NerLoads)
CrfServes     == CrfAllowed /\ disk["crf"] = "good" /\ NerPassedOver

ProgressInv ==
    /\ Passed({"new", "profiled", "ner", "crf"}) => backend = "none"
    /\ Passed({"ner"}) => NerAllowed
    /\ Passed({"crf"}) => CrfAllowed /\ NerPassedOver
    /\ Passed({"scanner", "serving"}) =>
         /\ backend = "none" => NerPassedOver /\ CrfPassedOver
         /\ backend = "ner" => NerServes
         /\ backend = "crf" => CrfServes
    /\ backend = "ner" /\ settings.nerEnabled => sessions >= 1

StartInv == SettingsInv /\ ProgressInv /\ backend \in {"none", "ner", "crf"}

-----------------------------------------------------------------------------
(* Nothing is settled.                                                     *)
LEMMA StartInitInv == StartInit => StartInv
BY MemoryAssumption DEF StartInit, Settings, StartInv, SettingsInv, ProgressInv, Passed

(* An enabled NER asks for at least one session.                           *)
LEMMA WantedIsPositive ==
    ASSUME SettingsInv, starting = "ner", settings.nerEnabled
    PROVE  Wanted \in Nat /\ Wanted >= 1
<1>1. CASE embedded
  <2>1. (Wanted = settings.pool /\ settings.pool > 0) \/ Wanted = 1  BY <1>1 DEF Wanted
  <2> QED  BY <2>1 DEF SettingsInv
<1>2. CASE ~embedded
  <2>1. Wanted = settings.pool /\ settings.pool \in 1..32
    BY <1>2 DEF SettingsInv, Valid, Wanted
  <2> QED  BY <2>1
<1> QED  BY <1>1, <1>2

(* What the later steps look at is settled by then.                        *)
LEMMA SettingsSettled ==
    ASSUME Fixed, UNCHANGED budget
    PROVE  /\ Automatic' = Automatic /\ NerDir' = NerDir /\ NerLoads' = NerLoads /\ Valid' = Valid
           /\ CrfPassedOver' = CrfPassedOver /\ NerPassedOver' = NerPassedOver
           /\ CrfAllowed' = CrfAllowed /\ NerAllowed' = NerAllowed
           /\ CrfServes' = CrfServes /\ NerServes' = NerServes
BY DEF Fixed, Automatic, NerDir, NerModel, NerLoads, Valid, CrfPassedOver, NerPassedOver,
       CrfAllowed, NerAllowed, CrfServes, NerServes

(* What the one directory that is tried says of all that could be: sound   *)
(* models load, and what loads is one of them.                             *)
LEMMA DirIsRepresentative ==
    ASSUME SettingsInv
    PROVE  /\ NerIsSound => NerLoads
           /\ NerLoads => \E d \in NerDirs : disk[d] = "good"
BY DEF SettingsInv, NerIsSound, NerLoads, NerDirs, NerDir, Dirs, Models

LEMMA ProfileStep == StartInv /\ Profile => StartInv'
BY DEF StartInv, SettingsInv, ProgressInv, Passed, Profile, Fixed, Valid

LEMMA ChooseStep ==
    ASSUME StartInv, Choose
    PROVE  StartInv'
<1>1. Fixed /\ UNCHANGED <<budget, backend, sessions, running>> /\ backend = "none"
  BY DEF Choose, StartInv, ProgressInv, Passed
<1>2. \/ NerAllowed /\ starting' = "ner"
      \/ ~NerAllowed /\ CrfAllowed /\ starting' = "crf"
      \/ ~NerAllowed /\ ~CrfAllowed /\ starting' = "scanner"
  BY DEF Choose
<1>3. SettingsInv'  BY <1>1, <1>2, SettingsSettled DEF StartInv, SettingsInv, Choose, Fixed
<1>4. CASE NerAllowed /\ starting' = "ner"
  BY <1>1, <1>3, <1>4, SettingsSettled DEF StartInv, ProgressInv, Passed
<1>5. CASE ~NerAllowed /\ CrfAllowed /\ starting' = "crf"
  <2>1. NerPassedOver'  BY <1>1, <1>5, SettingsSettled, Zenon DEF NerPassedOver
  <2> QED  BY <1>1, <1>3, <1>5, <2>1, SettingsSettled DEF StartInv, ProgressInv, Passed
<1>6. CASE ~NerAllowed /\ ~CrfAllowed /\ starting' = "scanner"
  <2>1. NerPassedOver' /\ CrfPassedOver'
    BY <1>1, <1>6, SettingsSettled, Zenon DEF NerPassedOver, CrfPassedOver
  <2> QED  BY <1>1, <1>3, <1>6, <2>1 DEF StartInv, ProgressInv, Passed
<1> QED  BY <1>2, <1>4, <1>5, <1>6

LEMMA LoadNerStep ==
    ASSUME StartInv, LoadNer
    PROVE  StartInv'
<1>1. Fixed /\ UNCHANGED <<budget, running>> /\ starting = "ner" /\ backend = "none"
      /\ NerAllowed
  BY DEF LoadNer, StartInv, ProgressInv, Passed
<1>2. starting' \in {"scanner", "crf"}  BY DEF LoadNer
<1>3. SettingsInv'  BY <1>1, <1>2, SettingsSettled DEF StartInv, SettingsInv, Fixed
<1>4. CASE /\ backend' = "ner" /\ starting' = "scanner"
           /\ (NerLoads /\ sessions' \in 1..Wanted) \/ Wanted = 0
  <2>1. settings.nerEnabled => sessions' >= 1 /\ NerLoads
    BY <1>1, <1>4, WantedIsPositive DEF StartInv
  <2>2. settings' = settings  BY <1>1 DEF Fixed
  <2>3. NerServes'  BY <1>1, <2>1, SettingsSettled DEF NerServes
  <2> QED  BY <1>3, <1>4, <2>1, <2>2, <2>3 DEF StartInv, ProgressInv, Passed
<1>5. CASE /\ ~NerLoads
           /\ starting' = (IF Automatic /\ budget.crf THEN "crf" ELSE "scanner")
           /\ UNCHANGED <<sessions, backend>>
  <2>1. NerPassedOver'  BY <1>1, <1>5, SettingsSettled DEF NerPassedOver
  <2>2. starting' = "scanner" => CrfPassedOver'
    BY <1>1, <1>5, SettingsSettled DEF CrfPassedOver, CrfAllowed, NerAllowed, Automatic
  <2>3. starting' = "crf" => CrfAllowed'
    BY <1>1, <1>5, SettingsSettled DEF CrfAllowed
  <2> QED  BY <1>1, <1>2, <1>3, <1>5, <2>1, <2>2, <2>3 DEF StartInv, ProgressInv, Passed
<1>6. \/ /\ (NerLoads /\ sessions' \in 1..Wanted) \/ Wanted = 0
         /\ backend' = "ner" /\ starting' = "scanner"
      \/ /\ ~NerLoads
         /\ starting' = IF Automatic /\ budget.crf THEN "crf" ELSE "scanner"
         /\ UNCHANGED <<sessions, backend>>
  BY DEF LoadNer
<1> QED  BY <1>4, <1>5, <1>6

LEMMA LoadCrfStep ==
    ASSUME StartInv, LoadCrf
    PROVE  StartInv'
<1>1. Fixed /\ UNCHANGED <<budget, sessions, running>> /\ starting = "crf"
      /\ starting' = "scanner"
      /\ backend' = (IF disk["crf"] = "good" THEN "crf" ELSE "none")
  BY DEF LoadCrf
<1>2. SettingsInv'  BY <1>1, SettingsSettled DEF StartInv, SettingsInv, Fixed
<1>3. NerPassedOver'  BY <1>1, SettingsSettled DEF StartInv, ProgressInv, Passed
<1>4. /\ backend' = "none" => CrfPassedOver'
      /\ backend' = "crf" => CrfServes'
  BY <1>1, <1>3, SettingsSettled DEF CrfPassedOver, CrfServes, Fixed, StartInv, ProgressInv, Passed
<1> QED  BY <1>1, <1>2, <1>3, <1>4 DEF StartInv, ProgressInv, Passed

LEMMA StartServeStep ==
    ASSUME StartInv, Serve
    PROVE  StartInv'
<1>1. Fixed /\ UNCHANGED <<budget, backend, sessions>> /\ starting = "scanner"
      /\ starting' = "serving"
  BY DEF Serve
<1>2. SettingsInv'  BY <1>1, SettingsSettled DEF StartInv, SettingsInv, Fixed
<1>3. settings' = settings  BY <1>1 DEF Fixed
<1> QED  BY <1>1, <1>2, <1>3, SettingsSettled DEF StartInv, ProgressInv, Passed

(* Each step of a start keeps the invariant.                               *)
LEMMA StartStepInv == StartInv /\ [StartNext]_startVars => StartInv'
<1> SUFFICES ASSUME StartInv, [StartNext]_startVars PROVE StartInv'  OBVIOUS
<1>1. CASE UNCHANGED startVars
  <2>1. Fixed /\ UNCHANGED budget  BY <1>1 DEF startVars, Fixed
  <2> QED
    BY <1>1, <2>1, SettingsSettled DEF startVars, StartInv, SettingsInv, ProgressInv, Passed
<1> QED
  BY <1>1, ProfileStep, ChooseStep, LoadNerStep, LoadCrfStep, StartServeStep DEF StartNext

-----------------------------------------------------------------------------
(* A process serves with the strongest backend that mode and budget allow, *)
(* as far as no broken NER model hides a good one, with no backend they do *)
(* not allow, and never with an empty NER pool while NER is enabled.       *)
THEOREM BestBackendServes == StartSpec => []BackendServes
<1>1. StartInv => BackendServes
  <2> SUFFICES ASSUME StartInv PROVE BackendServes  OBVIOUS
  <2>1. /\ NerIsSound => NerLoads
        /\ NerLoads => \E d \in NerDirs : disk[d] = "good"
    BY DirIsRepresentative DEF StartInv
  <2>2. StrongestServes
    BY <2>1 DEF StartInv, ProgressInv, Passed, StrongestServes, NerPassedOver, CrfPassedOver,
                NerServes, CrfServes
  <2>3. PoolCanServe  BY DEF StartInv, ProgressInv, PoolCanServe
  <2> QED  BY <2>2, <2>3 DEF BackendServes
<1> QED  BY StartInitInv, StartStepInv, <1>1, PTL DEF StartSpec

-----------------------------------------------------------------------------
(***************************************************************************)
(* Proofs about ImageModels, for any images, configurations, idle timeout, *)
(* number of tiles and outputs of the classifier.                          *)
(*                                                                         *)
(* An eviction touches slots only, and an image works with its clone: the  *)
(* clone it holds is always of the model its phase is about, so what ends  *)
(* a phase is a result, a failed load or a failed inference.  Text is read *)
(* last, so what a doubtful reading fills is all that was found.           *)
(***************************************************************************)

Phases == SlotNames \cup {"waiting", "done"}

(* An image holds the clone its phase needs, or none.                      *)
CloneInv == \A i \in Images : clone[i] \in {"none", phase[i]}

(* Nothing is read before the last phase ends, and text read with doubt is *)
(* filled.                                                                 *)
ReadingInv ==
    \A i \in Images :
        /\ phase[i] # "done" => record[i].readings = "none"
        /\ record[i].readings = "doubtful" /\ "text" \in record[i].found
             => "text" \in record[i].filled

ImageInv == ImageTypeOK /\ CloneInv /\ ReadingInv

-----------------------------------------------------------------------------
(* The six models of the pipeline.                                         *)
LEMMA SlotNamesAre ==
    SlotNames = {"nsfw", "blazeface", "scrfd", "ultralight", "detector", "recognizer"}
<1>1. DOMAIN Slots = 1..6 /\ Len(Slots) = 6  BY DEF Slots
<1>2. \A x : x \in SlotNames <=>
        x \in {Slots[1], Slots[2], Slots[3], Slots[4], Slots[5], Slots[6]}
  <2>1. \A i : i \in 1..6 <=> i \in {1, 2, 3, 4, 5, 6}  OBVIOUS
  <2> QED  BY <1>1, <2>1 DEF SlotNames
<1> QED  BY <1>2 DEF Slots

(* Every choice of the next phase is a phase of a model, or the end.       *)
LEMMA NextPhases ==
    ASSUME imageConfig \in ImageConfigs
    PROVE  /\ TextPhase \subseteq SlotNames \cup {"done"}
           /\ FacePhase \subseteq SlotNames \cup {"done"}
           /\ FirstPhase \subseteq SlotNames \cup {"done"}
           /\ \A s \in SlotNames : /\ PhaseAfter(s) \subseteq SlotNames \cup {"done"}
                                   /\ Instead(s) \subseteq SlotNames \cup {"done"}
<1>1. imageConfig.face \in {"scrfd", "ultralight", "blazeface", "off"}
  BY ImageAssumption
<1>2. TextPhase \subseteq SlotNames \cup {"done"}  BY SlotNamesAre DEF TextPhase
<1>3. FacePhase \subseteq SlotNames \cup {"done"}
  <2>1. CASE imageConfig.face = "off"  BY <2>1, <1>2 DEF FacePhase
  <2>2. CASE imageConfig.face # "off" /\ ~imageConfig.dir
    BY <2>2, SlotNamesAre DEF FacePhase
  <2>3. CASE imageConfig.face # "off" /\ imageConfig.dir
    BY <2>3, <1>1, SlotNamesAre DEF FacePhase
  <2> QED  BY <2>1, <2>2, <2>3
<1>4. FirstPhase \subseteq SlotNames \cup {"done"}  BY <1>3, SlotNamesAre DEF FirstPhase
<1>5. ASSUME NEW s \in SlotNames
      PROVE  PhaseAfter(s) \subseteq SlotNames \cup {"done"}
  BY <1>2, <1>3, SlotNamesAre DEF PhaseAfter
<1>6. ASSUME NEW s \in SlotNames
      PROVE  Instead(s) \subseteq SlotNames \cup {"done"}
  BY <1>5, SlotNamesAre DEF Instead
<1> QED  BY <1>2, <1>3, <1>4, <1>5, <1>6

(* A phase that ends, or BlazeFace that looks once more: the image has a   *)
(* phase of a model or is done, and no other image is touched.             *)
OnlyTile(i) ==
    /\ tile' \in [Images -> 0..Tiles]
    /\ \A j \in Images \ {i} : tile'[j] = tile[j]

Moved(i) ==
    /\ \E p \in SlotNames \cup {"done"} : phase' = [phase EXCEPT ![i] = p]
    /\ OnlyTile(i)

Stays(i) == UNCHANGED phase /\ OnlyTile(i)

LEMMA LookMoves ==
    ASSUME ImageTypeOK, NEW i \in Images, NEW large, NextLook(i, large)
    PROVE  Moved(i) \/ Stays(i)
<1>1. CASE tile[i] < Tiles /\ (tile[i] > 0 \/ large)
  <2>1. tile' = [tile EXCEPT ![i] = @ + 1] /\ UNCHANGED phase  BY <1>1 DEF NextLook
  <2>2. tile \in [Images -> 0..Tiles] /\ tile[i] + 1 \in 0..Tiles
    BY <1>1, ImageAssumption DEF ImageTypeOK
  <2> QED  BY <2>1, <2>2 DEF Stays, OnlyTile
<1>2. CASE ~(tile[i] < Tiles /\ (tile[i] > 0 \/ large))
  <2>1. \E p \in TextPhase : phase' = [phase EXCEPT ![i] = p]  BY <1>2 DEF NextLook
  <2>2. tile' = [tile EXCEPT ![i] = 0]  BY <1>2 DEF NextLook
  <2>3. OnlyTile(i)  BY <2>2, ImageAssumption DEF OnlyTile, ImageTypeOK
  <2> QED  BY <2>1, <2>3, NextPhases DEF Moved, ImageTypeOK
<1> QED  BY <1>1, <1>2

LEMMA ProceedMoves ==
    ASSUME ImageTypeOK, NEW i \in Images, NEW s, NEW next, NEW large,
           next \subseteq SlotNames \cup {"done"}, Proceed(i, s, next, large)
    PROVE  Moved(i) \/ Stays(i)
<1>1. CASE s = "blazeface"  BY <1>1, LookMoves DEF Proceed
<1>2. CASE s # "blazeface"  BY <1>2 DEF Proceed, Moved, OnlyTile, ImageTypeOK
<1> QED  BY <1>1, <1>2

-----------------------------------------------------------------------------
(* No image has begun.                                                     *)
LEMMA ImageInitInv == ImageInit => ImageInv
<1> SUFFICES ASSUME ImageInit PROVE ImageInv  OBVIOUS
<1>1. Len(Slots) = 6  BY DEF Slots
<1>2. ImageTypeOK
  BY <1>1, ImageAssumption, SlotNamesAre DEF ImageInit, ImageTypeOK, NoEviction, Blank
<1>3. CloneInv  BY DEF ImageInit, CloneInv
<1>4. ReadingInv  BY DEF ImageInit, ReadingInv, Blank
<1> QED  BY <1>2, <1>3, <1>4 DEF ImageInv

Notes == [failed : SUBSET SlotNames,
          filled : SUBSET {"image", "faces", "text"},
          found : SUBSET {"nsfw", "faces", "text"},
          readings : {"none", "sure", "doubtful"}]

(* What a step may write down of an image: readings only at the end, and   *)
(* what is doubtful with the fill.                                         *)
Noted(i) ==
    \E r \in Notes :
        /\ record' = [record EXCEPT ![i] = r]
        /\ r.readings # "none" => phase'[i] = "done"
        /\ r.readings = "doubtful" /\ "text" \in r.found => "text" \in r.filled

(* A step that ends the work with a model keeps the invariant.             *)
LEMMA WorkDone ==
    ASSUME ImageInv, NEW i \in Images, UNCHANGED <<imageConfig, idle, evictor>>,
           slot' \in [SlotNames -> BOOLEAN], Drop(i), phase[i] # "done",
           Moved(i) \/ Stays(i), Noted(i)
    PROVE  ImageInv'
<1>1. PICK r \in Notes :
        /\ record' = [record EXCEPT ![i] = r]
        /\ r.readings # "none" => phase'[i] = "done"
        /\ r.readings = "doubtful" /\ "text" \in r.found => "text" \in r.filled
  BY DEF Noted
<1>2. /\ phase' \in [Images -> SlotNames \cup {"waiting", "done"}]
      /\ tile' \in [Images -> 0..Tiles]
      /\ \A j \in Images \ {i} : phase'[j] = phase[j]
  <2>1. CASE Stays(i)  BY <2>1 DEF Stays, OnlyTile, ImageInv, ImageTypeOK
  <2>2. CASE Moved(i)
    <3>1. PICK p \in SlotNames \cup {"done"} : phase' = [phase EXCEPT ![i] = p]
      BY <2>2 DEF Moved
    <3>2. phase \in [Images -> SlotNames \cup {"waiting", "done"}]
      BY DEF ImageInv, ImageTypeOK
    <3> QED  BY <2>2, <3>1, <3>2 DEF Moved, OnlyTile
  <2> QED  BY <2>1, <2>2
<1>3. ImageTypeOK'
  <2>1. clone' \in [Images -> SlotNames \cup {"none"}]
    BY DEF ImageInv, ImageTypeOK, Drop
  <2>2. record' \in [Images -> Notes]  BY <1>1 DEF ImageInv, ImageTypeOK, Notes
  <2> QED  BY <1>2, <2>1, <2>2 DEF ImageInv, ImageTypeOK, Notes
<1>4. CloneInv'
  <2> SUFFICES ASSUME NEW j \in Images PROVE clone'[j] \in {"none", phase'[j]}
    BY DEF CloneInv
  <2>1. CASE j = i  BY <2>1 DEF ImageInv, ImageTypeOK, Drop
  <2>2. CASE j # i
    <3>1. clone'[j] = clone[j]  BY <2>2 DEF ImageInv, ImageTypeOK, Drop
    <3> QED  BY <2>2, <3>1, <1>2 DEF ImageInv, CloneInv
  <2> QED  BY <2>1, <2>2
<1>5. ReadingInv'
  <2> SUFFICES ASSUME NEW j \in Images
               PROVE  /\ phase'[j] # "done" => record'[j].readings = "none"
                      /\ record'[j].readings = "doubtful" /\ "text" \in record'[j].found
                           => "text" \in record'[j].filled
    BY DEF ReadingInv
  <2>1. CASE j = i
    <3>1. record'[i] = r  BY <1>1 DEF ImageInv, ImageTypeOK
    <3> QED  BY <2>1, <3>1, <1>1
  <2>2. CASE j # i
    <3>1. record'[j] = record[j]  BY <2>2, <1>1 DEF ImageInv, ImageTypeOK
    <3> QED  BY <2>2, <3>1, <1>2 DEF ImageInv, ReadingInv
  <2> QED  BY <2>1, <2>2
<1> QED  BY <1>3, <1>4, <1>5 DEF ImageInv

-----------------------------------------------------------------------------
LEMMA BeginStep ==
    ASSUME ImageInv, NEW i \in Images, Begin(i)
    PROVE  ImageInv'
<1>1. PICK p \in SlotNames \cup {"done"} : phase' = [phase EXCEPT ![i] = p]
  BY NextPhases DEF Begin, ImageInv, ImageTypeOK
<1>2. UNCHANGED <<imageConfig, slot, evictor, clone, tile, record>> /\ idle' = 0
      /\ phase[i] = "waiting"
  BY DEF Begin
<1>3. ImageTypeOK'  BY <1>1, <1>2, ImageAssumption DEF ImageInv, ImageTypeOK
<1>4. clone[i] = "none"
  BY <1>2, SlotNamesAre DEF ImageInv, ImageTypeOK, CloneInv
<1>5. CloneInv'  BY <1>1, <1>2, <1>4 DEF ImageInv, ImageTypeOK, CloneInv
<1>6. ReadingInv'  BY <1>1, <1>2 DEF ImageInv, ImageTypeOK, ReadingInv
<1> QED  BY <1>3, <1>5, <1>6 DEF ImageInv

LEMMA TakeClone ==
    ASSUME ImageInv, NEW i \in Images, NEW s \in SlotNames, phase[i] = s,
           slot' = [slot EXCEPT ![s] = TRUE], clone' = [clone EXCEPT ![i] = s],
           UNCHANGED <<imageConfig, idle, evictor, phase, tile, record>>
    PROVE  ImageInv' /\ (Moved(i) \/ Stays(i))
<1>1. ImageTypeOK'  BY DEF ImageInv, ImageTypeOK
<1>2. CloneInv'  BY DEF ImageInv, ImageTypeOK, CloneInv
<1>3. ReadingInv'  BY DEF ImageInv, ReadingInv
<1>4. Stays(i)  BY DEF Stays, OnlyTile, ImageInv, ImageTypeOK
<1> QED  BY <1>1, <1>2, <1>3, <1>4 DEF ImageInv

(* A failure adds to the failures of an image that is not done.            *)
LEMMA FailureNoted ==
    ASSUME ImageInv, NEW i \in Images, NEW s \in SlotNames, phase[i] # "done",
           record' = [record EXCEPT ![i].failed = @ \cup {s}]
    PROVE  Noted(i) /\ s \in record'[i].failed
<1> DEFINE r == [record[i] EXCEPT !.failed = @ \cup {s}]
<1>1. record[i] \in Notes  BY DEF ImageInv, ImageTypeOK, Notes
<1>2. r \in Notes  BY <1>1 DEF Notes
<1>3. record' = [record EXCEPT ![i] = r]  OBVIOUS
<1>4. record[i].readings = "none"  BY DEF ImageInv, ReadingInv
<1>5. r.readings = "none" /\ s \in r.failed  BY <1>1, <1>4 DEF Notes
<1>6. record'[i] = r  BY <1>3 DEF ImageInv, ImageTypeOK
<1> HIDE DEF r
<1> QED  BY <1>2, <1>3, <1>5, <1>6 DEF Noted

LEMMA LoadFails ==
    ASSUME ImageInv, NEW i \in Images, NEW s \in SlotNames, NEW large,
           phase[i] = s, clone[i] = "none",
           record' = [record EXCEPT ![i].failed = @ \cup {s}],
           Proceed(i, s, Instead(s), large),
           UNCHANGED <<imageConfig, idle, evictor, slot, clone>>
    PROVE  ImageInv' /\ (Moved(i) \/ Stays(i))
<1>1. phase[i] # "done"  BY SlotNamesAre
<1>2. Moved(i) \/ Stays(i)  BY ProceedMoves, NextPhases DEF ImageInv, ImageTypeOK
<1>3. Drop(i)  BY DEF Drop, ImageInv, ImageTypeOK
<1>4. Noted(i)  BY <1>1, FailureNoted
<1>5. slot' \in [SlotNames -> BOOLEAN]  BY DEF ImageInv, ImageTypeOK
<1> QED  BY <1>1, <1>2, <1>3, <1>4, <1>5, WorkDone

LEMMA GetModelStep ==
    ASSUME ImageInv, NEW i \in Images, NEW s \in SlotNames, GetModel(i, s)
    PROVE  ImageInv' /\ (Moved(i) \/ Stays(i))
<1>1. phase[i] = s /\ clone[i] = "none" /\ UNCHANGED <<imageConfig, idle, evictor>>
  BY DEF GetModel
<1>2. CASE /\ slot' = [slot EXCEPT ![s] = TRUE]
           /\ clone' = [clone EXCEPT ![i] = s]
           /\ UNCHANGED <<record, phase, tile>>
  BY <1>1, <1>2, TakeClone
<1>3. CASE /\ record' = [record EXCEPT ![i].failed = @ \cup {s}]
           /\ \E large \in BOOLEAN : Proceed(i, s, Instead(s), large)
           /\ UNCHANGED <<slot, clone>>
  BY <1>1, <1>3, LoadFails
<1> QED  BY <1>2, <1>3 DEF GetModel

(* An image that holds a clone is in the phase of that model.              *)
LEMMA HoldingClone ==
    ASSUME ImageInv, NEW i \in Images, clone[i] # "none"
    PROVE  clone[i] \in SlotNames /\ phase[i] = clone[i] /\ phase[i] # "done"
BY SlotNamesAre DEF ImageInv, ImageTypeOK, CloneInv

LEMMA RunFailsStep ==
    ASSUME ImageInv, NEW i \in Images, RunFails(i)
    PROVE  ImageInv' /\ (Moved(i) \/ Stays(i))
<1> DEFINE s == clone[i]
<1>1. s \in SlotNames /\ phase[i] # "done"  BY HoldingClone DEF RunFails
<1>2. /\ record' = [record EXCEPT ![i].failed = @ \cup {s}]
      /\ Drop(i) /\ OnlyImage
      /\ \E large \in BOOLEAN : Proceed(i, s, PhaseAfter(s), large)
  BY DEF RunFails
<1> HIDE DEF s
<1>3. Moved(i) \/ Stays(i)
  BY <1>1, <1>2, ProceedMoves, NextPhases DEF ImageInv, ImageTypeOK
<1>4. Noted(i)  BY <1>1, <1>2, FailureNoted
<1>5. slot' \in [SlotNames -> BOOLEAN]  BY <1>2 DEF OnlyImage, ImageInv, ImageTypeOK
<1> QED  BY <1>1, <1>2, <1>3, <1>4, <1>5, WorkDone DEF OnlyImage

(* Findings of an image that is not done yet, and so was not read.         *)
LEMMA FindingNoted ==
    ASSUME ImageInv, NEW i \in Images, phase[i] # "done",
           NEW seen \in SUBSET {"nsfw", "faces", "text"},
           NEW filled \in SUBSET {"image", "faces", "text"},
           record' = [record EXCEPT ![i] = [@ EXCEPT !.found = seen, !.filled = filled]]
    PROVE  Noted(i)
<1> DEFINE r == [record[i] EXCEPT !.found = seen, !.filled = filled]
<1>1. record[i] \in Notes /\ record[i].readings = "none"
  BY DEF ImageInv, ImageTypeOK, ReadingInv, Notes
<1>2. r \in Notes /\ r.readings = "none"  BY <1>1 DEF Notes
<1>3. record' = [record EXCEPT ![i] = r]  OBVIOUS
<1> HIDE DEF r
<1> QED  BY <1>2, <1>3 DEF Noted

(* The record of an image stays as it is.                                  *)
LEMMA NothingNoted ==
    ASSUME ImageInv, NEW i \in Images, phase[i] # "done", UNCHANGED record
    PROVE  Noted(i)
<1>1. record[i] \in Notes /\ record[i].readings = "none"
  BY DEF ImageInv, ImageTypeOK, ReadingInv, Notes
<1>2. record' = [record EXCEPT ![i] = record[i]]  BY DEF ImageInv, ImageTypeOK
<1> QED  BY <1>1, <1>2 DEF Noted

LEMMA SlotStays ==
    ASSUME ImageInv, OnlyImage
    PROVE  slot' \in [SlotNames -> BOOLEAN] /\ UNCHANGED <<imageConfig, idle, evictor>>
BY DEF OnlyImage, ImageInv, ImageTypeOK

LEMMA ClassifyStep ==
    ASSUME ImageInv, NEW i \in Images, Classify(i)
    PROVE  ImageInv' /\ (Moved(i) \/ Stays(i))
<1>1. Drop(i) /\ OnlyImage /\ UNCHANGED tile /\ clone[i] = "nsfw"  BY DEF Classify
<1>2. phase[i] # "done"  BY <1>1, HoldingClone
<1>3. record[i] \in Notes  BY DEF ImageInv, ImageTypeOK, Notes
<1>4. OnlyTile(i)  BY <1>1 DEF OnlyTile, ImageInv, ImageTypeOK
<1>5. CASE /\ record' = [record EXCEPT ![i].found = @ \cup {"nsfw"}, ![i].filled = {"image"}]
           /\ phase' = [phase EXCEPT ![i] = "done"]
  <2>1. record' = [record EXCEPT ![i] = [@ EXCEPT !.found = record[i].found \cup {"nsfw"},
                                                  !.filled = {"image"}]]
    BY <1>5
  <2>2. /\ record[i].found \cup {"nsfw"} \in SUBSET {"nsfw", "faces", "text"}
        /\ {"image"} \in SUBSET {"image", "faces", "text"}
    BY <1>3 DEF Notes
  <2>3. Noted(i)  BY <1>2, <2>1, <2>2, FindingNoted
  <2>4. Moved(i)  BY <1>4, <1>5 DEF Moved
  <2> QED  BY <1>1, <1>2, <2>3, <2>4, SlotStays, WorkDone
<1>6. CASE /\ \E q \in FacePhase : phase' = [phase EXCEPT ![i] = q]
           /\ UNCHANGED record
  <2>1. Moved(i)  BY <1>4, <1>6, NextPhases DEF Moved, OnlyTile, ImageInv, ImageTypeOK
  <2>2. Noted(i)  BY <1>2, <1>6, NothingNoted
  <2> QED  BY <1>1, <1>2, <2>1, <2>2, SlotStays, WorkDone
<1> QED  BY <1>5, <1>6 DEF Classify

LEMMA DetectFacesStep ==
    ASSUME ImageInv, NEW i \in Images, DetectFaces(i)
    PROVE  ImageInv' /\ (Moved(i) \/ Stays(i))
<1> DEFINE s == clone[i]
<1>1. Drop(i) /\ OnlyImage /\ s \in {"scrfd", "ultralight", "blazeface"}
  BY DEF DetectFaces
<1>2. phase[i] # "done"  BY <1>1, HoldingClone
<1>3. record[i] \in Notes  BY DEF ImageInv, ImageTypeOK, Notes
<1>4. CASE /\ \E fill \in {"faces"} \cup (IF Tiled(i, s) THEN {} ELSE {"image"}) :
                record' = [record EXCEPT ![i].found = @ \cup {"faces"},
                                         ![i].filled = @ \cup {fill}]
           /\ IF Tiled(i, s) THEN NextLook(i, TRUE)
              ELSE /\ \E p \in TextPhase : phase' = [phase EXCEPT ![i] = p]
                   /\ UNCHANGED tile
  <2>1. PICK fill \in {"faces", "image"} :
          record' = [record EXCEPT ![i].found = @ \cup {"faces"}, ![i].filled = @ \cup {fill}]
    BY <1>4
  <2>2. record' = [record EXCEPT ![i] = [@ EXCEPT !.found = record[i].found \cup {"faces"},
                                                  !.filled = record[i].filled \cup {fill}]]
    BY <2>1
  <2>3. /\ record[i].found \cup {"faces"} \in SUBSET {"nsfw", "faces", "text"}
        /\ record[i].filled \cup {fill} \in SUBSET {"image", "faces", "text"}
    BY <1>3 DEF Notes
  <2>4. Noted(i)  BY <1>2, <2>2, <2>3, FindingNoted
  <2>5. Moved(i) \/ Stays(i)
    <3>1. CASE Tiled(i, s)  BY <1>4, <3>1, LookMoves DEF ImageInv
    <3>2. CASE ~Tiled(i, s)
      BY <1>4, <3>2, NextPhases DEF Moved, OnlyTile, ImageInv, ImageTypeOK
    <3> QED  BY <3>1, <3>2
  <2> QED  BY <1>1, <1>2, <2>4, <2>5, SlotStays, WorkDone
<1>5. CASE /\ \E large \in BOOLEAN : Proceed(i, s, TextPhase, large)
           /\ UNCHANGED record
  <2>1. Moved(i) \/ Stays(i)
    BY <1>5, ProceedMoves, NextPhases DEF ImageInv, ImageTypeOK
  <2>2. Noted(i)  BY <1>2, <1>5, NothingNoted
  <2> QED  BY <1>1, <1>2, <2>1, <2>2, SlotStays, WorkDone
<1> QED  BY <1>4, <1>5 DEF DetectFaces

LEMMA DetectTextStep ==
    ASSUME ImageInv, NEW i \in Images, DetectText(i)
    PROVE  ImageInv' /\ (Moved(i) \/ Stays(i))
<1>1. Drop(i) /\ OnlyImage /\ UNCHANGED tile /\ clone[i] = "detector"  BY DEF DetectText
<1>2. phase[i] # "done"  BY <1>1, HoldingClone
<1>3. record[i] \in Notes  BY DEF ImageInv, ImageTypeOK, Notes
<1>4. PICK regions \in {{}, {"text"}} :
        record' = [record EXCEPT
          ![i].found = @ \cup regions,
          ![i].filled = IF imageConfig.tier = "detect_and_fill" THEN @ \cup regions ELSE @]
  BY DEF DetectText
<1> DEFINE fills == IF imageConfig.tier = "detect_and_fill" THEN record[i].filled \cup regions
                    ELSE record[i].filled
<1>5. record' = [record EXCEPT ![i] = [@ EXCEPT !.found = record[i].found \cup regions,
                                                !.filled = fills]]
  BY <1>4
<1>6. /\ record[i].found \cup regions \in SUBSET {"nsfw", "faces", "text"}
      /\ fills \in SUBSET {"image", "faces", "text"}
  BY <1>3 DEF Notes
<1> HIDE DEF fills
<1>7. Noted(i)  BY <1>2, <1>5, <1>6, FindingNoted
<1>8. Moved(i)
  BY <1>1, SlotNamesAre DEF DetectText, Moved, OnlyTile, ImageInv, ImageTypeOK
<1> QED  BY <1>1, <1>2, <1>7, <1>8, SlotStays, WorkDone

LEMMA ReadTextStep ==
    ASSUME ImageInv, NEW i \in Images, ReadText(i)
    PROVE  ImageInv' /\ (Moved(i) \/ Stays(i))
<1>1. Drop(i) /\ OnlyImage /\ UNCHANGED tile /\ clone[i] = "recognizer"  BY DEF ReadText
<1>2. phase[i] # "done"  BY <1>1, HoldingClone
<1>3. record[i] \in Notes  BY DEF ImageInv, ImageTypeOK, Notes
<1>4. phase' = [phase EXCEPT ![i] = "done"]  BY DEF ReadText
<1>5. PICK read \in {"none", "sure", "doubtful"}, pii \in BOOLEAN :
        record' = [record EXCEPT
          ![i].readings = read,
          ![i].filled = IF pii \/ read = "doubtful"
                        THEN @ \cup (record[i].found \cap {"text"}) ELSE @]
  BY DEF ReadText
<1> DEFINE fills == IF pii \/ read = "doubtful"
                    THEN record[i].filled \cup (record[i].found \cap {"text"})
                    ELSE record[i].filled
           r == [record[i] EXCEPT !.readings = read, !.filled = fills]
<1>6. record' = [record EXCEPT ![i] = r]  BY <1>5
<1>7. fills \in SUBSET {"image", "faces", "text"}  BY <1>3 DEF Notes
<1>8. read = "doubtful" /\ "text" \in record[i].found => "text" \in fills  OBVIOUS
<1> HIDE DEF fills
<1>9. r \in Notes /\ r.readings = read /\ r.filled = fills /\ r.found = record[i].found
  BY <1>3, <1>7 DEF Notes
<1> HIDE DEF r
<1>10. phase'[i] = "done"  BY <1>4 DEF ImageInv, ImageTypeOK
<1>11. Noted(i)  BY <1>6, <1>8, <1>9, <1>10 DEF Noted
<1>12. Moved(i)  BY <1>1, <1>4 DEF Moved, OnlyTile, ImageInv, ImageTypeOK
<1> QED  BY <1>1, <1>2, <1>11, <1>12, SlotStays, WorkDone

(* What evictions and time change is no image.                             *)
LEMMA EvictionStep ==
    ASSUME ImageInv, EvictIfIdle \/ ForceEvict \/ ClearSlot \/ IdleTick \/ UNCHANGED imageVars
    PROVE  ImageInv'
<1>1. UNCHANGED <<imageConfig, phase, clone, tile, record>>
  BY DEF EvictIfIdle, ForceEvict, ClearSlot, IdleTick, imageVars
<1>2. Len(Slots) = 6  BY DEF Slots
<1>3. ImageTypeOK'
  <2>1. CASE EvictIfIdle \/ ForceEvict
    BY <1>2, <2>1 DEF ImageInv, ImageTypeOK, EvictIfIdle, ForceEvict
  <2>2. CASE ClearSlot
    <3>1. slot' \in [SlotNames -> BOOLEAN]  BY <2>2 DEF ImageInv, ImageTypeOK, ClearSlot
    <3>2. evictor' \in [kind : {"none", "idle", "pressure"}, at : 1..Len(Slots)]
      BY <1>2, <2>2 DEF ImageInv, ImageTypeOK, ClearSlot, NoEviction
    <3> QED  BY <2>2, <3>1, <3>2 DEF ImageInv, ImageTypeOK, ClearSlot
  <2>3. CASE IdleTick
    BY <2>3, ImageAssumption DEF ImageInv, ImageTypeOK, IdleTick
  <2>4. CASE UNCHANGED imageVars  BY <2>4 DEF ImageInv, ImageTypeOK, imageVars
  <2> QED  BY <2>1, <2>2, <2>3, <2>4
<1>4. CloneInv' /\ ReadingInv'  BY <1>1 DEF ImageInv, CloneInv, ReadingInv
<1> QED  BY <1>3, <1>4 DEF ImageInv

(* Each step of the images keeps the invariant.                            *)
LEMMA ImageStepInv == ImageInv /\ [ImageNext]_imageVars => ImageInv'
<1> SUFFICES ASSUME ImageInv, [ImageNext]_imageVars PROVE ImageInv'  OBVIOUS
<1>1. CASE \E i \in Images : Begin(i) \/ Work(i)
  <2>1. PICK i \in Images : Begin(i) \/ Work(i)  BY <1>1
  <2>2. CASE Begin(i)  BY <2>2, BeginStep
  <2>3. CASE \E s \in SlotNames : GetModel(i, s)  BY <2>3, GetModelStep
  <2>4. CASE RunFails(i)  BY <2>4, RunFailsStep
  <2>5. CASE Classify(i)  BY <2>5, ClassifyStep
  <2>6. CASE DetectFaces(i)  BY <2>6, DetectFacesStep
  <2>7. CASE DetectText(i)  BY <2>7, DetectTextStep
  <2>8. CASE ReadText(i)  BY <2>8, ReadTextStep
  <2> QED  BY <2>1, <2>2, <2>3, <2>4, <2>5, <2>6, <2>7, <2>8 DEF Work
<1>2. CASE EvictIfIdle \/ ForceEvict \/ ClearSlot \/ IdleTick \/ UNCHANGED imageVars
  BY <1>2, EvictionStep
<1> QED  BY <1>1, <1>2 DEF ImageNext

-----------------------------------------------------------------------------
(* Text that is found, and read with doubt, is filled: it leaves the       *)
(* pipeline visible only when it was read with confidence and held no PII, *)
(* or was not read at all, in whatever order images, failures and          *)
(* evictions interleave.                                                   *)
THEOREM DoubtfulTextIsFilled == ImageSpec => []VisibleTextWasRead
<1>1. ImageInv => VisibleTextWasRead
  BY DEF ImageInv, ReadingInv, VisibleTextWasRead
<1> QED  BY ImageInitInv, ImageStepInv, <1>1, PTL DEF ImageSpec

(* What ends a phase of an image: a result, or a failure of its model.     *)
Ended(i) ==
    \/ <<phase[i], tile[i]>>' = <<phase[i], tile[i]>>
    \/ phase[i] \in {"waiting", clone[i]} \cup record'[i].failed

(* A step of one image does not move another.                              *)
LEMMA OthersStay ==
    ASSUME ImageTypeOK, NEW i \in Images, NEW j \in Images, i # j, Moved(j) \/ Stays(j)
    PROVE  Ended(i)
<1>1. phase'[i] = phase[i]  BY DEF ImageTypeOK, Moved, Stays
<1>2. tile'[i] = tile[i]  BY DEF Moved, Stays, OnlyTile
<1> QED  BY <1>1, <1>2 DEF Ended

LEMMA BeginEnds ==
    ASSUME ImageTypeOK, NEW i \in Images, NEW j \in Images, Begin(j)
    PROVE  Ended(i)
<1>1. CASE i = j  BY <1>1 DEF Begin, Ended
<1>2. CASE i # j
  <2>1. Moved(j)
    BY NextPhases DEF Begin, Moved, OnlyTile, ImageTypeOK
  <2> QED  BY <1>2, <2>1, OthersStay
<1> QED  BY <1>1, <1>2

LEMMA GetModelEnds ==
    ASSUME ImageInv, NEW i \in Images, NEW s \in SlotNames, GetModel(i, s)
    PROVE  Ended(i)
<1>1. phase[i] = s  BY DEF GetModel
<1>2. CASE UNCHANGED <<phase, tile>>  BY <1>2 DEF Ended
<1>3. CASE record' = [record EXCEPT ![i].failed = @ \cup {s}]
  <2>1. phase[i] # "done"  BY <1>1, SlotNamesAre
  <2> QED  BY <1>1, <1>3, <2>1, FailureNoted DEF Ended
<1> QED  BY <1>2, <1>3 DEF GetModel

LEMMA WorkEnds ==
    ASSUME ImageInv, NEW i \in Images, NEW j \in Images, Work(j)
    PROVE  Ended(i)
<1>1. CASE i # j
  <2>1. Moved(j) \/ Stays(j)
    BY GetModelStep, RunFailsStep, ClassifyStep, DetectFacesStep, DetectTextStep, ReadTextStep
       DEF Work
  <2> QED  BY <1>1, <2>1, OthersStay DEF ImageInv
<1>2. CASE i = j
  <2>1. CASE \E s \in SlotNames : GetModel(i, s)  BY <2>1, GetModelEnds
  <2>2. CASE RunFails(i) \/ Classify(i) \/ DetectFaces(i) \/ DetectText(i) \/ ReadText(i)
    <3>1. clone[i] # "none"
      BY <2>2 DEF RunFails, Classify, DetectFaces, DetectText, ReadText
    <3> QED  BY <3>1, HoldingClone DEF Ended
  <2> QED  BY <1>2, <2>1, <2>2 DEF Work
<1> QED  BY <1>1, <1>2

(* An eviction never costs an image a phase: what ends a phase is a result *)
(* of the model it needs, or that model's failure to load or to run.       *)
THEOREM EvictionsCostNothing == ImageSpec => SkippedMeansFailed
<1>1. ImageInv /\ [ImageNext]_imageVars => [\A i \in Images : Ended(i)]_imageVars
  <2> SUFFICES ASSUME ImageInv, ImageNext, NEW i \in Images PROVE Ended(i)
    OBVIOUS
  <2>1. CASE \E j \in Images : Begin(j)  BY <2>1, BeginEnds DEF ImageInv
  <2>2. CASE \E j \in Images : Work(j)  BY <2>2, WorkEnds
  <2>3. CASE EvictIfIdle \/ ForceEvict \/ ClearSlot \/ IdleTick
    BY <2>3 DEF Ended, EvictIfIdle, ForceEvict, ClearSlot, IdleTick
  <2> QED  BY <2>1, <2>2, <2>3 DEF ImageNext
<1> QED  BY ImageInitInv, ImageStepInv, <1>1, PTL DEF ImageSpec, SkippedMeansFailed, Ended

-----------------------------------------------------------------------------
(***************************************************************************)
(* What holds of every conversation of the mobile library, for all values, *)
(* bounds and lengths: an app that merges the mappings it is given shows   *)
(* the model one token per value and reads every answer in the clear.      *)
(***************************************************************************)

Tokens  == [value : Values, request : Nat, key : Nat, start : Nat]
MappingEntries == {Entry(t) : t \in Tokens}
(* Sequences of tokens whose entries are all in R.                         *)
Known(text, R) == text \in Seq(Tokens) /\ \A i \in 1..Len(text) : Entry(text[i]) \in R
(* No two entries are of the same value.                                   *)
Distinct(entries) == \A i, j \in 1..Len(entries) : entries[i].plain = entries[j].plain => i = j

Messages == [role : {"user", "assistant"}, text : Seq(Tokens \cup Values)]

CountersOK ==
    /\ style \in {"batch", "single"}
    /\ key \in 1..MaxRotations
    /\ requests \in 0..MaxTalks
    /\ piiFound \in Nat
HistoryOK ==
    /\ history \in Seq(Messages)
    /\ \A i \in 1..Len(history) :
         IF style = "batch" /\ history[i].role = "user" THEN history[i].text \in Seq(Values)
         ELSE Known(history[i].text, ToSet(mapping))
MappingOK ==
    /\ mapping \in Seq(MappingEntries)
    /\ style = "batch" => Distinct(mapping)
SentOK ==
    /\ sent \in Seq(Seq(Tokens))
    /\ \A i \in 1..Len(sent) : Known(sent[i], ToSet(mapping))
(* What a call that runs has made so far.                                  *)
Carried(s) ==
    /\ s.new \in Seq(MappingEntries) /\ s.registry = ToSet(mapping \o s.new)
    /\ Distinct(mapping \o s.new)
CallOK ==
    \/ Idle
    \/ /\ style = "batch"
       /\ call \in [at : 1..Len(history), registry : SUBSET MappingEntries, new : Seq(MappingEntries),
                    out : Seq(Seq(Tokens))]
       /\ Len(call.out) = call.at - 1
       /\ Carried(call)
       /\ \A i \in 1..Len(call.out) : Known(call.out[i], call.registry)
SessionInv ==
    CountersOK /\ HistoryOK /\ MappingOK /\ SentOK /\ CallOK /\ AnswersAreRestored

(* A run of Sanitized: the text so far, the new entries and the registry.  *)
Runs == [text : Seq(Tokens), new : Seq(MappingEntries), registry : SUBSET MappingEntries]

-----------------------------------------------------------------------------
(* A token and its mapping entry tell the same.                            *)
LEMMA EntryOfToken ==
    /\ \A t \in Tokens : Entry(t) \in MappingEntries /\ Entry(t).token = t /\ Entry(t).plain = t.value
    /\ \A e \in MappingEntries : e.token \in Tokens /\ e.plain \in Values /\ e = Entry(e.token)
BY DEF MappingEntries, Entry, Tokens

(* What TokenFor returns, and for which value.                             *)
LEMMA TokenType ==
    ASSUME NEW v \in Values, NEW start \in Nat, NEW r \in Nat, key \in Nat
    PROVE  TokenFor(v, start, r) \in Tokens /\ TokenFor(v, start, r).value = v
BY DEF TokenFor, Tokens

(* Tokens that were known stay so when entries are added.                  *)
LEMMA KnownGrows ==
    ASSUME NEW R, NEW S, R \subseteq S, NEW text, Known(text, R)
    PROVE  Known(text, S)
BY DEF Known

(* A text of known tokens with one more known token.                       *)
LEMMA KnownAppend ==
    ASSUME NEW R, NEW text, Known(text, R), NEW t \in Tokens, Entry(t) \in R
    PROVE  Known(Append(text, t), R)
<1>1. text \in Seq(Tokens)
    BY DEF Known
<1>2. /\ Append(text, t) \in Seq(Tokens) /\ Len(Append(text, t)) = Len(text) + 1
      /\ \A i \in 1..Len(text) : Append(text, t)[i] = text[i]
      /\ Append(text, t)[Len(text) + 1] = t
    BY <1>1
<1>3. \A i \in 1..Len(text) + 1 : i \in 1..Len(text) \/ i = Len(text) + 1
    BY <1>1
<1> QED BY <1>2, <1>3 DEF Known

(* A batch over a mapping without repetitions begins with all of it.       *)
LEMMA RegistryOfAll ==
    ASSUME NEW m \in Seq(MappingEntries), Distinct(m)
    PROVE  RegistryOf(m) = ToSet(m)
<1>1. ASSUME NEW k \in 1..Len(m), NEW j \in k + 1..Len(m) PROVE m[j].plain # m[k].plain
    BY DEF Distinct
<1> QED BY <1>1 DEF RegistryOf, ToSet

(* One match: its token is known afterwards, and nothing is lost.          *)
LEMMA OneSubstitution ==
    ASSUME NEW s \in Runs, NEW v \in Values, NEW start \in Nat, key \in Nat, requests \in Nat
    PROVE  LET t == Substituted(s, v, start) IN
           /\ t \in Runs /\ s.registry \subseteq t.registry
           /\ mapping \in Seq(MappingEntries) /\ Carried(s) /\ Known(s.text, s.registry)
              => Carried(t) /\ Known(t.text, t.registry)
<1> DEFINE known == {e \in s.registry : e.plain = v}
           token == TokenFor(v, start, requests)
           t     == Substituted(s, v, start)
<1>1. CASE known # {}
    <2> DEFINE e == CHOOSE x \in known : TRUE
    <2>1. t = [s EXCEPT !.text = Append(@, e.token)]
        BY <1>1 DEF Substituted
    <2>2. e \in s.registry /\ e \in MappingEntries
        BY <1>1 DEF Runs
    <2> HIDE DEF e, t, known
    <2>3. e.token \in Tokens /\ Entry(e.token) = e
        BY <2>2, EntryOfToken
    <2>4. /\ t \in Runs /\ t.text = Append(s.text, e.token)
          /\ t.new = s.new /\ t.registry = s.registry
        <3>1. s = [text |-> s.text, new |-> s.new, registry |-> s.registry]
            BY DEF Runs
        <3>2. t = [text |-> Append(s.text, e.token), new |-> s.new, registry |-> s.registry]
            BY <2>1, <3>1
        <3>3. Append(s.text, e.token) \in Seq(Tokens)
            BY <2>3 DEF Runs
        <3> QED BY <3>2, <3>3 DEF Runs
    <2>5. ASSUME Carried(s), Known(s.text, s.registry)
          PROVE  Carried(t) /\ Known(t.text, t.registry)
        <3>1. Known(Append(s.text, e.token), s.registry)
            BY <2>2, <2>3, <2>5, KnownAppend
        <3> QED BY <2>4, <2>5, <3>1 DEF Carried
    <2> QED BY <2>4, <2>5 DEF t
<1>2. CASE known = {}
    <2>1. t = [text |-> Append(s.text, token), new |-> Append(s.new, Entry(token)),
               registry |-> s.registry \cup {Entry(token)}]
        BY <1>2 DEF Substituted
    <2>2. token \in Tokens /\ token.value = v
        BY TokenType
    <2>3. \A e \in s.registry : e.plain # v
        BY <1>2
    <2> HIDE DEF t, token, known
    <2>4. Entry(token) \in MappingEntries /\ Entry(token).plain = v
        BY <2>2, EntryOfToken
    <2>5. /\ t \in Runs /\ t.text = Append(s.text, token)
          /\ t.new = Append(s.new, Entry(token)) /\ t.registry = s.registry \cup {Entry(token)}
        BY <2>1, <2>2, <2>4 DEF Runs
    <2>6. ASSUME mapping \in Seq(MappingEntries), Carried(s), Known(s.text, s.registry)
          PROVE  Carried(t) /\ Known(t.text, t.registry)
        <3> DEFINE M == mapping \o s.new
        <3>1. M \in Seq(MappingEntries) /\ mapping \o t.new = Append(M, Entry(token))
            BY <2>4, <2>5, <2>6 DEF Carried
        <3>2. ToSet(M) = s.registry /\ Distinct(M)
            BY <2>6 DEF Carried
        <3> HIDE DEF M
        <3>3. ToSet(Append(M, Entry(token))) = t.registry
            BY <2>4, <2>5, <3>1, <3>2, ToSetAppend
        <3>4. \A i \in 1..Len(M) : M[i].plain # v
            BY <2>3, <3>1, <3>2, ToSetElements
        <3>5. Distinct(Append(M, Entry(token)))
            <4>1. /\ Len(Append(M, Entry(token))) = Len(M) + 1
                  /\ \A i \in 1..Len(M) : Append(M, Entry(token))[i] = M[i]
                  /\ Append(M, Entry(token))[Len(M) + 1] = Entry(token)
                  /\ \A i \in 1..Len(M) + 1 : i \in 1..Len(M) \/ i = Len(M) + 1
                BY <3>1, <2>4
            <4> QED BY <4>1, <3>2, <3>4, <2>4 DEF Distinct
        <3>6. Known(s.text, t.registry)
            BY <2>5, <2>6, KnownGrows
        <3>7. Known(Append(s.text, token), t.registry)
            BY <2>2, <2>5, <3>6, KnownAppend
        <3> HIDE DEF Known, Distinct, M
        <3>8. mapping \o t.new = Append(M, Entry(token)) /\ t.new \in Seq(MappingEntries)
            BY <2>4, <2>5, <2>6, <3>1 DEF Carried
        <3> QED BY <2>5, <3>3, <3>5, <3>7, <3>8 DEF Carried
    <2> QED BY <2>5, <2>6 DEF t
<1> QED BY <1>1, <1>2

(* A message of the user: all its values become tokens with entries.       *)
LEMMA SanitizedIsKnown ==
    ASSUME NEW text \in Seq(Values), key \in Nat, requests \in Nat, mapping \in Seq(MappingEntries),
           call.new \in Seq(MappingEntries), call.registry \in SUBSET MappingEntries, Carried(call)
    PROVE  LET s == Sanitized(text) IN
           /\ s \in Runs /\ Carried(s) /\ Known(s.text, s.registry)
           /\ call.registry \subseteq s.registry
<1> DEFINE N    == Len(text)
           base == [text |-> <<>>, new |-> call.new, registry |-> call.registry]
           step == [p \in (0 + 1..N) \X Runs |-> Substituted(p[2], text[p[1]], p[1])]
           F(f) == [n \in 0..N |-> IF n = 0 THEN base ELSE Substituted(f[n - 1], text[n], n)]
           f    == CHOOSE g : g = F(g)
<1>1. N \in Nat /\ 0 <= N /\ base \in Runs
    BY DEF Runs
<1>2. \A n \in 1..N : text[n] \in Values /\ n \in Nat
    OBVIOUS
<1>3. step \in [(0 + 1..N) \X Runs -> Runs]
    <2>1. ASSUME NEW n \in 1..N, NEW r \in Runs PROVE Substituted(r, text[n], n) \in Runs
        <3>1. text[n] \in Values /\ n \in Nat
            BY <1>1, <1>2
        <3> HIDE DEF N
        <3> QED BY <3>1, OneSubstitution
    <2> QED BY <2>1
<1>4. PICK g \in [0..N -> Runs] :
         Recursion(g, 0, N, base, step)
    <2>1. 0 \in Int /\ N \in Int
        BY <1>1
    <2> HIDE DEF N, base, step, F, f
    <2> QED BY <2>1, <1>1, <1>3, RecursionExists
<1>5. g = F(g)
    <2>1. ASSUME NEW n \in 0..N, n # 0 PROVE g[n] = Substituted(g[n - 1], text[n], n)
        <3>1. n \in 0 + 1..N /\ n - 1 \in 0..N
            BY <1>1, <2>1
        <3>2. <<n, g[n - 1]>> \in (0 + 1..N) \X Runs /\ g[n] = step[<<n, g[n - 1]>>]
            <4> HIDE DEF step, base, N
            <4> QED BY <3>1, <1>4 DEF Recursion
        <3>3. step[<<n, g[n - 1]>>] = Substituted(g[n - 1], text[n], n)
            BY <3>2
        <3> HIDE DEF step
        <3> QED BY <3>2, <3>3
    <2>2. \A n \in 0..N :
             g[n] = IF n = 0 THEN base ELSE Substituted(g[n - 1], text[n], n)
        <3>1. g[0] = base
            BY <1>4 DEF Recursion
        <3> HIDE DEF base, step, N
        <3> QED BY <2>1, <3>1
    <2> HIDE DEF base, step, N
    <2> QED BY <1>4, <2>2
<1>6. f = F(f)
    <2> HIDE DEF F
    <2> QED BY <1>5
<1>7. Sanitized(text) = f[N]
    BY DEF Sanitized
<1> DEFINE Good(s) == /\ s \in Runs /\ Carried(s) /\ Known(s.text, s.registry)
                     /\ call.registry \subseteq s.registry
           S == {n \in 0..N : Good(f[n])}
<1>8. 0 \in S
    <2>1. f[0] = base
        <3> HIDE DEF f, base
        <3> QED BY <1>1, <1>6
    <2>2. Good(base)
        BY <1>1 DEF Carried, Known
    <2> HIDE DEF f, base, Good
    <2> QED BY <1>1, <2>1, <2>2
<1>9. ASSUME NEW n \in 0..N - 1, n \in S PROVE n + 1 \in S
    <2>1. n + 1 \in 0..N /\ n + 1 # 0 /\ (n + 1) - 1 = n /\ n + 1 \in 1..N
        BY <1>1
    <2>2. f[n + 1] = Substituted(f[n], text[n + 1], n + 1)
        <3> HIDE DEF f, base, N
        <3> QED BY <1>6, <2>1
    <2>3. text[n + 1] \in Values /\ n + 1 \in Nat
        BY <1>2, <2>1
    <2>4. Good(f[n])
        BY <1>9
    <2> HIDE DEF f, N
    <2>5. Good(f[n + 1])
        BY <2>2, <2>3, <2>4, OneSubstitution
    <2> QED BY <2>1, <2>5
<1>10. 0..N \subseteq S
    <2>1. 0 \in Int /\ N \in Int
        BY <1>1
    <2> HIDE DEF S, N, f, F, base, step
    <2> QED BY <2>1, <1>8, <1>9, IntervalInduction
<1>11. N \in 0..N
    BY <1>1
<1>12. Good(Sanitized(text))
    <2> HIDE DEF f, N, Good
    <2> QED BY <1>7, <1>10, <1>11
<1> QED BY <1>12

-----------------------------------------------------------------------------
(* No conversation has begun.                                              *)
LEMMA SessionInitInv == SessionInit => SessionInv
<1> SUFFICES ASSUME SessionInit PROVE SessionInv
    OBVIOUS
<1> USE DEF SessionInit
<1>1. CountersOK
    BY SessionAssumption DEF CountersOK
<1>2. HistoryOK /\ SentOK
    BY DEF HistoryOK, SentOK
<1>3. MappingOK
    BY DEF MappingOK, Distinct
<1>4. CallOK
    BY DEF CallOK, Idle
<1>5. AnswersAreRestored
    BY DEF AnswersAreRestored, Nobody
<1> QED BY <1>1, <1>2, <1>3, <1>4, <1>5 DEF SessionInv

(* The tokens the model was shown are the elements of what was sent.       *)
LEMMA ShownIsSent ==
    ASSUME SentOK, NEW t \in Shown
    PROVE  t \in Tokens /\ Entry(t) \in ToSet(mapping)
<1>1. PICK i \in 1..Len(sent) : t \in ToSet(sent[i])
    <2>1. PICK text \in ToSet(sent) : t \in ToSet(text)
        BY DEF Shown
    <2>2. \E i \in 1..Len(sent) : text = sent[i]
        BY DEF ToSet, SentOK
    <2> QED BY <2>1, <2>2
<1>2. Known(sent[i], ToSet(mapping))
    BY DEF SentOK
<1>3. PICK j \in 1..Len(sent[i]) : t = sent[i][j]
    BY <1>1, <1>2 DEF ToSet, Known
<1> QED BY <1>2, <1>3 DEF Known

(* A batch call begins with all the mapping.                               *)
LEMMA SendBatchInv ==
    ASSUME SessionInv, NEW text \in Texts, SendBatch(text)
    PROVE  SessionInv'
<1> USE DEF SessionInv
<1>0. /\ style = "batch" /\ requests < MaxTalks
      /\ history' = Append(history, [role |-> "user", text |-> text])
      /\ call' = [NoCall EXCEPT !.at = 1, !.registry = RegistryOf(mapping)]
      /\ requests' = requests + 1
      /\ shown' = Nobody
      /\ UNCHANGED <<style, mapping, sent, key, piiFound>>
    BY DEF SendBatch
<1>1. text \in Seq(Values)
    BY DEF Texts
<1>2. CountersOK'
    BY <1>0, SessionAssumption DEF CountersOK
<1>3. history' \in Seq(Messages)
    <2>1. [role |-> "user", text |-> text] \in Messages
        BY <1>1 DEF Messages
    <2> QED BY <1>0, <2>1 DEF HistoryOK
<1>4. /\ Len(history') = Len(history) + 1
      /\ \A i \in 1..Len(history) : history'[i] = history[i]
      /\ history'[Len(history) + 1] = [role |-> "user", text |-> text]
    BY <1>0 DEF HistoryOK
<1>5. ASSUME NEW i \in 1..Len(history')
      PROVE  IF style = "batch" /\ history'[i].role = "user" THEN history'[i].text \in Seq(Values)
             ELSE Known(history'[i].text, ToSet(mapping))
    <2>1. i \in 1..Len(history) \/ i = Len(history) + 1
        BY <1>4 DEF HistoryOK
    <2> QED BY <1>0, <1>1, <1>4, <2>1 DEF HistoryOK
<1>6. HistoryOK' /\ SentOK' /\ MappingOK'
    BY <1>0, <1>3, <1>5 DEF HistoryOK, SentOK, MappingOK
<1>7. CallOK'
    <2>1. call' = [at |-> 1, registry |-> RegistryOf(mapping), new |-> <<>>, out |-> <<>>]
        BY <1>0 DEF NoCall
    <2>2. RegistryOf(mapping) = ToSet(mapping) /\ mapping \o <<>> = mapping
        BY <1>0, RegistryOfAll DEF MappingOK
    <2>3. ToSet(mapping) \subseteq MappingEntries
        BY ToSetElements DEF MappingOK
    <2>4. 1 \in 1..Len(history')
        BY <1>4 DEF HistoryOK
    <2>5. Carried(call)'
        <3>1. call'.new = <<>> /\ call'.registry = ToSet(mapping) /\ Distinct(mapping)
            <4>1. call'.new = <<>> /\ call'.registry = RegistryOf(mapping)
                BY <2>1
            <4> QED BY <1>0, <2>2, <4>1 DEF MappingOK
        <3>2. mapping' \o call'.new = mapping /\ <<>> \in Seq(MappingEntries)
            <4>1. mapping' \o call'.new = mapping \o <<>>
                BY <1>0, <3>1, Zenon
            <4>2. <<>> \in Seq(MappingEntries)
                OBVIOUS
            <4> QED BY <2>2, <4>1, <4>2
        <3>3. call'.new \in Seq(MappingEntries)
            BY <3>1, <3>2
        <3>4. call'.registry = ToSet(mapping' \o call'.new) /\ Distinct(mapping' \o call'.new)
            BY <3>1, <3>2
        <3> QED BY <3>3, <3>4 DEF Carried
    <2>6. call' \in [at : 1..Len(history'), registry : SUBSET MappingEntries, new : Seq(MappingEntries),
                     out : Seq(Seq(Tokens))]
        <3>1. RegistryOf(mapping) \in SUBSET MappingEntries
            BY <2>2, <2>3
        <3> QED BY <2>1, <2>4, <3>1
    <2>7. call'.at = 1 /\ call'.out = <<>>
        BY <2>1
    <2>8. style' = "batch" /\ Len(call'.out) = call'.at - 1
          /\ \A i \in 1..Len(call'.out) : Known(call'.out[i], call'.registry)
        BY <1>0, <2>7
    <2> QED BY <2>5, <2>6, <2>8 DEF CallOK
<1>8. AnswersAreRestored'
    BY <1>0 DEF AnswersAreRestored, Nobody
<1> QED BY <1>2, <1>6, <1>7, <1>8

(* What a message of the batch becomes, and what is known after it.        *)
LEMMA MessageIsKnown ==
    ASSUME SessionInv, ~Idle,
           NEW s, s = IF history[call.at].role = "assistant"
                      THEN [text |-> history[call.at].text, new |-> call.new,
                            registry |-> call.registry]
                      ELSE Sanitized(history[call.at].text)
    PROVE  /\ s \in Runs /\ Carried(s) /\ Known(s.text, s.registry)
           /\ call.registry \subseteq s.registry
<1> USE DEF SessionInv
<1>1. /\ style = "batch" /\ Carried(call) /\ call.at \in 1..Len(history)
      /\ call.new \in Seq(MappingEntries) /\ call.registry \in SUBSET MappingEntries
    BY DEF CallOK
<1>2. key \in Nat /\ requests \in Nat /\ mapping \in Seq(MappingEntries)
    BY SessionAssumption DEF CountersOK, MappingOK
<1>3. CASE history[call.at].role = "assistant"
    <2>1. Known(history[call.at].text, ToSet(mapping))
        BY <1>1, <1>3 DEF HistoryOK
    <2>2. ToSet(mapping) \subseteq call.registry
        BY <1>1, <1>2, ToSetConcat DEF Carried
    <2>3. s = [text |-> history[call.at].text, new |-> call.new, registry |-> call.registry]
        BY <1>3
    <2>4. Known(s.text, s.registry)
        BY <2>1, <2>2, <2>3, KnownGrows
    <2> QED BY <1>1, <2>3, <2>4 DEF Runs, Carried, Known
<1>4. CASE history[call.at].role # "assistant"
    <2>1. history[call.at].role = "user"
        <3>1. history \in Seq(Messages)
            BY DEF HistoryOK
        <3>2. history[call.at] \in Messages
            BY <1>1, <3>1
        <3> QED BY <1>4, <3>2 DEF Messages
    <2>2. history[call.at].text \in Seq(Values)
        BY <1>1, <2>1 DEF HistoryOK
    <2> QED BY <1>1, <1>2, <1>4, <2>2, SanitizedIsKnown
<1> QED BY <1>3, <1>4

(* One message of the history is sanitized, with the mapping so far.       *)
LEMMA SanitizeMessageInv ==
    ASSUME SessionInv, SanitizeMessage, Merging
    PROVE  SessionInv'
<1> USE DEF SessionInv
<1> DEFINE m == history[call.at]
           s == IF m.role = "assistant"
                THEN [text |-> m.text, new |-> call.new, registry |-> call.registry]
                ELSE Sanitized(m.text)
           out == Append(call.out, s.text)
<1>1. /\ s \in Runs /\ Carried(s) /\ Known(s.text, s.registry)
      /\ call.registry \subseteq s.registry
    BY MessageIsKnown DEF SanitizeMessage
<1>2. /\ ~Idle /\ UNCHANGED <<style, history, shown, key, requests>>
      /\ piiFound' = IF m.role = "assistant" THEN piiFound ELSE piiFound + Len(m.text)
      /\ IF call.at = Len(history)
         THEN call' = NoCall /\ sent' = out /\ Keep(s.new)
         ELSE /\ call' = [at |-> call.at + 1, registry |-> s.registry,
                          new |-> s.new, out |-> out]
              /\ UNCHANGED <<sent, mapping>>
    BY DEF SanitizeMessage
<1>3. /\ style = "batch" /\ Carried(call) /\ call.at \in 1..Len(history)
      /\ call.out \in Seq(Seq(Tokens)) /\ Len(call.out) = call.at - 1
      /\ \A i \in 1..Len(call.out) : Known(call.out[i], call.registry)
      /\ call.new \in Seq(MappingEntries)
    BY <1>2 DEF CallOK
<1> HIDE DEF s
<1>4. Len(m.text) \in Nat
    <2>1. m \in Messages
        <3>1. history \in Seq(Messages)
            BY DEF HistoryOK
        <3> QED BY <1>3, <3>1
    <2> HIDE DEF m
    <2> QED BY <2>1 DEF Messages
<1>5. CountersOK'
    <2>1. piiFound' = piiFound \/ piiFound' = piiFound + Len(m.text)
        BY <1>2
    <2>2. piiFound' \in Nat
        <3> HIDE DEF m
        <3> QED BY <1>4, <2>1 DEF CountersOK
    <2> QED BY <1>2, <2>2 DEF CountersOK
<1>6. /\ mapping \in Seq(MappingEntries)
      /\ s.registry = ToSet(mapping) \cup ToSet(s.new)
      /\ s.text \in Seq(Tokens) /\ s.new \in Seq(MappingEntries) /\ s.registry \in SUBSET MappingEntries
    BY <1>1, ToSetConcat DEF Carried, MappingOK, Runs
<1>7. /\ out \in Seq(Seq(Tokens)) /\ Len(out) = call.at
      /\ \A i \in 1..Len(call.out) : out[i] = call.out[i]
      /\ out[call.at] = s.text
    BY <1>3, <1>6
<1>8. ASSUME NEW i \in 1..Len(out) PROVE Known(out[i], s.registry)
    <2>1. CASE i = call.at
        BY <2>1, <1>1, <1>7
    <2>2. CASE i # call.at
        <3>1. i \in 1..Len(call.out)
            BY <2>2, <1>3, <1>7
        <3> HIDE DEF out
        <3> QED BY <1>1, <1>3, <1>7, <3>1, KnownGrows
    <2> QED BY <2>1, <2>2
<1> HIDE DEF out, m
<1>9. CASE call.at = Len(history)
    <2>1. call' = NoCall /\ sent' = out /\ mapping' = mapping \o s.new
        BY <1>2, <1>9 DEF Keep
    <2>2. ToSet(mapping') = s.registry /\ mapping' \in Seq(MappingEntries) /\ Distinct(mapping')
        <3>1. mapping' \in Seq(MappingEntries)
            BY <1>6, <2>1
        <3> QED BY <1>1, <2>1, <3>1 DEF Carried
    <2>3. MappingOK'
        BY <2>2 DEF MappingOK
    <2>4. HistoryOK'
        <3>1. ToSet(mapping) \subseteq ToSet(mapping')
            BY <2>2, <1>6
        <3>2. ASSUME NEW i \in 1..Len(history), Known(history[i].text, ToSet(mapping))
              PROVE  Known(history[i].text, ToSet(mapping'))
            BY <3>1, <3>2, KnownGrows
        <3> QED BY <1>2, <3>2 DEF HistoryOK
    <2>5. SentOK'
        BY <1>7, <1>8, <2>1, <2>2 DEF SentOK
    <2>6. CallOK' /\ AnswersAreRestored'
        BY <1>2, <2>1 DEF CallOK, Idle, AnswersAreRestored
    <2> QED BY <1>5, <2>3, <2>4, <2>5, <2>6
<1>10. CASE call.at # Len(history)
    <2>1. /\ call' = [at |-> call.at + 1, registry |-> s.registry, new |-> s.new, out |-> out]
          /\ UNCHANGED <<sent, mapping>>
        BY <1>2, <1>10
    <2>2. HistoryOK' /\ MappingOK' /\ SentOK' /\ AnswersAreRestored'
        BY <1>2, <2>1 DEF HistoryOK, MappingOK, SentOK, AnswersAreRestored
    <2>3. /\ call'.at = call.at + 1 /\ call'.registry = s.registry
          /\ call'.new = s.new /\ call'.out = out
        BY <2>1
    <2>4. call.at + 1 \in 1..Len(history)
        BY <1>3, <1>10 DEF HistoryOK
    <2>5. call' \in [at : 1..Len(history), registry : SUBSET MappingEntries, new : Seq(MappingEntries),
                     out : Seq(Seq(Tokens))]
        BY <1>6, <1>7, <2>1, <2>4
    <2>6. Carried(call)'
        BY <1>1, <2>1, <2>3 DEF Carried
    <2>7. /\ Len(call'.out) = call'.at - 1
          /\ \A i \in 1..Len(call'.out) : Known(call'.out[i], call'.registry)
        BY <1>3, <1>7, <1>8, <2>3
    <2>8. CallOK'
        BY <1>2, <1>3, <2>5, <2>6, <2>7 DEF CallOK
    <2> QED BY <1>5, <2>2, <2>8
<1> QED BY <1>9, <1>10

(* A text alone: its tokens and their entries are new.                     *)
LEMMA SendTextInv ==
    ASSUME SessionInv, NEW text \in Texts, SendText(text), Merging
    PROVE  SessionInv'
<1> USE DEF SessionInv
<1> DEFINE now   == [n \in 1..Len(text) |-> TokenFor(text[n], n, requests + 1)]
           given == [n \in 1..Len(now) |-> Entry(now[n])]
           old   == [i \in 1..Len(history) |-> history[i].text]
<1>0. /\ style = "single" /\ requests < MaxTalks
      /\ history' = Append(history, [role |-> "user", text |-> now])
      /\ sent' = old \o <<now>>
      /\ mapping' = mapping \o given
      /\ requests' = requests + 1
      /\ piiFound' = piiFound + Len(text)
      /\ shown' = Nobody
      /\ UNCHANGED <<style, call, key>>
    BY DEF SendText, Keep
<1>1. text \in Seq(Values) /\ Len(text) \in Nat
    BY DEF Texts
<1>2. key \in Nat /\ requests \in Nat /\ requests + 1 \in Nat /\ Len(history) \in Nat
    BY SessionAssumption DEF CountersOK, HistoryOK
<1>3. CountersOK'
    BY <1>0, <1>1, SessionAssumption DEF CountersOK
<1>4. \A n \in 1..Len(text) : text[n] \in Values /\ n \in Nat
    BY <1>1
<1>5. now \in Seq(Tokens) /\ Len(now) = Len(text)
    <2>1. \A n \in 1..Len(text) : TokenFor(text[n], n, requests + 1) \in Tokens
        BY <1>2, <1>4, TokenType
    <2> QED BY <1>1, <2>1
<1> HIDE DEF now
<1>6. given \in Seq(MappingEntries) /\ Len(given) = Len(now) /\ \A n \in 1..Len(now) : given[n] = Entry(now[n])
    <2>1. \A n \in 1..Len(now) : Entry(now[n]) \in MappingEntries
        BY <1>5, EntryOfToken
    <2> QED BY <1>5, <2>1
<1> HIDE DEF given
<1>7. mapping' \in Seq(MappingEntries) /\ ToSet(mapping') = ToSet(mapping) \cup ToSet(given)
    BY <1>0, <1>6, ToSetConcat DEF MappingOK
<1>8. MappingOK'
    BY <1>0, <1>7 DEF MappingOK
<1>9. Known(now, ToSet(mapping'))
    <2>1. ToSet(given) \subseteq ToSet(mapping')
        BY <1>7
    <2>2. \A n \in 1..Len(now) : Entry(now[n]) \in ToSet(given)
        BY <1>6, ToSetElements
    <2> QED BY <1>5, <2>1, <2>2 DEF Known
<1>10. ASSUME NEW i \in 1..Len(history) PROVE Known(history[i].text, ToSet(mapping'))
    <2>1. Known(history[i].text, ToSet(mapping)) /\ ToSet(mapping) \subseteq ToSet(mapping')
        BY <1>0, <1>7 DEF HistoryOK
    <2> QED BY <2>1, KnownGrows
<1>11. /\ Len(history') = Len(history) + 1
       /\ \A i \in 1..Len(history) : history'[i] = history[i]
       /\ history'[Len(history) + 1] = [role |-> "user", text |-> now]
       /\ \A i \in 1..Len(history) + 1 : i \in 1..Len(history) \/ i = Len(history) + 1
    BY <1>0 DEF HistoryOK
<1>12. HistoryOK'
    <2>1. [role |-> "user", text |-> now] \in Messages
        BY <1>5 DEF Messages
    <2>2. history' \in Seq(Messages)
        BY <1>0, <2>1 DEF HistoryOK
    <2>3. ASSUME NEW i \in 1..Len(history') PROVE Known(history'[i].text, ToSet(mapping'))
        BY <1>9, <1>10, <1>11
    <2> QED BY <1>0, <2>2, <2>3 DEF HistoryOK
<1>13. SentOK'
    <2>1. old \in Seq(Seq(Tokens)) /\ Len(old) = Len(history)
          /\ \A i \in 1..Len(history) : old[i] = history[i].text
        <3>1. \A i \in 1..Len(history) : history[i].text \in Seq(Tokens)
            BY <1>10 DEF Known
        <3> QED BY <1>2, <3>1
    <2> HIDE DEF old
    <2>2. /\ sent' \in Seq(Seq(Tokens)) /\ Len(sent') = Len(history) + 1
          /\ \A i \in 1..Len(history) : sent'[i] = history[i].text
          /\ sent'[Len(history) + 1] = now
        <3>1. sent' = Append(old, now)
            BY <1>0, <1>5, <2>1
        <3> QED BY <1>2, <1>5, <2>1, <3>1
    <2>3. ASSUME NEW i \in 1..Len(sent') PROVE Known(sent'[i], ToSet(mapping'))
        BY <1>9, <1>10, <1>11, <2>2
    <2> QED BY <2>2, <2>3 DEF SentOK
<1>14. CallOK'
    <2>1. Idle
        BY <1>0 DEF CallOK
    <2> QED BY <1>0, <2>1 DEF CallOK, Idle
<1>15. AnswersAreRestored'
    BY <1>0 DEF AnswersAreRestored, Nobody
<1> QED BY <1>3, <1>8, <1>12, <1>13, <1>14, <1>15

-----------------------------------------------------------------------------
(* Restoring finds the entry of a token that is spelled in one way.        *)
LEMMA RestoredIsRead ==
    ASSUME NEW wrote, NEW n \in Nat, wrote \in [1..n -> Items], SentOK, MappingOK,
           NEW i \in 1..n,
           \A j \in 1..n : wrote[i].token = wrote[j].token => wrote[i].spaced = wrote[j].spaced
    PROVE  RestoredText(wrote, mapping)[i] = [text |-> wrote[i].token.value, clear |-> TRUE]
<1> DEFINE exact(t) == \E j \in 1..Len(wrote) : wrote[j] = [token |-> t, spaced |-> FALSE]
           of(w)    == {e \in ToSet(mapping) : e.token = w.token /\ (w.spaced => ~exact(w.token))}
<1>1. Len(wrote) = n
    OBVIOUS
<1>2. /\ wrote[i] \in [token : Shown, spaced : BOOLEAN]
      /\ \A j \in 1..n : wrote[j] \in [token : Shown, spaced : BOOLEAN]
    BY DEF Items
<1>3. wrote[i].token \in Tokens /\ Entry(wrote[i].token) \in ToSet(mapping)
    BY <1>2, ShownIsSent
<1>4. wrote[i].spaced => ~exact(wrote[i].token)
    <2> SUFFICES ASSUME wrote[i].spaced, NEW j \in 1..n,
                        wrote[j] = [token |-> wrote[i].token, spaced |-> FALSE]
                 PROVE  FALSE
        BY <1>1
    <2>1. wrote[j].token = wrote[i].token /\ wrote[j].spaced = FALSE
        OBVIOUS
    <2> QED BY <2>1
<1> HIDE DEF exact
<1>5. Entry(wrote[i].token) \in of(wrote[i])
    BY <1>3, <1>4, EntryOfToken
<1>6. \A e \in of(wrote[i]) : e.plain = wrote[i].token.value
    <2> SUFFICES ASSUME NEW e \in ToSet(mapping), e.token = wrote[i].token
                 PROVE  e.plain = wrote[i].token.value
        OBVIOUS
    <2>1. e \in MappingEntries
        BY ToSetElements DEF MappingOK
    <2> QED BY <2>1, <1>3, EntryOfToken
<1>7. RestoredText(wrote, mapping)[i] =
        IF of(wrote[i]) = {} THEN Unread(wrote[i])
        ELSE Read(wrote[i], CHOOSE e \in of(wrote[i]) : TRUE)
    BY <1>1 DEF RestoredText, exact
<1> HIDE DEF of
<1>8. (CHOOSE e \in of(wrote[i]) : TRUE) \in of(wrote[i])
    BY <1>5
<1> QED BY <1>5, <1>6, <1>7, <1>8 DEF Read

(* The reply is of tokens that were sent.                                  *)
LEMMA ReplyInv ==
    ASSUME SessionInv, Reply
    PROVE  SessionInv'
<1> USE DEF SessionInv
<1>0. /\ Idle /\ UNCHANGED <<style, mapping, call, sent, key, requests, piiFound>>
    BY DEF Reply
<1>1. PICK n \in 1..MaxSize : \E wrote \in [1..n -> Items] :
         /\ shown' = [wrote |-> wrote, read |-> RestoredText(wrote, mapping)]
         /\ history' = Append(history, [role |-> "assistant",
                                        text |-> [i \in 1..n |-> wrote[i].token]])
    BY DEF Reply
<1>2. PICK wrote \in [1..n -> Items] :
         /\ shown' = [wrote |-> wrote, read |-> RestoredText(wrote, mapping)]
         /\ history' = Append(history, [role |-> "assistant",
                                        text |-> [i \in 1..n |-> wrote[i].token]])
    BY <1>1
<1> DEFINE text == [i \in 1..n |-> wrote[i].token]
<1>3. n \in Nat /\ Len(wrote) = n
    BY SessionAssumption
<1>4. \A i \in 1..n : wrote[i].token \in Tokens /\ Entry(wrote[i].token) \in ToSet(mapping)
    <2>1. \A i \in 1..n : wrote[i].token \in Shown
        BY DEF Items
    <2> QED BY <2>1, ShownIsSent
<1>5. Known(text, ToSet(mapping))
    <2>1. text \in Seq(Tokens) /\ Len(text) = n /\ \A i \in 1..n : text[i] = wrote[i].token
        BY <1>3, <1>4
    <2> HIDE DEF text
    <2> QED BY <1>4, <2>1 DEF Known
<1>6. history' = Append(history, [role |-> "assistant", text |-> text])
    BY <1>2
<1> HIDE DEF text
<1>7. HistoryOK'
    <2>1. /\ [role |-> "assistant", text |-> text]
               \in Messages
        BY <1>5 DEF Known, Messages
    <2>2. history' \in Seq(Messages)
        BY <1>6, <2>1 DEF HistoryOK
    <2>3. /\ Len(history') = Len(history) + 1
          /\ \A i \in 1..Len(history) : history'[i] = history[i]
          /\ history'[Len(history) + 1] = [role |-> "assistant", text |-> text]
          /\ \A i \in 1..Len(history) + 1 : i \in 1..Len(history) \/ i = Len(history) + 1
        BY <1>6 DEF HistoryOK
    <2>4. ASSUME NEW i \in 1..Len(history')
          PROVE  IF style = "batch" /\ history'[i].role = "user" THEN history'[i].text \in Seq(Values)
                 ELSE Known(history'[i].text, ToSet(mapping))
        BY <1>5, <2>3 DEF HistoryOK
    <2> QED BY <1>0, <2>2, <2>4 DEF HistoryOK
<1>8. CountersOK' /\ MappingOK' /\ SentOK' /\ CallOK'
    BY <1>0 DEF CountersOK, MappingOK, SentOK, CallOK, Idle
<1>9. AnswersAreRestored'
    <2>1. shown'.wrote = wrote /\ shown'.read = RestoredText(wrote, mapping)
        BY <1>2
    <2>2. ASSUME NEW i \in 1..n,
                 \A j \in 1..n : wrote[i].token = wrote[j].token => wrote[i].spaced = wrote[j].spaced
          PROVE  RestoredText(wrote, mapping)[i] = [text |-> wrote[i].token.value, clear |-> TRUE]
        BY <1>3, <2>2, RestoredIsRead
    <2> SUFFICES ASSUME NEW i \in 1..Len(shown'.wrote),
                        \A j \in 1..Len(shown'.wrote) :
                           shown'.wrote[i].token = shown'.wrote[j].token
                           => shown'.wrote[i].spaced = shown'.wrote[j].spaced
                 PROVE  /\ shown'.read[i].clear
                        /\ shown'.read[i].text = shown'.wrote[i].token.value
        BY DEF AnswersAreRestored
    <2>3. /\ i \in 1..n
          /\ \A j \in 1..n : wrote[i].token = wrote[j].token => wrote[i].spaced = wrote[j].spaced
        BY <1>3, <2>1
    <2>4. shown'.read[i] = [text |-> wrote[i].token.value, clear |-> TRUE]
        BY <2>1, <2>2, <2>3
    <2> QED BY <2>1, <2>4
<1> QED BY <1>7, <1>8, <1>9

-----------------------------------------------------------------------------
(* Each step keeps the invariant.                                          *)
LEMMA SessionStepInv ==
    ASSUME SessionInv, [SessionNext]_sessionVars, Merging
    PROVE  SessionInv'
<1>1. CASE UNCHANGED sessionVars
    BY <1>1 DEF sessionVars, SessionInv, CountersOK, HistoryOK, MappingOK, SentOK, CallOK,
                Carried, Idle, AnswersAreRestored
<1>2. ASSUME NEW text \in Texts, SendBatch(text) \/ SendText(text) PROVE SessionInv'
    BY <1>2, SendBatchInv, SendTextInv
<1>3. CASE SanitizeMessage
    BY <1>3, SanitizeMessageInv
<1>4. CASE Reply
    BY <1>4, ReplyInv
<1>5. CASE RotateKey
    <2>1. key' \in 1..MaxRotations
        BY <1>5, SessionAssumption DEF RotateKey, SessionInv, CountersOK
    <2>2. UNCHANGED <<style, history, mapping, call, sent, shown, requests, piiFound>>
        BY <1>5 DEF RotateKey
    <2> QED BY <2>1, <2>2 DEF SessionInv, CountersOK, HistoryOK, MappingOK, SentOK, CallOK,
                Carried, Idle, AnswersAreRestored
<1> QED BY <1>1, <1>2, <1>3, <1>4, <1>5 DEF SessionNext

(* Two tokens of one value would have entries of one value.                *)
LEMMA SessionInvHolds ==
    ASSUME SessionInv
    PROVE  SessionTypeOK /\ ConversationHolds
<1> USE DEF SessionInv
<1>1. SessionTypeOK
    <2>1. ASSUME NEW m \in ToSet(history) PROVE m.role \in {"user", "assistant"}
        <3>1. ToSet(history) \subseteq Messages
            BY ToSetElements DEF HistoryOK
        <3> QED BY <3>1 DEF Messages
    <2>2. Len(history) \in Nat
        BY DEF HistoryOK
    <2>3. call.at \in 0..Len(history) /\ (Idle \/ Len(call.out) = call.at - 1)
        BY <2>2 DEF CallOK, Idle, NoCall
    <2> QED BY <2>1, <2>3 DEF SessionTypeOK, CountersOK
<1>2. OneTokenPerValue
    <2> SUFFICES ASSUME style = "batch", NEW t \in Shown, NEW u \in Shown, t.value = u.value
                 PROVE  t = u
        BY DEF OneTokenPerValue
    <2>1. /\ t \in Tokens /\ Entry(t) \in ToSet(mapping)
          /\ u \in Tokens /\ Entry(u) \in ToSet(mapping)
        BY ShownIsSent
    <2>2. mapping \in Seq(MappingEntries) /\ Distinct(mapping)
        BY DEF MappingOK
    <2>3. PICK i \in 1..Len(mapping) : Entry(t) = mapping[i]
        BY <2>1, <2>2, ToSetElements
    <2>4. PICK j \in 1..Len(mapping) : Entry(u) = mapping[j]
        BY <2>1, <2>2, ToSetElements
    <2>5. Entry(t).plain = Entry(u).plain
        BY <2>1, EntryOfToken
    <2>6. Entry(t) = Entry(u)
        BY <2>2, <2>3, <2>4, <2>5 DEF Distinct
    <2> QED BY <2>1, <2>6, EntryOfToken
<1> QED BY <1>1, <1>2 DEF ConversationHolds

(* sanitize_messages and restore_text, of an app that adds the mapping of  *)
(* each call to its own: at every moment a batch app has shown the model   *)
(* one token per value, and the last answer was read in the clear.         *)
THEOREM ConversationsHold ==
    ASSUME Merging
    PROVE  SessionSpec => [](SessionTypeOK /\ ConversationHolds)
<1>1. SessionInit => SessionInv
    BY SessionInitInv
<1>2. SessionInv /\ [SessionNext]_sessionVars => SessionInv'
    BY SessionStepInv
<1>3. SessionInv => SessionTypeOK /\ ConversationHolds
    BY SessionInvHolds
<1> QED BY <1>1, <1>2, <1>3, PTL DEF SessionSpec

-----------------------------------------------------------------------------
(***************************************************************************)
(* What a restart may tell of the requests before it, for a ring of any    *)
(* size: a tear touches only the five oldest cells, and the lines behind   *)
(* it are those of the history, so a start entry that can still be read is *)
(* followed by its completion entry.                                       *)
(*                                                                         *)
(* Cells are counted from the oldest one on, as read_contents reads them.  *)
(***************************************************************************)

Place(i) == (offset + i - 1) % RingSize
At(i)    == ring[Place(i)]
(* Where field f of the p-th line written stands, if it is still there.    *)
Pos(p, f) == RingSize - 5 * (Len(written) - p) - 5 + f

(* The oldest k cells are pieces of torn lines or of the one being         *)
(* written; behind them stands the history.                                *)
TornUpTo(k) ==
    /\ copied <= k
    /\ \A i \in 1..k : /\ At(i) \in Cells /\ At(i).field = i
                       /\ At(i).entry \in torn \cup ToSet(writing)
    /\ \A i \in 1..copied : At(i) = [field |-> i, entry |-> writing[1]]
    /\ \A p \in 1..Len(written), f \in 1..5 :
          Pos(p, f) > k => At(Pos(p, f)) = [field |-> f, entry |-> written[p]]
    /\ \A i \in k + 1..RingSize : i <= RingSize - 5 * Len(written) => At(i) = NUL

RingOK == \E k \in 0..5 : TornUpTo(k)

(* The order of the entries of a request.                                  *)
EntriesOK ==
    /\ writing = <<>> => copied = 0
    /\ ~up => writing = <<>>
    /\ \A e \in ToSet(written) \cup torn \cup ToSet(writing) : e.id \in begun
    /\ \A p, q \in 1..Len(written) :
          written[p].id = written[q].id /\ ~written[p].completed /\ written[q].completed => p < q
    /\ \A e \in ToSet(written) \cup torn, d \in ToSet(writing) :
          ~d.completed => e.id # d.id
    /\ \A e \in ToSet(written), d \in torn : ~e.completed => e # d

JournalInv == TypeOK /\ RingOK /\ EntriesOK

-----------------------------------------------------------------------------
(* The cells in the order in which they are read.                          *)
LEMMA RotationIs ==
    ASSUME NEW o \in 0..RingSize - 1, NEW i \in 1..RingSize
    PROVE  /\ (o + i - 1) % RingSize = IF o + i - 1 < RingSize THEN o + i - 1 ELSE o + i - 1 - RingSize
           /\ (o + i - 1) % RingSize \in 0..RingSize - 1
<1>1. RingSize \in Nat /\ RingSize > 0
    BY JournalAssumption DEF Width
<1>2. \A x \in 0..RingSize - 1 : x % RingSize = x
    BY <1>1
<1>3. \A x \in RingSize..2 * RingSize - 1 : x % RingSize = x - RingSize
    BY <1>1
<1>4. CASE o + i - 1 < RingSize
    <2>1. o + i - 1 \in 0..RingSize - 1
        BY <1>1, <1>4
    <2> QED BY <1>2, <1>4, <2>1
<1>5. CASE ~(o + i - 1 < RingSize)
    <2>1. o + i - 1 \in RingSize..2 * RingSize - 1
        BY <1>1, <1>5
    <2> QED BY <1>1, <1>3, <1>5, <2>1
<1> QED BY <1>4, <1>5

(* The cell behind a place counted from the oldest one.                    *)
LEMMA PlaceIs ==
    ASSUME offset \in 0..RingSize - 1, NEW i \in 1..RingSize
    PROVE  /\ Place(i) = IF offset + i - 1 < RingSize THEN offset + i - 1 ELSE offset + i - 1 - RingSize
           /\ Place(i) \in 0..RingSize - 1
BY RotationIs DEF Place

(* The entry being written is one entry.                                   *)
LEMMA WritingIs ==
    ASSUME TypeOK, writing # <<>>
    PROVE  /\ writing[1] \in Entries /\ ToSet(writing) = {writing[1]}
<1>1. PICK e \in Entries : writing = <<e>>
    BY DEF TypeOK
<1> QED BY <1>1 DEF ToSet

(* The ring is blank and no request has begun.                             *)
LEMMA JournalInitInv == Init => JournalInv
<1> SUFFICES ASSUME Init PROVE JournalInv
    OBVIOUS
<1>0. /\ ring = [i \in 0..RingSize - 1 |-> NUL] /\ offset = 0 /\ writing = <<>> /\ copied = 0
      /\ begun = {} /\ live = {} /\ written = <<>> /\ torn = {} /\ up = TRUE /\ found = {}
    BY DEF Init
<1>1. RingSize \in Nat /\ RingSize >= 5
    BY JournalAssumption DEF Width
<1>2. Len(written) = 0 /\ ToSet(written) = {} /\ ToSet(writing) = {} /\ written \in Seq(Entries)
    BY <1>0 DEF ToSet
<1>3. TypeOK
    <2>1. offset \in 0..RingSize - 1 /\ copied \in 0..Width
        BY <1>0, <1>1 DEF Width
    <2> QED BY <1>0, <1>2, <2>1 DEF TypeOK
<1>4. \A i \in 1..RingSize : At(i) = NUL
    <2>1. offset \in 0..RingSize - 1
        BY <1>0, <1>1
    <2> QED BY <1>0, <2>1, PlaceIs DEF At
<1>5. TornUpTo(0)
    BY <1>0, <1>1, <1>2, <1>4 DEF TornUpTo
<1>6. RingOK
    <2>1. 0 \in 0..5
        OBVIOUS
    <2> QED BY <1>5, <2>1 DEF RingOK
<1>7. EntriesOK
    BY <1>0, <1>2 DEF EntriesOK
<1> QED BY <1>3, <1>6, <1>7 DEF JournalInv

(* A writer takes the mutex.                                               *)
LEMMA CopyLockInv ==
    ASSUME JournalInv, NEW e \in Entries, Lock(e), begun' \in SUBSET Ids, begun \subseteq begun',
           live' \subseteq begun', e.id \in begun', ~e.completed => e.id \notin begun
    PROVE  JournalInv'
<1>0. TypeOK /\ RingOK /\ EntriesOK
    BY DEF JournalInv
<1>1. /\ writing = <<>> /\ writing' = <<e>> /\ copied' = 0 /\ ring' = ring /\ offset' = offset
      /\ written' = written /\ torn' = torn /\ up' = up /\ up /\ found' = found
    BY DEF Lock
<1>2. ToSet(writing) = {} /\ ToSet(writing') = {e}
    BY <1>1 DEF ToSet
<1>3. TypeOK'
    BY <1>0, <1>1 DEF TypeOK, Width
<1>4. PICK k \in 0..5 : TornUpTo(k)
    BY <1>0 DEF RingOK
<1>5. \A i : At(i)' = At(i)
    BY <1>1 DEF At, Place
<1>6. \A p, f : Pos(p, f)' = Pos(p, f)
    BY <1>1 DEF Pos
<1>7. TornUpTo(k)'
    BY <1>1, <1>2, <1>4, <1>5, <1>6 DEF TornUpTo
<1>8. RingOK'
    BY <1>7 DEF RingOK
<1>9. EntriesOK'
    BY <1>0, <1>1, <1>2 DEF EntriesOK
<1> QED BY <1>3, <1>8, <1>9 DEF JournalInv

(* A piece of the line lands in the ring.                                  *)
LEMMA CopyInv == JournalInv /\ CopyCell => JournalInv'
<1> SUFFICES ASSUME JournalInv, CopyCell PROVE JournalInv'
    OBVIOUS
<1>0. TypeOK /\ RingOK /\ EntriesOK
    BY DEF JournalInv
<1> DEFINE n == copied + 1
           e == writing[1]
<1>1. /\ writing # <<>> /\ copied < 5 /\ copied' = n
      /\ ring' = [ring EXCEPT ![(offset + copied) % RingSize] = [field |-> n, entry |-> e]]
      /\ offset' = offset /\ writing' = writing /\ begun' = begun /\ live' = live
      /\ written' = written /\ torn' = torn /\ up' = up /\ found' = found
    BY DEF CopyCell, Width
<1>2. /\ RingSize \in Nat /\ RingSize >= 5 /\ offset \in 0..RingSize - 1 /\ copied \in 0..5
      /\ ring \in [0..RingSize - 1 -> Cells \cup {NUL}]
    BY <1>0, JournalAssumption DEF Width, TypeOK
<1>3. e \in Entries /\ ToSet(writing) = {e} /\ [field |-> n, entry |-> e] \in Cells
    <2>1. e \in Entries /\ ToSet(writing) = {e}
        BY <1>0, <1>1, WritingIs
    <2>2. n \in 1..5
        BY <1>1, <1>2
    <2> QED BY <2>1, <2>2 DEF Cells, Width
<1>4. n \in 1..RingSize /\ n \in 1..5 /\ Place(n) = (offset + copied) % RingSize
    BY <1>1, <1>2 DEF Place
<1> HIDE DEF e
<1>5. TypeOK'
    <2>1. ring' \in [0..RingSize - 1 -> Cells \cup {NUL}]
        BY <1>1, <1>2, <1>3
    <2>2. copied' \in 0..Width
        BY <1>1, <1>4 DEF Width
    <2> QED BY <1>0, <1>1, <2>1, <2>2 DEF TypeOK
<1>6. ASSUME NEW i \in 1..RingSize
      PROVE  At(i)' = IF i = n THEN [field |-> n, entry |-> e] ELSE At(i)
    <2>1. Place(i) \in 0..RingSize - 1 /\ Place(n) \in 0..RingSize - 1
        BY <1>2, <1>4, PlaceIs
    <2>2. i # n => Place(i) # Place(n)
        <3>1. \A j \in {i, n} : Place(j) = IF offset + j - 1 < RingSize THEN offset + j - 1
                                         ELSE offset + j - 1 - RingSize
            BY <1>2, <1>4, PlaceIs
        <3>2. /\ Place(i) \in {offset + i - 1, offset + i - 1 - RingSize}
              /\ Place(n) \in {offset + n - 1, offset + n - 1 - RingSize}
            BY <3>1
        <3>3. i \in 1..RingSize /\ n \in 1..RingSize /\ RingSize \in Nat /\ offset \in Nat
            BY <1>2, <1>4
        <3> QED BY <3>2, <3>3
    <2>3. At(i)' = ring'[Place(i)]
        BY <1>1 DEF At, Place
    <2> QED BY <1>1, <1>2, <1>4, <2>1, <2>2, <2>3 DEF At
<1>7. PICK k \in 0..5 : TornUpTo(k)
    BY <1>0 DEF RingOK
<1>8. PICK m \in 0..5 : m >= k /\ m >= n /\ copied <= k /\ (m = k \/ m = n)
    <2>1. copied <= k /\ n \in 0..5
        BY <1>2, <1>4, <1>7 DEF TornUpTo
    <2>2. CASE k >= n
        BY <2>1, <2>2
    <2>3. CASE ~(k >= n)
        BY <1>2, <2>1, <2>3
    <2> QED BY <2>2, <2>3
<1>9. \A p, f : Pos(p, f)' = Pos(p, f)
    BY <1>1 DEF Pos
<1>10. Len(written) \in Nat
    BY <1>0 DEF TypeOK
<1>11. TornUpTo(m)'
    <2>1. \A i \in 1..m : /\ At(i)' \in Cells /\ At(i)'.field = i
                          /\ At(i)'.entry \in torn \cup {e}
        <3> TAKE i \in 1..m
        <3>1. i \in 1..RingSize
            BY <1>2, <1>8
        <3>2. CASE i = n
            BY <1>3, <1>6, <3>1, <3>2
        <3>3. CASE i # n
            <4>1. i \in 1..k
                BY <1>2, <1>8, <3>3
            <4> QED BY <1>3, <1>6, <1>7, <3>1, <3>3, <4>1 DEF TornUpTo
        <3> QED BY <3>2, <3>3
    <2>2. \A i \in 1..n : At(i)' = [field |-> i, entry |-> e]
        <3> TAKE i \in 1..n
        <3>1. i \in 1..RingSize /\ (i # n => i \in 1..copied)
            BY <1>2, <1>4
        <3> QED BY <1>6, <1>7, <3>1 DEF TornUpTo, e
    <2>3. \A p \in 1..Len(written), f \in 1..5 :
             Pos(p, f) > m => At(Pos(p, f))' = [field |-> f, entry |-> written[p]]
        <3> TAKE p \in 1..Len(written), f \in 1..5
        <3> SUFFICES ASSUME Pos(p, f) > m PROVE At(Pos(p, f))' = [field |-> f, entry |-> written[p]]
            OBVIOUS
        <3>1. Pos(p, f) \in 1..RingSize /\ Pos(p, f) > k /\ Pos(p, f) # n
            BY <1>2, <1>4, <1>8, <1>10 DEF Pos
        <3>2. At(Pos(p, f)) = [field |-> f, entry |-> written[p]]
            BY <1>7, <3>1 DEF TornUpTo
        <3>3. \A i \in 1..RingSize : i # n => At(i)' = At(i)
            BY <1>6
        <3>4. At(Pos(p, f))' = ring'[(offset' + Pos(p, f)' - 1) % RingSize]
            BY DEF At, Place
        <3>5. At(Pos(p, f))' = ring'[(offset + Pos(p, f) - 1) % RingSize]
            BY <1>1, <1>9, <3>4
        <3>6. \A i : At(i)' = ring'[(offset + i - 1) % RingSize]
            BY <1>1 DEF At, Place
        <3> QED BY <3>1, <3>2, <3>3, <3>5, <3>6
    <2>4. \A i \in m + 1..RingSize : i <= RingSize - 5 * Len(written) => At(i)' = NUL
        <3> TAKE i \in m + 1..RingSize
        <3>1. i \in 1..RingSize /\ i # n /\ i \in k + 1..RingSize
            BY <1>2, <1>4, <1>8
        <3> QED BY <1>6, <1>7, <3>1 DEF TornUpTo
    <2>5. copied' <= m /\ torn' = torn /\ ToSet(writing)' = {e} /\ Len(written)' = Len(written)
          /\ writing'[1] = e /\ copied' = n /\ written' = written
        BY <1>1, <1>3, <1>8 DEF e
    <2>6. \A p \in 1..Len(written), f \in 1..5 :
             Pos(p, f)' > m => At(Pos(p, f))' = [field |-> f, entry |-> written[p]]
        BY <1>9, <2>3
    <2> QED BY <2>1, <2>2, <2>4, <2>5, <2>6 DEF TornUpTo
<1>12. RingOK'
    BY <1>8, <1>11 DEF RingOK
<1>13. EntriesOK'
    BY <1>0, <1>1 DEF EntriesOK
<1> QED BY <1>5, <1>12, <1>13 DEF JournalInv

(* The line is whole: the header moves behind it, and nothing is torn.     *)
LEMMA MoveInv == JournalInv /\ MoveOffset => JournalInv'
<1> SUFFICES ASSUME JournalInv, MoveOffset PROVE JournalInv'
    OBVIOUS
<1>0. TypeOK /\ RingOK /\ EntriesOK
    BY DEF JournalInv
<1> DEFINE e == writing[1]
           W == Len(written)
           R == RingSize
<1>1. /\ writing # <<>> /\ copied = 5 /\ offset' = (offset + 5) % R
      /\ written' = Append(written, e) /\ torn' = {} /\ writing' = <<>> /\ copied' = 0
      /\ ring' = ring /\ begun' = begun /\ live' = live /\ up' = up /\ found' = found
    BY DEF MoveOffset, Behind, Width
<1>2. R \in Nat /\ R >= 5 /\ offset \in 0..R - 1 /\ written \in Seq(Entries) /\ W \in Nat
    BY <1>0, JournalAssumption DEF Width, TypeOK
<1>3. e \in Entries /\ ToSet(writing) = {e}
    BY <1>0, <1>1, WritingIs
<1>4. /\ written' \in Seq(Entries) /\ Len(written') = W + 1 /\ written'[W + 1] = e
      /\ \A p \in 1..W : written'[p] = written[p]
      /\ ToSet(written') = ToSet(written) \cup {e} /\ ToSet(writing') = {}
    <2>1. ToSet(Append(written, e)) = ToSet(written) \cup {e}
        BY <1>2, <1>3, ToSetAppend
    <2>2. ToSet(<<>>) = {}
        BY DEF ToSet
    <2> HIDE DEF e
    <2> QED BY <1>1, <1>2, <1>3, <2>1, <2>2
<1> HIDE DEF e, W
<1>5. offset' \in 0..R - 1 /\ offset' = IF offset + 5 < R THEN offset + 5 ELSE offset + 5 - R
    <2>1. CASE R = 5
        <3>1. (offset + 5) % R = offset
            <4>1. offset \in 0..4 /\ (offset + 5) % 5 = offset
                BY <1>2, <2>1
            <4> QED BY <2>1, <4>1
        <3> QED BY <1>1, <1>2, <2>1, <3>1
    <2>2. CASE R > 5
        <3>1. 6 \in 1..R /\ offset + 6 - 1 = offset + 5
            BY <1>2, <2>2
        <3>2. /\ (offset + 6 - 1) % R = IF offset + 6 - 1 < R THEN offset + 6 - 1 ELSE offset + 6 - 1 - R
              /\ (offset + 6 - 1) % R \in 0..R - 1
            BY <1>2, <3>1, RotationIs
        <3> QED BY <1>1, <3>1, <3>2
    <2> QED BY <1>2, <2>1, <2>2
<1>6. TypeOK'
    <2>1. copied' \in 0..Width
        BY <1>1 DEF Width
    <2> QED BY <1>0, <1>1, <1>4, <1>5, <2>1 DEF TypeOK
<1>7. ASSUME NEW i \in 1..R
      PROVE  At(i)' = IF i + 5 <= R THEN At(i + 5) ELSE At(i + 5 - R)
    <2>1. At(i)' = ring[(offset' + i - 1) % R]
        BY <1>1 DEF At, Place
    <2>2. (offset' + i - 1) % R = IF offset' + i - 1 < R THEN offset' + i - 1 ELSE offset' + i - 1 - R
        BY <1>5, RotationIs
    <2>3. CASE i + 5 <= R
        <3>1. i + 5 \in 1..R
            BY <1>2, <2>3
        <3>2. Place(i + 5) = IF offset + (i + 5) - 1 < R THEN offset + (i + 5) - 1 ELSE offset + (i + 5) - 1 - R
            BY <1>2, <3>1, PlaceIs
        <3>3. (offset' + i - 1) % R = Place(i + 5)
            BY <1>2, <1>5, <2>2, <2>3, <3>2
        <3> QED BY <2>1, <2>3, <3>3 DEF At
    <2>4. CASE ~(i + 5 <= R)
        <3>1. i + 5 - R \in 1..R
            BY <1>2, <2>4
        <3>2. Place(i + 5 - R) = IF offset + (i + 5 - R) - 1 < R THEN offset + (i + 5 - R) - 1
                                 ELSE offset + (i + 5 - R) - 1 - R
            BY <1>2, <3>1, PlaceIs
        <3>3. (offset' + i - 1) % R = Place(i + 5 - R)
            BY <1>2, <1>5, <2>2, <2>4, <3>2
        <3> QED BY <2>1, <2>4, <3>3 DEF At
    <2> QED BY <2>3, <2>4
<1>8. PICK k \in 0..5 : TornUpTo(k)
    BY <1>0 DEF RingOK
<1>9. /\ \A i \in 1..5 : At(i) = [field |-> i, entry |-> e]
      /\ \A p \in 1..W, f \in 1..5 : Pos(p, f) > 5 => At(Pos(p, f)) = [field |-> f, entry |-> written[p]]
      /\ \A i \in 6..R : i <= R - 5 * W => At(i) = NUL
    <2>1. k = 5
        BY <1>1, <1>8 DEF TornUpTo
    <2> QED BY <1>1, <1>8, <2>1 DEF TornUpTo, e, W
<1>10. \A p, f \in Int : Pos(p, f) = R - 5 * (W - p) - 5 + f /\ Pos(p, f)' = R - 5 * (W + 1 - p) - 5 + f
    BY <1>4 DEF Pos, W
<1>11. ASSUME NEW p \in 1..W + 1, NEW f \in 1..5, NEW i, i = R - 5 * (W + 1 - p) - 5 + f, i > 0
       PROVE  At(i)' = [field |-> f, entry |-> written'[p]]
    <2>1. i \in 1..R
        BY <1>2, <1>11
    <2>2. CASE p = W + 1
        <3>1. i = R - 5 + f
            BY <1>2, <1>11, <2>2
        <3>2. CASE i + 5 <= R
            BY <1>2, <3>1, <3>2
        <3>3. CASE ~(i + 5 <= R)
            <4>1. i + 5 - R = f
                BY <1>2, <3>1
            <4>2. At(i)' = At(f)
                BY <1>7, <2>1, <3>3, <4>1
            <4> QED BY <1>4, <1>9, <2>2, <4>2
        <3> QED BY <3>2, <3>3
    <2>3. CASE p # W + 1
        <3>1. p \in 1..W /\ i + 5 = Pos(p, f) /\ Pos(p, f) > 5 /\ i + 5 <= R
            <4>1. p \in 1..W /\ p \in Int /\ f \in Int
                BY <1>2, <2>3
            <4>2. Pos(p, f) = R - 5 * (W - p) - 5 + f
                BY <1>10, <4>1
            <4> QED BY <1>2, <1>11, <2>1, <4>1, <4>2
        <3>2. At(i)' = At(i + 5)
            BY <1>7, <2>1, <3>1
        <3> QED BY <1>4, <1>9, <3>1, <3>2
    <2> QED BY <2>2, <2>3
<1>12. ASSUME NEW i \in 1..R, i <= R - 5 * (W + 1) PROVE At(i)' = NUL
    <2>1. i + 5 \in 6..R /\ i + 5 <= R - 5 * W /\ i + 5 <= R
        BY <1>2, <1>12
    <2>2. At(i)' = At(i + 5)
        BY <1>7, <2>1
    <2> QED BY <1>9, <2>1, <2>2
<1>13. TornUpTo(0)'
    <2>1. ASSUME NEW p \in 1..Len(written'), NEW f \in 1..5, Pos(p, f)' > 0
          PROVE  At(Pos(p, f))' = [field |-> f, entry |-> written'[p]]
        <3>1. p \in 1..W + 1 /\ Pos(p, f)' = R - 5 * (W + 1 - p) - 5 + f
            BY <1>4, <1>10
        <3>2. \A i : i = Pos(p, f)' => At(i)' = [field |-> f, entry |-> written'[p]]
            BY <1>11, <2>1, <3>1
        <3>3. At(Pos(p, f))' = ring'[(offset' + Pos(p, f)' - 1) % RingSize]
              /\ \A i : At(i)' = ring'[(offset' + i - 1) % RingSize]
            BY DEF At, Place
        <3> QED BY <3>2, <3>3
    <2>2. \A i \in 0 + 1..R : i <= R - 5 * Len(written') => At(i)' = NUL
        BY <1>4, <1>12
    <2> QED BY <1>1, <2>1, <2>2 DEF TornUpTo
<1>14. RingOK'
    <2>1. 0 \in 0..5
        OBVIOUS
    <2> QED BY <1>13, <2>1 DEF RingOK
<1>15. EntriesOK'
    <2>1. \A x \in ToSet(written) \cup torn \cup {e} : x.id \in begun
        BY <1>0, <1>3 DEF EntriesOK
    <2>2. \A x \in ToSet(written) : ~e.completed => x.id # e.id
        BY <1>0, <1>3 DEF EntriesOK
    <2>3. ASSUME NEW p \in 1..W + 1, NEW q \in 1..W + 1, written'[p].id = written'[q].id,
                 ~written'[p].completed, written'[q].completed
          PROVE  p < q
        <3>1. CASE p \in 1..W /\ q \in 1..W
            BY <1>0, <1>4, <2>3, <3>1 DEF EntriesOK, W
        <3>2. CASE p = W + 1 /\ q \in 1..W
            <4>1. written[q] \in ToSet(written)
                BY <1>2, <3>2, ToSetElements DEF W
            <4> QED BY <1>4, <2>2, <2>3, <3>2, <4>1
        <3>3. CASE q = W + 1
            BY <1>2, <1>4, <2>3, <3>3
        <3> QED BY <1>2, <3>1, <3>2, <3>3
    <2> QED BY <1>0, <1>1, <1>4, <2>1, <2>3 DEF EntriesOK
<1> QED BY <1>6, <1>14, <1>15 DEF JournalInv

(* A crash tears the line, and a restart only reads.                       *)
LEMMA CrashInv ==
    ASSUME JournalInv, Crash \/ Reopen \/ UNCHANGED vars, (found \subseteq Ids \X Ids)'
    PROVE  JournalInv'
<1>0. TypeOK /\ RingOK /\ EntriesOK
    BY DEF JournalInv
<1>1. /\ ring' = ring /\ offset' = offset /\ begun' = begun /\ written' = written
      /\ \/ torn' = torn \cup ToSet(writing) /\ writing' = <<>> /\ copied' = 0 /\ live' = {} /\ up' = FALSE
         \/ torn' = torn /\ writing' = writing /\ copied' = copied /\ live' = live /\ up' \in BOOLEAN /\ (up' = up \/ ~up)
    BY <1>0 DEF Crash, Reopen, vars, TypeOK
<1>2. ToSet(<<>>) = {}
    BY DEF ToSet
<1>3. ToSet(writing) \subseteq Entries
    <2>1. writing = <<>> \/ writing # <<>>
        OBVIOUS
    <2> QED BY <1>0, <1>2, <2>1, WritingIs
<1>4. TypeOK'
    <2>1. torn' \subseteq Entries
        BY <1>0, <1>1, <1>3 DEF TypeOK
    <2>2. writing' \in {<<>>} \cup {<<e>> : e \in Entries}
        BY <1>0, <1>1 DEF TypeOK
    <2>3. copied' \in 0..Width /\ up' \in BOOLEAN
        <3>1. copied \in 0..5 /\ up \in BOOLEAN
            BY <1>0 DEF TypeOK, Width
        <3>2. copied' \in {0, copied}
            BY <1>1
        <3>3. up' \in BOOLEAN
            BY <1>1, Zenon
        <3> QED BY <3>1, <3>2, <3>3 DEF Width
    <2>4. live' \subseteq begun' /\ begun' \subseteq Ids
        BY <1>0, <1>1 DEF TypeOK
    <2> QED BY <1>0, <1>1, <2>1, <2>2, <2>3, <2>4 DEF TypeOK
<1>5. PICK k \in 0..5 : TornUpTo(k)
    BY <1>0 DEF RingOK
<1>6. /\ \A i : At(i)' = At(i)
      /\ \A p, f : Pos(p, f)' = Pos(p, f) /\ At(Pos(p, f))' = At(Pos(p, f))
    BY <1>1 DEF At, Place, Pos
<1>7. /\ torn' \cup ToSet(writing') = torn \cup ToSet(writing)
      /\ copied' <= k /\ \A i \in 1..copied' : i \in 1..copied /\ writing' = writing
    <2>1. copied <= k /\ copied \in Nat /\ k \in Nat
        BY <1>0, <1>5 DEF TornUpTo, TypeOK, Width
    <2> QED BY <1>1, <1>2, <2>1
<1>8. TornUpTo(k)'
    BY <1>1, <1>5, <1>6, <1>7 DEF TornUpTo
<1>9. RingOK'
    BY <1>8 DEF RingOK
<1>10. EntriesOK'
    BY <1>0, <1>1, <1>2 DEF EntriesOK
<1> QED BY <1>4, <1>9, <1>10 DEF JournalInv

-----------------------------------------------------------------------------
(* What is read from the ring: all from the first cell that is not NUL.    *)
LEMMA ContentsAre ==
    ASSUME TypeOK, NEW k \in 0..5, TornUpTo(k), written # <<>>
    PROVE  \E t \in 1..RingSize :
             /\ \A i \in 1..t - 1 : At(i) = NUL
             /\ Contents \in Seq(Cells \cup {NUL}) /\ Len(Contents) = RingSize - t + 1
             /\ \A j \in 1..RingSize - t + 1 : Contents[j] = At(t - 1 + j)
<1> DEFINE R == RingSize
           s == [i \in 1..R |-> ring[(offset + i - 1) % R]]
           I == {i \in DOMAIN s : s[i] # NUL}
<1>1. R \in Nat /\ R >= 5 /\ offset \in 0..R - 1 /\ Len(written) \in Nat /\ Len(written) >= 1
      /\ written \in Seq(Entries)
    BY JournalAssumption DEF Width, TypeOK
<1>2. \A i \in 1..R : s[i] = At(i) /\ At(i) \in Cells \cup {NUL}
    <2> TAKE i \in 1..R
    <2>1. Place(i) \in 0..R - 1
        BY <1>1, PlaceIs
    <2> QED BY <2>1 DEF At, Place, TypeOK
<1>3. s \in Seq(Cells \cup {NUL}) /\ Len(s) = R /\ DOMAIN s = 1..R
    <2> DEFINE X == Cells \cup {NUL}
    <2>1. \A i \in 1..R : s[i] \in X
        BY <1>2
    <2>2. DOMAIN s = 1..R /\ s = [i \in 1..R |-> s[i]]
        OBVIOUS
    <2> HIDE DEF s, X
    <2>3. s \in Seq(X) /\ Len(s) = R
        BY <1>1, <2>1, <2>2
    <2> QED BY <2>2, <2>3 DEF X
<1>4. Contents = Trimmed(s)
    BY DEF Contents
<1>5. R \in I
    <2>1. At(R).field # 0
        <3>1. CASE R \in 1..k
            BY <1>1, <3>1 DEF TornUpTo
        <3>2. CASE R \notin 1..k
            <4>1. Pos(Len(written), 5) = R
                BY <1>1 DEF Pos
            <4>2. Len(written) \in 1..Len(written) /\ 5 \in 1..5 /\ R > k
                BY <1>1, <3>2
            <4>3. At(R) = [field |-> 5, entry |-> written[Len(written)]]
                BY <4>1, <4>2 DEF TornUpTo
            <4> QED BY <4>3
        <3> QED BY <3>1, <3>2
    <2>2. R \in 1..R /\ s[R] = At(R)
        BY <1>1, <1>2
    <2>3. NUL.field = 0
        BY DEF NUL
    <2>4. At(R) # NUL
        BY <2>1, <2>3
    <2> HIDE DEF s
    <2> QED BY <1>3, <2>2, <2>4
<1>6. \A x \in I : x \in 1..R
    BY <1>3
<1> HIDE DEF I, s
<1>7. \E m \in I : \A x \in I : m <= x
    <2>1. I \in SUBSET (1..R) /\ I # {} /\ R \in Nat
        BY <1>1, <1>5, <1>6
    <2> HIDE DEF R
    <2> QED BY <2>1, LeastExists
<1> DEFINE t == CHOOSE i \in I : \A x \in I : i <= x
           l == CHOOSE i \in I : \A x \in I : i >= x
<1>8. t \in I /\ \A x \in I : t <= x
    BY <1>7, Zenon
<1>9. l = R
    <2>1. \A x \in I : R >= x
        BY <1>1, <1>6
    <2>2. l \in I /\ \A x \in I : l >= x
        BY <1>5, <2>1, Zenon
    <2> HIDE DEF l
    <2>3. l >= R /\ R >= l /\ l \in 1..R
        BY <1>5, <1>6, <2>1, <2>2
    <2> QED BY <1>1, <2>3
<1>10. Contents = SubSeq(s, t, l)
    <2>1. I # {}
        BY <1>5
    <2> QED BY <1>4, <2>1, Zenon DEF Trimmed, I
<1> HIDE DEF t, l
<1>11. t \in 1..R /\ t - 1 \in 0..R
    BY <1>1, <1>6, <1>8
<1>12. Contents = SubSeq(s, (t - 1) + 1, Len(s))
    BY <1>3, <1>9, <1>10, <1>11
<1>13. /\ Contents \in Seq(Cells \cup {NUL}) /\ Len(Contents) = R - (t - 1)
       /\ \A j \in 1..R - (t - 1) : Contents[j] = s[t - 1 + j]
    <2>1. t - 1 \in 0..Len(s)
        BY <1>3, <1>11
    <2> DEFINE m == t - 1
               X == Cells \cup {NUL}
    <2>2. s \in Seq(X) /\ m \in 0..Len(s) /\ Contents = SubSeq(s, m + 1, Len(s))
        BY <1>3, <1>12, <2>1
    <2> HIDE DEF m, X
    <2>3. /\ Contents \in Seq(X) /\ Len(Contents) = Len(s) - m
          /\ \A j \in 1..Len(s) - m : Contents[j] = s[m + j]
        BY <2>2, SuffixElements
    <2> QED BY <1>3, <2>3 DEF m, X
<1>14. \A j \in 1..R - t + 1 : Contents[j] = At(t - 1 + j)
    <2> TAKE j \in 1..R - t + 1
    <2>1. j \in 1..R - (t - 1) /\ t - 1 + j \in 1..R
        BY <1>1, <1>11
    <2> QED BY <1>2, <1>13, <2>1
<1>15. \A i \in 1..t - 1 : At(i) = NUL
    <2> TAKE i \in 1..t - 1
    <2>1. i \in 1..R /\ ~(t <= i)
        BY <1>1, <1>11
    <2>2. i \notin I
        BY <1>8, <2>1
    <2> QED BY <1>2, <1>3, <2>1, <2>2 DEF I
<1>16. Len(Contents) = R - t + 1
    BY <1>1, <1>11, <1>13
<1> QED BY <1>11, <1>13, <1>14, <1>15, <1>16

(* What is read are pairs of ids.                                          *)
LEMMA ReadType ==
    ASSUME TypeOK, NEW d
    PROVE  LinesWith(Contents, d) \subseteq Ids \X Ids
<1> DEFINE R == RingSize
           X == Cells \cup {NUL}
           s == [i \in 1..R |-> ring[(offset + i - 1) % R]]
           I == {i \in DOMAIN s : s[i] # NUL}
           t == CHOOSE i \in I : \A x \in I : i <= x
           l == CHOOSE i \in I : \A x \in I : i >= x
<1>1. R \in Nat /\ offset \in 0..R - 1
    BY JournalAssumption DEF TypeOK
<1>2. \A i \in 1..R : s[i] \in X
    <2> TAKE i \in 1..R
    <2>1. Place(i) \in 0..R - 1
        BY <1>1, PlaceIs
    <2> QED BY <2>1 DEF Place, TypeOK
<1>3. DOMAIN s = 1..R /\ s = [i \in 1..R |-> s[i]]
    OBVIOUS
<1> HIDE DEF s, X
<1>4. s \in Seq(X) /\ Len(s) = R
    BY <1>1, <1>2, <1>3
<1>5. Contents = IF I = {} THEN <<>> ELSE SubSeq(s, t, l)
    BY Zenon DEF Contents, Trimmed, s
<1>6. Contents \in Seq(X)
    <2>1. CASE I = {}
        BY <1>5, <2>1
    <2>2. CASE I # {}
        <3>1. I \in SUBSET (1..R)
            BY <1>3
        <3> HIDE DEF I
        <3>2. \E m \in I : \A x \in I : m <= x
            BY <1>1, <2>2, <3>1, LeastExists
        <3>3. \E m \in I : \A x \in I : m >= x
            <4>1. \E m \in I : \A x \in I : x <= m
                BY <1>1, <2>2, <3>1, GreatestExists
            <4>2. \A m, x \in I : x <= m => m >= x
                BY <3>1
            <4> QED BY <4>1, <4>2
        <3>4. t \in I /\ l \in I
            BY <3>2, <3>3, Zenon
        <3> HIDE DEF t, l
        <3>5. t \in 1..R /\ l \in 1..R
            BY <3>1, <3>4
        <3>6. \A i \in t..l : i \in 1..Len(s)
            BY <1>1, <1>4, <3>5
        <3>7. SubSeq(s, t, l) \in Seq(X)
            BY <1>1, <1>4, <3>5, <3>6
        <3> QED BY <1>5, <2>2, <3>7
    <2> QED BY <2>1, <2>2
<1> DEFINE c == Contents
<1>7. c \in Seq(X) /\ DOMAIN c = 1..Len(c) /\ Len(c) \in Nat
    BY <1>6
<1> HIDE DEF c
<1>8. \A j \in 1..Len(c), f \in 1..5 : c[j].field = f => c[j].entry.id \in Ids
    <2>1. NUL.field = 0
        BY DEF NUL
    <2>2. \A j \in 1..Len(c) : c[j] \in X
        BY <1>7, ElementsOf
    <2> QED BY <2>1, <2>2 DEF X, Cells, Entries
<1>9. ASSUME NEW i \in DOMAIN c, Parses(c, i) PROVE ParsedId(c, i) \in Ids \X Ids
    <2>1. i \in Nat /\ i >= 5 /\ i \in 1..Len(c) /\ c[i - 5 + 2].field = 2 /\ c[i - 5 + 3].field = 3
        BY <1>7, <1>9 DEF Parses, Width
    <2>2. i - 5 + 2 \in 1..Len(c) /\ i - 5 + 3 \in 1..Len(c)
        BY <1>7, <2>1
    <2>3. c[i - 5 + 2].entry.id \in Ids /\ c[i - 5 + 3].entry.id \in Ids
        BY <1>8, <2>1, <2>2
    <2>4. i - 5 + 2 = i - Flag + IdHigh /\ i - 5 + 3 = i - Flag + IdLow
        BY <2>1 DEF Flag, IdHigh, IdLow
    <2> QED BY <2>3, <2>4 DEF ParsedId
<1>10. LinesWith(c, d) \subseteq Ids \X Ids
    BY <1>9 DEF LinesWith
<1> QED BY <1>10 DEF c

(* The cells i - 4 to i hold the five fields of a line, in order, and the  *)
(* line before it has ended.                                               *)
IsLine(t, i) ==
    /\ i \in t + 4..RingSize
    /\ \A m \in 1..5 : At(i - 5 + m).field = m
    /\ i > t + 4 => At(i - 5).field = 5

LineAt(t, i, d, a, b) ==
    /\ IsLine(t, i) /\ At(i).entry.completed = d
    /\ At(i - 3).entry.id = a /\ At(i - 2).entry.id = b

(* What the reader makes of a suffix of the ring, line by line.            *)
LEMMA LinesRead ==
    ASSUME RingSize \in Nat, NEW t \in 1..RingSize, Len(Contents) = RingSize - t + 1,
           Contents \in Seq(Cells \cup {NUL}),
           \A j \in 1..RingSize - t + 1 : Contents[j] = At(t - 1 + j), NEW d, NEW a, NEW b
    PROVE  <<a, b>> \in LinesWith(Contents, d) <=>
             \E i \in t + 4..RingSize : LineAt(t, i, d, a, b)
<1> DEFINE s == Contents
           N == RingSize - t + 1
<1>1. DOMAIN s = 1..N /\ N \in Nat /\ \A j \in 1..N : s[j] = At(t - 1 + j)
    OBVIOUS
<1> HIDE DEF s
<1>2. ASSUME NEW j \in 5..N
      PROVE  /\ t - 1 + j \in t + 4..RingSize
             /\ Parses(s, j) <=> IsLine(t, t - 1 + j)
             /\ ParsedId(s, j) = <<At(t - 1 + j - 3).entry.id, At(t - 1 + j - 2).entry.id>>
             /\ s[j] = At(t - 1 + j)
    <2> DEFINE i == t - 1 + j
    <2>1. i \in t + 4..RingSize /\ i \in Int /\ j \in Int /\ t \in Int
        OBVIOUS
    <2>2. \A m \in 1..5 : j - 5 + m \in 1..N /\ t - 1 + (j - 5 + m) = i - 5 + m
        OBVIOUS
    <2>3. \A m \in 1..5 : s[j - 5 + m] = At(i - 5 + m)
        <3> TAKE m \in 1..5
        <3>1. j - 5 + m \in 1..N /\ t - 1 + (j - 5 + m) = i - 5 + m
            BY <2>2
        <3>2. s[j - 5 + m] = At(t - 1 + (j - 5 + m))
            BY <1>1, <3>1
        <3> QED BY <3>1, <3>2
    <2>4. ASSUME j > 5 PROVE s[j - 5] = At(i - 5)
        <3>1. j - 5 \in 1..N /\ t - 1 + (j - 5) = i - 5
            BY <2>4
        <3>2. s[j - 5] = At(t - 1 + (j - 5))
            BY <1>1, <3>1
        <3> QED BY <3>1, <3>2
    <2>5. j > 5 <=> i > t + 4
        OBVIOUS
    <2>6. Parses(s, j) <=> IsLine(t, i)
        <3>1. Parses(s, j) <=> (\A m \in 1..5 : s[j - 5 + m].field = m) /\ (j > 5 => s[j - 5].field = 5)
            BY DEF Parses, Width, Flag
        <3>2. IsLine(t, i) <=> (\A m \in 1..5 : At(i - 5 + m).field = m) /\ (i > t + 4 => At(i - 5).field = 5)
            BY <2>1 DEF IsLine
        <3>3. (\A m \in 1..5 : s[j - 5 + m].field = m) <=> (\A m \in 1..5 : At(i - 5 + m).field = m)
            BY <2>3
        <3>4. (j > 5 => s[j - 5].field = 5) <=> (i > t + 4 => At(i - 5).field = 5)
            BY <2>4, <2>5
        <3> HIDE DEF i
        <3> QED BY <3>1, <3>2, <3>3, <3>4
    <2>7. ParsedId(s, j) = <<At(i - 3).entry.id, At(i - 2).entry.id>>
        <3>1. j - 5 + 2 = j - 3 /\ i - 5 + 2 = i - 3 /\ j - 5 + 3 = j - 2 /\ i - 5 + 3 = i - 2
            OBVIOUS
        <3>2. s[j - 3] = At(i - 3) /\ s[j - 2] = At(i - 2)
            <4>1. s[j - 5 + 2] = At(i - 5 + 2) /\ s[j - 5 + 3] = At(i - 5 + 3)
                BY <2>3
            <4> QED BY <3>1, <4>1
        <3>3. j - Flag + IdHigh = j - 3 /\ j - Flag + IdLow = j - 2
            BY DEF Flag, IdHigh, IdLow
        <3> HIDE DEF i
        <3> QED BY <3>2, <3>3 DEF ParsedId
    <2>8. s[j] = At(i)
        BY <1>1
    <2> QED BY <2>1, <2>6, <2>7, <2>8
<1>3. ASSUME NEW j \in DOMAIN s, Parses(s, j) PROVE j \in 5..N
    BY <1>1, <1>3 DEF Parses, Width
<1>4. <<a, b>> \in LinesWith(s, d) <=>
        \E j \in 5..N : Parses(s, j) /\ s[j].entry.completed = d /\ ParsedId(s, j) = <<a, b>>
    <2>1. \A j \in 5..N : j \in DOMAIN s
        BY <1>1
    <2> QED BY <1>3, <2>1 DEF LinesWith
<1>5. ASSUME NEW i \in t + 4..RingSize PROVE i - t + 1 \in 5..N /\ t - 1 + (i - t + 1) = i
    OBVIOUS
<1> HIDE DEF N
<1>6. ASSUME NEW i \in t + 4..RingSize, IsLine(t, i), At(i).entry.completed = d,
             At(i - 3).entry.id = a, At(i - 2).entry.id = b
      PROVE  \E j \in 5..N : Parses(s, j) /\ s[j].entry.completed = d /\ ParsedId(s, j) = <<a, b>>
    <2> DEFINE j == i - t + 1
    <2>1. j \in 5..N /\ t - 1 + j = i
        BY <1>5
    <2> HIDE DEF j
    <2>2. /\ (Parses(s, j) <=> IsLine(t, i)) /\ s[j] = At(i)
          /\ ParsedId(s, j) = <<At(i - 3).entry.id, At(i - 2).entry.id>>
        <3> DEFINE l == t - 1 + j
        <3>1. /\ (Parses(s, j) <=> IsLine(t, l)) /\ s[j] = At(l)
              /\ ParsedId(s, j) = <<At(l - 3).entry.id, At(l - 2).entry.id>>
            BY <1>2, <2>1
        <3>2. l = i
            BY <2>1
        <3> HIDE DEF l
        <3> QED BY <3>1, <3>2
    <2>3. Parses(s, j) /\ s[j].entry.completed = d /\ ParsedId(s, j) = <<a, b>>
        BY <1>6, <2>2
    <2> QED BY <2>1, <2>3
<1>7. ASSUME NEW j \in 5..N, Parses(s, j), s[j].entry.completed = d, ParsedId(s, j) = <<a, b>>
      PROVE  \E i \in t + 4..RingSize :
               /\ IsLine(t, i) /\ At(i).entry.completed = d
               /\ At(i - 3).entry.id = a /\ At(i - 2).entry.id = b
    <2> DEFINE i == t - 1 + j
    <2>1. /\ i \in t + 4..RingSize /\ (Parses(s, j) <=> IsLine(t, i)) /\ s[j] = At(i)
          /\ ParsedId(s, j) = <<At(i - 3).entry.id, At(i - 2).entry.id>>
        BY <1>2
    <2> HIDE DEF i
    <2>2. At(i - 3).entry.id = a /\ At(i - 2).entry.id = b
        BY <1>7, <2>1
    <2> QED BY <1>7, <2>1, <2>2
<1> QED BY <1>4, <1>6, <1>7 DEF s, LineAt

(* A cell behind the tear is of the history, or of a ring not yet full.    *)
LEMMA CleanCell ==
    ASSUME TypeOK, NEW k \in 0..5, TornUpTo(k), NEW i \in k + 1..RingSize,
           NEW f \in 1..5, At(i).field = f
    PROVE  \E p \in 1..Len(written) :
             i = Pos(p, f) /\ At(i) = [field |-> f, entry |-> written[p]]
<1>1. RingSize \in Nat /\ RingSize >= 5 /\ Len(written) \in Nat
    BY JournalAssumption DEF Width, TypeOK
<1>2. i > RingSize - 5 * Len(written)
    <2>1. NUL.field = 0 /\ f # 0
        BY DEF NUL
    <2> QED BY <1>1, <2>1 DEF TornUpTo
<1>3. PICK p \in 1..Len(written), g \in 1..5 : i = Pos(p, g)
    <2> DEFINE x == RingSize - i
               q == x \div 5
               y == x % 5
    <2>1. x \in 0..5 * Len(written) - 1
        BY <1>1, <1>2
    <2>2. x = 5 * q + y /\ y \in 0..4 /\ q \in 0..Len(written) - 1
        <3> HIDE DEF x
        <3> QED BY <1>1, <2>1
    <2>3. i = RingSize - x
        BY <1>1
    <2> HIDE DEF q, y, x
    <2>4. /\ Len(written) - q \in 1..Len(written) /\ 5 - y \in 1..5
          /\ i = RingSize - 5 * (Len(written) - (Len(written) - q)) + (5 - y) - 5
        BY <1>1, <2>2, <2>3
    <2>5. i = Pos(Len(written) - q, 5 - y)
        BY <1>1, <2>2, <2>4 DEF Pos
    <2> QED BY <2>4, <2>5
<1>4. Pos(p, g) > k
    BY <1>3
<1>5. At(i) = [field |-> g, entry |-> written[p]]
    BY <1>3, <1>4 DEF TornUpTo
<1>6. g = f
    BY <1>5
<1> QED BY <1>3, <1>5, <1>6

(* A line that is read is one of the history, but for the first of a ring  *)
(* that was torn, whose id is then of the torn entry.                      *)
LEMMA LineIsOfHistory ==
    ASSUME TypeOK, NEW k \in 0..5, TornUpTo(k), writing = <<>>, NEW t \in 1..RingSize,
           NEW i \in t + 4..RingSize, IsLine(t, i)
    PROVE  \/ \E p \in 1..Len(written) :
                /\ i = Pos(p, 5)
                /\ At(i).entry = written[p] /\ At(i - 3).entry = written[p]
                /\ At(i - 2).entry = written[p]
           \/ At(i - 3).entry \in torn
<1>1. RingSize \in Nat /\ RingSize >= 5 /\ Len(written) \in Nat /\ i \in Nat /\ i >= 5 /\ k \in Nat
    BY JournalAssumption DEF Width, TypeOK
<1>2. \A m \in 1..5 : At(i - 5 + m).field = m
    BY DEF IsLine
<1>3. i - 5 + 2 = i - 3 /\ i - 5 + 3 = i - 2 /\ i - 5 + 5 = i
    BY <1>1
<1>4. At(i - 3).field = 2 /\ At(i - 2).field = 3 /\ At(i).field = 5
    <2>1. At(i - 5 + 2).field = 2 /\ At(i - 5 + 3).field = 3 /\ At(i - 5 + 5).field = 5
        BY <1>2
    <2> QED BY <1>3, <2>1
<1>5. ToSet(writing) = {}
    BY DEF ToSet
<1>6. CASE i - 3 <= k
    <2>1. i - 3 \in 1..k
        BY <1>1, <1>6
    <2> QED BY <1>5, <2>1 DEF TornUpTo
<1>7. CASE i - 3 > k
    <2>1. i - 3 \in k + 1..RingSize /\ i - 2 \in k + 1..RingSize /\ i \in k + 1..RingSize
        BY <1>1, <1>7
    <2>2. PICK p \in 1..Len(written) : i = Pos(p, 5) /\ At(i) = [field |-> 5, entry |-> written[p]]
        BY <1>4, <2>1, CleanCell
    <2>3. Pos(p, 2) = i - 3 /\ Pos(p, 3) = i - 2
        BY <1>1, <2>2 DEF Pos
    <2>4. /\ At(Pos(p, 2)) = [field |-> 2, entry |-> written[p]]
          /\ At(Pos(p, 3)) = [field |-> 3, entry |-> written[p]]
        BY <2>1, <2>3 DEF TornUpTo
    <2>5. At(i - 3).entry = written[p] /\ At(i - 2).entry = written[p] /\ At(i).entry = written[p]
        BY <2>2, <2>3, <2>4
    <2> QED BY <2>2, <2>5
<1> QED BY <1>1, <1>6, <1>7

(* A line of the history that a tear does not reach is read.               *)
LEMMA HistoryIsRead ==
    ASSUME TypeOK, NEW k \in 0..5, TornUpTo(k), NEW t \in 1..RingSize,
           \A j \in 1..t - 1 : At(j) = NUL,
           NEW p \in 1..Len(written), NEW i, i = Pos(p, 5), i >= 10, At(i - 5).field = 5
    PROVE  /\ i \in t + 4..RingSize /\ IsLine(t, i) /\ At(i).entry = written[p]
           /\ At(i - 3).entry = written[p] /\ At(i - 2).entry = written[p]
<1>1. RingSize \in Nat /\ Len(written) \in Nat /\ i \in Nat /\ k \in Nat
    BY JournalAssumption DEF TypeOK, Pos
<1>2. \A f \in 1..5 : Pos(p, f) = i - 5 + f /\ Pos(p, f) > k
    BY <1>1 DEF Pos
<1>3. \A f \in 1..5 : At(i - 5 + f) = [field |-> f, entry |-> written[p]]
    <2> TAKE f \in 1..5
    <2>1. At(Pos(p, f)) = [field |-> f, entry |-> written[p]]
        BY <1>2 DEF TornUpTo
    <2> QED BY <1>2, <2>1
<1>4. i - 5 + 1 = i - 4 /\ i - 5 + 2 = i - 3 /\ i - 5 + 3 = i - 2 /\ i - 5 + 5 = i
    BY <1>1
<1>5. /\ At(i - 5 + 1) = [field |-> 1, entry |-> written[p]]
      /\ At(i - 5 + 2) = [field |-> 2, entry |-> written[p]]
      /\ At(i - 5 + 3) = [field |-> 3, entry |-> written[p]]
      /\ At(i - 5 + 5) = [field |-> 5, entry |-> written[p]]
    BY <1>3
<1>6. /\ At(i - 4) = [field |-> 1, entry |-> written[p]]
      /\ At(i - 3).entry = written[p] /\ At(i - 2).entry = written[p] /\ At(i).entry = written[p]
    BY <1>4, <1>5
<1>7. t <= i - 4
    <2> SUFFICES ASSUME t > i - 4 PROVE FALSE
        BY <1>1
    <2>1. i - 4 \in 1..t - 1
        BY <1>1
    <2>2. At(i - 4) = NUL
        BY <2>1
    <2>3. NUL.field = 0 /\ At(i - 4).field = 1
        BY <1>6 DEF NUL
    <2> QED BY <2>2, <2>3
<1>8. i <= RingSize
    BY <1>1 DEF Pos
<1>9. i \in t + 4..RingSize
    BY <1>1, <1>7, <1>8
<1>10. IsLine(t, i)
    <2>1. \A m \in 1..5 : At(i - 5 + m).field = m
        BY <1>3
    <2> QED BY <1>9, <2>1 DEF IsLine
<1> QED BY <1>6, <1>9, <1>10

-----------------------------------------------------------------------------
(* What a restart reads is true of the history.                            *)
LEMMA ReportIsTrue ==
    ASSUME JournalInv, Restart, Reopen
    PROVE  NoFalseAccusation /\ RecentLossIsFound
<1>0. TypeOK /\ RingOK /\ EntriesOK /\ writing = <<>> /\ found' = ReadIncomplete
    BY DEF JournalInv, EntriesOK, Reopen
<1>1. PICK k \in 0..5 : TornUpTo(k)
    BY <1>0 DEF RingOK
<1>2. RingSize \in Nat /\ RingSize >= 5 /\ Len(written) \in Nat /\ written \in Seq(Entries)
      /\ torn \subseteq Entries /\ k \in Nat
    BY <1>0, JournalAssumption DEF Width, TypeOK
<1>3. /\ \A x \in ToSet(written) : written # <<>>
      /\ \A x \in ToSet(written) : \E p \in 1..Len(written) : x = written[p]
      /\ \A p \in 1..Len(written) : written[p] \in ToSet(written) /\ written[p] \in Entries
    <2>1. ToSet(<<>>) = {}
        BY DEF ToSet
    <2>2. \A p \in 1..Len(written) : written[p] \in Entries
        BY <1>2
    <2> QED BY <1>2, <2>1, <2>2, ToSetElements
<1>4. \A e \in Entries : e = [id |-> e.id, completed |-> e.completed] /\ e.completed \in BOOLEAN
    BY DEF Entries
<1>5. ASSUME NEW r \in Ids, NEW e \in Entries, e.id = r
      PROVE  (e.completed => e = Completion(r)) /\ (~e.completed => e = Start(r))
    BY <1>4, <1>5 DEF Completion, Start
<1>6. \A r : Start(r).id = r /\ ~Start(r).completed /\ Completion(r).id = r /\ Completion(r).completed
    BY DEF Completion, Start
<1>7. NoFalseAccusation
    <2> SUFFICES ASSUME NEW r \in Ids, Completion(r) \in ToSet(written), Start(r) \notin torn,
                        Completion(r) \notin torn, <<r, r>> \in LinesWith(Contents, FALSE)
                 PROVE  <<r, r>> \in LinesWith(Contents, TRUE)
        BY <1>0 DEF NoFalseAccusation, ReadIncomplete
    <2>1. PICK t \in 1..RingSize :
             /\ \A i \in 1..t - 1 : At(i) = NUL
             /\ Contents \in Seq(Cells \cup {NUL}) /\ Len(Contents) = RingSize - t + 1
             /\ \A j \in 1..RingSize - t + 1 : Contents[j] = At(t - 1 + j)
        BY <1>0, <1>1, <1>3, ContentsAre
    <2>2. \A d : <<r, r>> \in LinesWith(Contents, d) <=> \E i \in t + 4..RingSize : LineAt(t, i, d, r, r)
        BY <1>2, <2>1, LinesRead
    <2>3. PICK i \in t + 4..RingSize :
               /\ IsLine(t, i) /\ At(i).entry.completed = FALSE
               /\ At(i - 3).entry.id = r /\ At(i - 2).entry.id = r
        BY <2>2 DEF LineAt
    <2>4. At(i - 3).entry \notin torn
        <3> SUFFICES ASSUME At(i - 3).entry \in torn PROVE FALSE
            OBVIOUS
        <3>1. At(i - 3).entry \in Entries
            BY <1>2
        <3>2. At(i - 3).entry \in {Start(r), Completion(r)}
            BY <1>4, <1>5, <2>3, <3>1
        <3> QED BY <3>2
    <2>5. PICK p \in 1..Len(written) :
                i = Pos(p, 5) /\ At(i).entry = written[p] /\ At(i - 3).entry = written[p]
        BY <1>0, <1>1, <2>3, <2>4, LineIsOfHistory
    <2>6. PICK q \in 1..Len(written) : written[q] = Completion(r)
        BY <1>3
    <2>7. p < q
        <3>1. written[p].id = r /\ ~written[p].completed
            BY <2>3, <2>5
        <3> QED BY <1>0, <1>6, <2>6, <3>1 DEF EntriesOK
    <2> DEFINE l == Pos(q, 5)
    <2>8. l \in Int /\ l = i + 5 * (q - p) /\ l >= i + 5 /\ l >= 10 /\ l - 5 = Pos(q - 1, 5)
        <3> DEFINE n == Len(written)
        <3>1. i = RingSize - 5 * (n - p) - 5 + 5 /\ l = RingSize - 5 * (n - q) - 5 + 5
            BY <2>5 DEF Pos
        <3>2. Pos(q - 1, 5) = RingSize - 5 * (n - (q - 1)) - 5 + 5
            BY DEF Pos
        <3>3. n \in Nat /\ p \in 1..n /\ q \in 1..n /\ p < q /\ RingSize \in Nat /\ i >= 5
            BY <1>2, <2>7
        <3> HIDE DEF n, l
        <3>4. l \in Int /\ l = i + 5 * (q - p)
            BY <3>1, <3>3
        <3>5. l >= i + 5
            BY <3>3, <3>4
        <3>6. l - 5 = Pos(q - 1, 5)
            BY <3>1, <3>2, <3>3
        <3> QED BY <3>3, <3>4, <3>5, <3>6
    <2>9. At(l - 5).field = 5
        <3>1. CASE q - 1 = p
            <4>1. At(i - 5 + 5).field = 5
                BY <2>3 DEF IsLine
            <4>2. i - 5 + 5 = i
                OBVIOUS
            <4> QED BY <2>5, <2>8, <3>1, <4>1, <4>2
        <3>2. CASE q - 1 # p
            <4>1. q - 1 \in 1..Len(written) /\ Pos(q - 1, 5) > k
                <5>1. q - p >= 2 /\ q - 1 \in 1..Len(written)
                    BY <1>2, <2>7, <3>2
                <5>2. l - 5 >= 10
                    BY <2>8, <5>1
                <5> HIDE DEF l
                <5> QED BY <1>2, <2>8, <5>1, <5>2
            <4>2. At(Pos(q - 1, 5)) = [field |-> 5, entry |-> written[q - 1]]
                BY <1>1, <4>1 DEF TornUpTo
            <4> QED BY <2>8, <4>2
        <3> QED BY <3>1, <3>2
    <2> HIDE DEF l
    <2>10. /\ l \in t + 4..RingSize /\ IsLine(t, l) /\ At(l).entry = written[q]
           /\ At(l - 3).entry = written[q] /\ At(l - 2).entry = written[q]
        <3>1. l = Pos(q, 5)
            BY DEF l
        <3> QED BY <1>0, <1>1, <2>1, <2>8, <2>9, <3>1, HistoryIsRead
    <2>11. At(l).entry.completed = TRUE /\ At(l - 3).entry.id = r /\ At(l - 2).entry.id = r
        BY <2>6, <2>10 DEF Completion
    <2> QED BY <2>2, <2>10, <2>11 DEF LineAt
<1>8. RecentLossIsFound
    <2> SUFFICES ASSUME NEW r \in Ids, Lost(r), NEW p \in 1..Len(written), written[p] = Start(r), Safe(p)
                 PROVE  <<r, r>> \in found'
        <3>1. DOMAIN written = 1..Len(written)
            BY <1>2
        <3> QED BY <3>1 DEF RecentLossIsFound
    <2>1. PICK t \in 1..RingSize :
             /\ \A i \in 1..t - 1 : At(i) = NUL
             /\ Contents \in Seq(Cells \cup {NUL}) /\ Len(Contents) = RingSize - t + 1
             /\ \A j \in 1..RingSize - t + 1 : Contents[j] = At(t - 1 + j)
        BY <1>0, <1>1, <1>3, ContentsAre
    <2>2. \A d : <<r, r>> \in LinesWith(Contents, d) <=> \E i \in t + 4..RingSize : LineAt(t, i, d, r, r)
        BY <1>2, <2>1, LinesRead
    <2>3. /\ Completion(r) \notin ToSet(written) /\ Completion(r) \notin torn
          /\ Start(r) \in ToSet(written) /\ Start(r) \notin torn
        <3>1. Start(r) \in ToSet(written) /\ Completion(r) \notin ToSet(written) \cup torn
            BY DEF Lost
        <3>2. Start(r) \notin torn
            BY <1>0, <1>6, <3>1 DEF EntriesOK
        <3> QED BY <3>1, <3>2
    <2>4. <<r, r>> \notin LinesWith(Contents, TRUE)
        <3> SUFFICES ASSUME NEW i \in t + 4..RingSize, IsLine(t, i), At(i).entry.completed = TRUE,
                            At(i - 3).entry.id = r, At(i - 2).entry.id = r
                     PROVE  FALSE
            BY <2>2 DEF LineAt
        <3>1. CASE At(i - 3).entry \in torn
            <4>1. At(i - 3).entry \in Entries
                BY <1>2, <3>1
            <4>2. At(i - 3).entry \in {Start(r), Completion(r)}
                BY <1>4, <1>5, <4>1
            <4> QED BY <2>3, <3>1, <4>2
        <3>2. CASE At(i - 3).entry \notin torn
            <4>1. PICK q \in 1..Len(written) :
                    At(i).entry = written[q] /\ At(i - 3).entry = written[q]
                BY <1>0, <1>1, <3>2, LineIsOfHistory
            <4>2. written[q] = Completion(r) /\ written[q] \in ToSet(written)
                BY <1>3, <1>5, <4>1
            <4> QED BY <2>3, <4>2
        <3> QED BY <3>1, <3>2
    <2> DEFINE l == Pos(p, 5)
    <2>5. l \in Int /\ l >= 10 /\ l - 5 = Pos(p - 1, 5) /\ p - 1 \in 1..Len(written)
        BY <1>2 DEF Pos, Safe, Width
    <2>6. At(l - 5).field = 5
        <3>1. CASE l - 5 > k
            <4>1. At(Pos(p - 1, 5)) = [field |-> 5, entry |-> written[p - 1]]
                BY <1>1, <2>5, <3>1 DEF TornUpTo
            <4> QED BY <2>5, <4>1
        <3>2. CASE ~(l - 5 > k)
            <4>1. l - 5 = 5 /\ l - 5 \in 1..k
                BY <1>2, <2>5, <3>2
            <4> QED BY <1>1, <4>1 DEF TornUpTo
        <3> QED BY <3>1, <3>2
    <2> HIDE DEF l
    <2>7. /\ l \in t + 4..RingSize /\ IsLine(t, l) /\ At(l).entry = written[p]
          /\ At(l - 3).entry = written[p] /\ At(l - 2).entry = written[p]
        <3>1. l = Pos(p, 5)
            BY DEF l
        <3> QED BY <1>0, <1>1, <2>1, <2>5, <2>6, <3>1, HistoryIsRead
    <2>8. At(l).entry.completed = FALSE /\ At(l - 3).entry.id = r /\ At(l - 2).entry.id = r
        BY <2>7 DEF Start
    <2>9. <<r, r>> \in LinesWith(Contents, FALSE)
        BY <2>2, <2>7, <2>8 DEF LineAt
    <2> QED BY <1>0, <2>4, <2>9 DEF ReadIncomplete
<1> QED BY <1>7, <1>8

(* A step of the journal preserves the invariant.                          *)
LEMMA JournalStepInv == JournalInv /\ [Next]_vars => JournalInv'
<1> SUFFICES ASSUME JournalInv, [Next]_vars PROVE JournalInv'
    OBVIOUS
<1>0. TypeOK /\ EntriesOK
    BY DEF JournalInv
<1>1. ASSUME NEW r \in Ids, WriteStart(r) PROVE JournalInv'
    <2> DEFINE e == [id |-> r, completed |-> FALSE]
    <2>1. /\ Lock(e) /\ r \notin begun /\ begun' = begun \cup {r} /\ live' = live \cup {r}
        BY <1>1 DEF WriteStart
    <2>2. e \in Entries /\ e.id = r /\ ~e.completed
        BY DEF Entries
    <2> HIDE DEF e
    <2>3. begun' \in SUBSET Ids /\ begun \subseteq begun' /\ live' \subseteq begun' /\ e.id \in begun'
        BY <1>0, <2>1, <2>2 DEF TypeOK
    <2> QED BY <2>1, <2>2, <2>3, CopyLockInv
<1>2. ASSUME NEW r \in Ids, WriteCompletion(r) PROVE JournalInv'
    <2> DEFINE e == [id |-> r, completed |-> TRUE]
    <2>1. Lock(e) /\ r \in live /\ begun' = begun /\ live' = live
        BY <1>2 DEF WriteCompletion
    <2>2. e \in Entries /\ e.id = r /\ e.completed
        BY DEF Entries
    <2> HIDE DEF e
    <2>3. begun' \in SUBSET Ids /\ begun \subseteq begun' /\ live' \subseteq begun' /\ e.id \in begun'
        BY <1>0, <2>1, <2>2 DEF TypeOK
    <2> QED BY <2>1, <2>2, <2>3, CopyLockInv
<1>3. CASE CopyCell
    BY <1>3, CopyInv
<1>4. CASE MoveOffset
    BY <1>4, MoveInv
<1>5. CASE Crash \/ Reopen \/ UNCHANGED vars
    <2>1. (found \subseteq Ids \X Ids)'
        <3>1. CASE Reopen
            <4>1. found' = ReadIncomplete
                BY <3>1 DEF Reopen
            <4>2. ReadIncomplete \subseteq Ids \X Ids
                BY <1>0, ReadType DEF ReadIncomplete
            <4> QED BY <4>1, <4>2
        <3>2. CASE Crash \/ UNCHANGED vars
            BY <1>0, <3>2 DEF Crash, vars, TypeOK
        <3> QED BY <1>5, <3>1, <3>2
    <2> QED BY <1>5, <2>1, CrashInv
<1> QED BY <1>1, <1>2, <1>3, <1>4, <1>5 DEF Next

(* Whatever the size of the ring and wherever processes died: a restart    *)
(* accuses no request that was completed, and finds every loss of which    *)
(* the entry and one more line still fit.                                  *)
THEOREM RestartReports == Spec => []TypeOK /\ RestartReportIsTrue
<1>1. Init => JournalInv
    BY JournalInitInv
<1>2. JournalInv /\ [Next]_vars => JournalInv'
    BY JournalStepInv
<1>3. JournalInv /\ [Next]_vars => [Restart => NoFalseAccusation /\ RecentLossIsFound]_vars
    <2> SUFFICES ASSUME JournalInv, Next, Restart PROVE NoFalseAccusation /\ RecentLossIsFound
        BY DEF vars
    <2>1. ~up /\ up' /\ writing = <<>>
        BY DEF Restart, JournalInv, EntriesOK
    <2>2. Reopen
        BY <2>1 DEF Next, WriteStart, WriteCompletion, Lock, CopyCell, MoveOffset, Crash
    <2> QED BY <2>2, ReportIsTrue
<1>4. JournalInv => TypeOK
    BY DEF JournalInv
<1> QED BY <1>1, <1>2, <1>3, <1>4, PTL DEF Spec, RestartReportIsTrue

-----------------------------------------------------------------------------
(***************************************************************************)
(* The services together, whichever of them a behaviour is about.  Where   *)
(* the theorems above leave the type of a service out, it comes first.     *)
(***************************************************************************)

(* A start loads no more sessions than the configuration may ask for: the  *)
(* gateway has validated it, the library takes no more than the budget.    *)
LoadInv ==
    /\ StartTypeOK
    /\ embedded \in BOOLEAN
    /\ settings.pool \in Nat
    /\ starting \notin {"new", "refused"} => Valid
    /\ embedded => budget.pool = 1

LEMMA LoadInitInv == StartInit => LoadInv
<1> SUFFICES ASSUME StartInit PROVE LoadInv  OBVIOUS
<1>1. embedded \in BOOLEAN /\ settings.pool \in Nat
  BY MemoryAssumption DEF StartInit, Settings
<1>2. budget.pool = 1
  BY DEF StartInit, NoBudget, BudgetFor, GatewayBudget, Tier
<1>3. StartTypeOK  BY DEF StartInit, StartTypeOK
<1> QED  BY <1>1, <1>2, <1>3 DEF LoadInv, StartInit

(* Wanted: at most the 32 sessions that validate lets through.             *)
LEMMA WantedIsBounded ==
    ASSUME LoadInv, starting = "ner"
    PROVE  Wanted \in 0..32
<1>1. CASE embedded
  <2>1. Wanted = 1  BY <1>1 DEF LoadInv, Wanted
  <2> QED  BY <2>1
<1>2. CASE ~embedded
  <2>1. Wanted = settings.pool /\ (settings.pool \in 0..32 \/ settings.pool \in 1..32)
    BY <1>2 DEF LoadInv, Valid, Wanted
  <2> QED  BY <2>1
<1> QED  BY <1>1, <1>2

LEMMA LoadStepInv == LoadInv /\ [StartNext]_startVars => LoadInv'
<1> SUFFICES ASSUME LoadInv, [StartNext]_startVars PROVE LoadInv'  OBVIOUS
<1>1. CASE UNCHANGED startVars
  BY <1>1 DEF startVars, LoadInv, StartTypeOK, Valid
<1>2. CASE Profile
  <2>1. embedded => budget'.pool = 1
    BY <1>2 DEF Profile, BudgetFor, EmbeddedBudget
  <2> QED  BY <1>2, <2>1 DEF Profile, Fixed, LoadInv, StartTypeOK, Valid
<1>3. CASE Choose
  <2>1. /\ starting = "profiled" /\ starting' \in {"ner", "crf", "scanner"}
        /\ UNCHANGED <<embedded, memory, settings, disk, budget, backend, sessions, running>>
    BY <1>3 DEF Choose, Fixed
  <2> QED  BY <2>1 DEF LoadInv, StartTypeOK, Valid
<1>4. CASE LoadNer
  <2>1. /\ starting = "ner" /\ starting' \in {"crf", "scanner"}
        /\ UNCHANGED <<embedded, memory, settings, disk, budget, running>>
    BY <1>4 DEF LoadNer, Fixed
  <2>2. sessions' \in 0..32 /\ backend' \in {"none", "ner", "crf"}
    <3>1. Wanted \in 0..32  BY <2>1, WantedIsBounded
    <3> QED  BY <1>4, <3>1 DEF LoadNer, LoadInv, StartTypeOK
  <2> QED  BY <2>1, <2>2 DEF LoadInv, StartTypeOK, Valid
<1>5. CASE LoadCrf
  BY <1>5 DEF LoadCrf, Fixed, LoadInv, StartTypeOK, Valid
<1>6. CASE Serve
  <2>1. /\ starting = "scanner" /\ starting' = "serving"
        /\ UNCHANGED <<embedded, memory, settings, disk, budget, backend, sessions>>
    BY <1>6 DEF Serve, Fixed
  <2>2. DOMAIN running' = DOMAIN NoFeatures  BY <1>6 DEF Serve, NoFeatures
  <2> QED  BY <2>1, <2>2 DEF LoadInv, StartTypeOK, Valid
<1> QED  BY <1>1, <1>2, <1>3, <1>4, <1>5, <1>6 DEF StartNext

-----------------------------------------------------------------------------
(* A conversation of any app, also of one that keeps only the last mapping *)
(* and so may not read every answer: a call that runs has done the         *)
(* messages before the one it is at.                                       *)
IsMessage(m) == m.role \in {"user", "assistant"} /\ Len(m.text) \in Nat

TalkInv ==
    /\ CountersOK
    /\ \E S : history \in Seq(S) /\ \A m \in S : IsMessage(m)
    /\ \/ Idle
       \/ /\ call.at \in 1..Len(history) /\ Len(call.out) = call.at - 1
          /\ \E O : call.out \in Seq(O)

LEMMA TalkType == TalkInv => SessionTypeOK
<1> SUFFICES ASSUME TalkInv PROVE SessionTypeOK  OBVIOUS
<1>1. PICK S : history \in Seq(S) /\ \A m \in S : IsMessage(m)  BY DEF TalkInv
<1>2. \A m \in ToSet(history) : m.role \in {"user", "assistant"}
  BY <1>1, ToSetElements DEF IsMessage
<1>3. Len(history) \in Nat  BY <1>1
<1>4. call.at \in 0..Len(history) /\ (Idle \/ Len(call.out) = call.at - 1)
  BY <1>3 DEF TalkInv, Idle, NoCall
<1> QED  BY <1>2, <1>4 DEF SessionTypeOK, TalkInv, CountersOK

(* The app stores a message.                                               *)
LEMMA TalkGrows ==
    ASSUME TalkInv, NEW m, IsMessage(m), history' = Append(history, m)
    PROVE  /\ \E S : history' \in Seq(S) /\ \A x \in S : IsMessage(x)
           /\ Len(history) \in Nat /\ Len(history') = Len(history) + 1
<1>1. PICK S : history \in Seq(S) /\ \A x \in S : IsMessage(x)  BY DEF TalkInv
<1>2. history \in Seq(S \cup {m})  BY <1>1
<1>3. history' \in Seq(S \cup {m})  BY <1>2
<1>4. \A x \in S \cup {m} : IsMessage(x)  BY <1>1
<1> QED  BY <1>1, <1>3, <1>4

LEMMA TextHasLength ==
    ASSUME NEW text \in Texts
    PROVE  Len(text) \in Nat /\ Len(text) >= 0
<1>1. PICK n \in 1..MaxSize : text \in [1..n -> Values]  BY DEF Texts
<1>2. n \in Nat  BY <1>1, SessionAssumption
<1>3. text \in Seq(Values)  BY <1>1, <1>2
<1> QED  BY <1>3

LEMMA TalkInitInv == SessionInit => TalkInv
<1> SUFFICES ASSUME SessionInit PROVE TalkInv  OBVIOUS
<1>1. CountersOK  BY SessionAssumption DEF SessionInit, CountersOK
<1>2. history \in Seq({}) /\ \A m \in {} : IsMessage(m)  BY DEF SessionInit
<1>3. Idle  BY DEF SessionInit, Idle
<1> QED  BY <1>1, <1>2, <1>3 DEF TalkInv

LEMMA TalkStepInv == TalkInv /\ [SessionNext]_sessionVars => TalkInv'
<1> SUFFICES ASSUME TalkInv, [SessionNext]_sessionVars PROVE TalkInv'  OBVIOUS
<1>1. CASE UNCHANGED sessionVars
  BY <1>1 DEF sessionVars, TalkInv, CountersOK, Idle
<1>2. ASSUME NEW text \in Texts, SendBatch(text) PROVE TalkInv'
  <2>1. IsMessage([role |-> "user", text |-> text])  BY TextHasLength DEF IsMessage
  <2>2. history' = Append(history, [role |-> "user", text |-> text])
    BY <1>2 DEF SendBatch
  <2>3. /\ \E S : history' \in Seq(S) /\ \A x \in S : IsMessage(x)
        /\ Len(history) \in Nat /\ Len(history') = Len(history) + 1
    BY <2>1, <2>2, TalkGrows
  <2>4. call'.at = 1 /\ call'.out = <<>>  BY <1>2 DEF SendBatch, NoCall
  <2>5. call'.at \in 1..Len(history') /\ Len(call'.out) = call'.at - 1  BY <2>3, <2>4
  <2>6. call'.out \in Seq({})  BY <2>4
  <2>7. CountersOK'
    BY <1>2, SessionAssumption DEF SendBatch, TalkInv, CountersOK
  <2> QED  BY <2>3, <2>5, <2>6, <2>7 DEF TalkInv
<1>3. ASSUME NEW text \in Texts, SendText(text) PROVE TalkInv'
  <2> DEFINE now == [n \in 1..Len(text) |-> TokenFor(text[n], n, requests + 1)]
             m   == [role |-> "user", text |-> now]
  <2>1. Len(text) \in Nat  BY TextHasLength
  <2>2. Len(now) = Len(text)  BY <2>1
  <2>3. IsMessage(m)  BY <2>1, <2>2 DEF IsMessage
  <2>4. history' = Append(history, m)  BY <1>3 DEF SendText
  <2> HIDE DEF m
  <2>5. /\ \E S : history' \in Seq(S) /\ \A x \in S : IsMessage(x)
        /\ Len(history) \in Nat /\ Len(history') = Len(history) + 1
    BY <2>3, <2>4, TalkGrows
  <2>6. CountersOK'
    BY <1>3, <2>1, SessionAssumption DEF SendText, TalkInv, CountersOK
  <2>7. UNCHANGED call  BY <1>3 DEF SendText
  <2> QED  BY <2>5, <2>6, <2>7 DEF TalkInv, Idle
<1>4. CASE SanitizeMessage
  <2>1. ~Idle /\ UNCHANGED <<style, history, shown, key, requests>>
    BY <1>4 DEF SanitizeMessage
  <2>2. PICK S : history \in Seq(S) /\ \A x \in S : IsMessage(x)  BY DEF TalkInv
  <2>3. PICK O : call.out \in Seq(O)  BY <2>1 DEF TalkInv
  <2>4. call.at \in 1..Len(history) /\ Len(call.out) = call.at - 1  BY <2>1 DEF TalkInv
  <2>5. IsMessage(history[call.at])  BY <2>2, <2>4
  <2>6. piiFound' \in Nat
    BY <1>4, <2>5 DEF SanitizeMessage, IsMessage, TalkInv, CountersOK
  <2> DEFINE m == history[call.at]
             s == IF m.role = "assistant"
                  THEN [text |-> m.text, new |-> call.new, registry |-> call.registry]
                  ELSE Sanitized(m.text)
             step == [at |-> call.at + 1, registry |-> s.registry,
                      new |-> s.new, out |-> Append(call.out, s.text)]
  <2>a. IF call.at = Len(history) THEN call' = NoCall ELSE call' = step
    BY <1>4 DEF SanitizeMessage
  <2> HIDE DEF s
  <2>b. step.at = call.at + 1 /\ step.out = Append(call.out, s.text)  OBVIOUS
  <2> HIDE DEF step, m
  <2>7. PICK o : \/ call' = NoCall
                 \/ /\ call.at # Len(history) /\ call'.at = call.at + 1
                    /\ call'.out = Append(call.out, o)
    <3>1. CASE call.at = Len(history)  BY <2>a, <3>1
    <3>2. CASE call.at # Len(history)  BY <2>a, <2>b, <3>2
    <3> QED  BY <3>1, <3>2
  <2>8. CASE call' = NoCall
    BY <2>1, <2>2, <2>6, <2>8 DEF TalkInv, CountersOK, Idle
  <2>9. CASE /\ call.at # Len(history) /\ call'.at = call.at + 1
             /\ call'.out = Append(call.out, o)
    <3>1. call.out \in Seq(O \cup {o})  BY <2>3
    <3>2. call'.out \in Seq(O \cup {o}) /\ Len(call'.out) = Len(call.out) + 1
      BY <2>9, <3>1
    <3>3. call'.at \in 1..Len(history') /\ Len(call'.out) = call'.at - 1
      BY <2>1, <2>2, <2>4, <2>9, <3>2
    <3>4. CountersOK'  BY <2>1, <2>6 DEF TalkInv, CountersOK
    <3>5. \E T : history' \in Seq(T) /\ \A x \in T : IsMessage(x)  BY <2>1, <2>2
    <3> QED  BY <3>2, <3>3, <3>4, <3>5 DEF TalkInv
  <2> QED  BY <2>7, <2>8, <2>9
<1>5. CASE Reply
  <2>1. PICK n \in 1..MaxSize : \E wrote \in [1..n -> Items] :
            history' = Append(history, [role |-> "assistant",
                                        text |-> [i \in 1..n |-> wrote[i].token]])
    BY <1>5 DEF Reply
  <2>2. PICK wrote \in [1..n -> Items] :
            history' = Append(history, [role |-> "assistant",
                                        text |-> [i \in 1..n |-> wrote[i].token]])
    BY <2>1
  <2> DEFINE words == [i \in 1..n |-> wrote[i].token]
             m     == [role |-> "assistant", text |-> words]
  <2>3. n \in Nat  BY SessionAssumption
  <2>4. Len(words) = n  BY <2>3
  <2>5. IsMessage(m)  BY <2>3, <2>4 DEF IsMessage
  <2>6. history' = Append(history, m)  BY <2>2
  <2> HIDE DEF m
  <2>7. \E S : history' \in Seq(S) /\ \A x \in S : IsMessage(x)
    BY <2>5, <2>6, TalkGrows
  <2>8. Idle' /\ CountersOK'  BY <1>5 DEF Reply, TalkInv, CountersOK, Idle
  <2> QED  BY <2>7, <2>8 DEF TalkInv
<1>6. CASE RotateKey
  <2>1. CountersOK'
    BY <1>6, SessionAssumption DEF RotateKey, TalkInv, CountersOK
  <2>2. UNCHANGED <<history, call>>  BY <1>6 DEF RotateKey
  <2> QED  BY <2>1, <2>2 DEF TalkInv, Idle
<1> QED  BY <1>1, <1>2, <1>3, <1>4, <1>5, <1>6 DEF SessionNext

-----------------------------------------------------------------------------
(* Whatever a behaviour is about, every service keeps its invariant: the   *)
(* one that runs by its own steps, the others because they stand still.    *)
ServicesInv ==
    /\ subject \in {"journal", "pool", "keys", "images", "health", "beat", "session", "start"}
    /\ JournalInv /\ PoolInv /\ KeyInv /\ ImageInv /\ HealthInv /\ BeatInv
    /\ TalkInv /\ LoadInv

LEMMA ServicesInitInv == ServicesInit => ServicesInv
BY JournalInitInv, PoolInitInv, KeyInitInv, ImageInitInv, HealthInitInv, BeatInitInv,
   TalkInitInv, LoadInitInv
DEF ServicesInit, ServicesInv

LEMMA OnlyOneMoves ==
    ASSUME ServicesNext
    PROVE  /\ [Next]_vars /\ [PoolNext]_poolVars /\ [KeyNext]_keyVars /\ [ImageNext]_imageVars
           /\ [HealthNext]_healthVars /\ [BeatNext]_beatVars /\ [SessionNext]_sessionVars
           /\ [StartNext]_startVars /\ UNCHANGED subject
<1>1. CASE Only("journal") /\ Next  BY <1>1 DEF Only
<1>2. CASE Only("pool") /\ PoolNext  BY <1>2 DEF Only
<1>3. CASE Only("keys") /\ KeyNext  BY <1>3 DEF Only
<1>4. CASE Only("images") /\ ImageNext  BY <1>4 DEF Only
<1>5. CASE Only("health") /\ HealthNext  BY <1>5 DEF Only
<1>6. CASE Only("beat") /\ BeatNext  BY <1>6 DEF Only
<1>7. CASE Only("session") /\ SessionNext  BY <1>7 DEF Only
<1>8. CASE Only("start") /\ StartNext  BY <1>8 DEF Only
<1> QED  BY <1>1, <1>2, <1>3, <1>4, <1>5, <1>6, <1>7, <1>8 DEF ServicesNext

LEMMA ServicesStepInv == ServicesInv /\ [ServicesNext]_allVars => ServicesInv'
<1> SUFFICES ASSUME ServicesInv, [ServicesNext]_allVars PROVE ServicesInv'  OBVIOUS
<1>1. /\ [Next]_vars /\ [PoolNext]_poolVars /\ [KeyNext]_keyVars /\ [ImageNext]_imageVars
      /\ [HealthNext]_healthVars /\ [BeatNext]_beatVars /\ [SessionNext]_sessionVars
      /\ [StartNext]_startVars /\ UNCHANGED subject
  <2>1. CASE ServicesNext  BY <2>1, OnlyOneMoves
  <2>2. CASE UNCHANGED allVars  BY <2>2 DEF allVars
  <2> QED  BY <2>1, <2>2
<1>2. JournalInv' /\ PoolInv' /\ KeyInv' /\ ImageInv'
  BY <1>1, JournalStepInv, PoolStepInv, KeyStepInv, ImageStepInv DEF ServicesInv
<1>3. HealthInv' /\ BeatInv' /\ TalkInv' /\ LoadInv'
  BY <1>1, HealthStepInv, BeatStepInv, TalkStepInv, LoadStepInv DEF ServicesInv
<1> QED  BY <1>1, <1>2, <1>3 DEF ServicesInv

(* The type of every service, of the journal, the pool, the keys, the      *)
(* models, the statistics, the monitor, the conversation and the start,    *)
(* holds in every behaviour, for all of their constants.                   *)
THEOREM ServicesTypeCorrect == ServicesSpec => []ServicesTypeOK
<1>1. ServicesInv => ServicesTypeOK
  <2> SUFFICES ASSUME ServicesInv PROVE ServicesTypeOK  OBVIOUS
  <2>1. /\ TypeOK /\ PoolTypeOK /\ KeyTypeOK /\ ImageTypeOK /\ HealthTypeOK /\ BeatTypeOK
        /\ SessionTypeOK /\ StartTypeOK
    BY TalkType
    DEF ServicesInv, JournalInv, PoolInv, KeyInv, ImageInv, HealthInv, BeatInv, LoadInv
  <2>2. subject \in {"journal", "pool", "keys", "images", "health", "beat", "session", "start"}
    BY DEF ServicesInv
  <2> QED  BY <2>1, <2>2 DEF ServicesTypeOK
<1> QED  BY ServicesInitInv, ServicesStepInv, <1>1, PTL DEF ServicesSpec
=============================================================================
