---------------------------- MODULE KeyLifecycle ----------------------------
(***************************************************************************)
(* The FPE key: the five places Vault looks for it in, the commands that   *)
(* create and replace it, the key manager a server builds from it, and the *)
(* rotation of that manager (key_manager.rs) by tasks that run beside the  *)
(* requests holding an engine.  No command of the program rotates a        *)
(* running server: rotate() is the manager's interface, and the only lock  *)
(* order in it is current before previous.                                 *)
(***************************************************************************)
EXTENDS Integers, FiniteSets

CONSTANTS
    Rotators,   \* tasks that call rotate() on one manager
    Requests,   \* requests that hold an engine
    Overlap,    \* ticks of DEFAULT_OVERLAP_SECS
    MaxKeys,    \* bound: keys made by commands
    MaxVersion, \* bound: no rotation begins at this version
    MaxTime     \* bound: ticks of a behaviour

ASSUME KeyAssumption ==
    /\ "free" \notin Rotators
    /\ Overlap \in Nat \ {0}
    /\ MaxKeys \in Nat \ {0}
    /\ MaxVersion \in Nat
    /\ MaxTime \in Nat

Nothing == [version |-> 0, key |-> 0]

VARIABLES
    outside,    \* what the four places before the keychain hold
    keychain,   \* the secret in the OS keychain: 0, or the number of a key
    made,       \* keys made so far
    command,    \* the command that runs, and how far it is
    manager,    \* the server's manager: its engine and the one before
    lock,       \* the holder of the write lock of current
    task,       \* per rotator: the key it has read, and where it is
    held,       \* per request: the engine it took from current()
    time,       \* ticks so far
    installed   \* history: every engine current() could have returned

keyVars == <<outside, keychain, made, command, manager, lock, task, held, time, installed>>

Places   == {"env", "secrets", "keyfile", "home"}
Secrets == {"absent", "dangling", "unreadable", "good"}
OutsideKey == MaxKeys + 1   \* the key an outside place holds when it is good
Keys     == 1..OutsideKey
Engines  == [version : Nat, key : Keys]
Stopped  == [current |-> Nothing, previous |-> Nothing, retired |-> 0, up |-> FALSE]

KeyTypeOK ==
    /\ outside \in [Places -> Secrets]
    /\ keychain \in 0..MaxKeys
    /\ made \in 0..MaxKeys
    /\ command \in {"none", "init", "rotate", "verify", "done", "failed"}
    /\ manager \in [current : Engines \cup {Nothing}, previous : Engines \cup {Nothing},
                    retired : Nat, up : BOOLEAN]
    /\ lock \in Rotators \cup {"free"}
    /\ task \in [Rotators -> [at : {"idle", "read", "moved"}, key : Keys \cup {0}]]
    /\ held \in [Requests -> Engines \cup {Nothing}]
    /\ time \in 0..MaxTime
    /\ installed \subseteq Engines

(* Only a place named by OPENOBSCURE_KEY_FILE can point to a missing file: *)
(* the other two files count as absent then, and an env var has no file.   *)
KeyInit ==
    /\ outside \in {o \in [Places -> Secrets] :
                      /\ \A p \in Places \ {"keyfile"} : o[p] # "dangling"
                      /\ Cardinality({p \in Places : o[p] # "absent"}) <= 1}
    /\ keychain = 0
    /\ made = 0
    /\ command = "none"
    /\ manager = Stopped
    /\ lock = "free"
    /\ task = [r \in Rotators |-> [at |-> "idle", key |-> 0]]
    /\ held = [q \in Requests |-> Nothing]
    /\ time = 0
    /\ installed = {}

-----------------------------------------------------------------------------
(* get_fpe_key: the first place that is there decides, even when it cannot *)
(* be read; the keychain is the last.  0 is an error.                      *)
Priority == [env |-> 1, secrets |-> 2, keyfile |-> 3, home |-> 4]
There    == {p \in Places : outside[p] # "absent"}
FpeKey ==
    IF There = {} THEN keychain
    ELSE LET first == CHOOSE p \in There : \A q \in There : Priority[p] <= Priority[q]
         IN  IF outside[first] = "good" THEN OutsideKey ELSE 0

(* fpe_key_exists looks at the same places but reads none of them, and     *)
(* passes over a key file that is missing.                                 *)
FpeKeyExists ==
    \/ \E p \in Places : outside[p] \in {"good", "unreadable"}
    \/ keychain # 0

OnlyCommand == UNCHANGED <<outside, manager, lock, task, held, time, installed>>

(* --init-key, up to the check.                                            *)
InitKey ==
    /\ command \in {"none", "done", "failed"}
    /\ ~FpeKeyExists
    /\ command' = "init"
    /\ UNCHANGED <<keychain, made>>
    /\ OnlyCommand

(* key-rotate: the present key must exist and be readable.                 *)
KeyRotate ==
    /\ command \in {"none", "done", "failed"}
    /\ FpeKeyExists
    /\ command' = IF FpeKey = 0 THEN "failed" ELSE "rotate"
    /\ UNCHANGED <<keychain, made>>
    /\ OnlyCommand

(* init_fpe_key: a new random key overwrites the one in the keychain.      *)
InitFpeKey ==
    /\ command \in {"init", "rotate"}
    /\ made < MaxKeys
    /\ made' = made + 1
    /\ keychain' = made + 1
    /\ command' = IF command = "init" THEN "done" ELSE "verify"
    /\ OnlyCommand

(* key-rotate reads the key back, from whichever place comes first.        *)
VerifyKey ==
    /\ command = "verify"
    /\ command' = IF FpeKey = 0 THEN "failed" ELSE "done"
    /\ UNCHANGED <<keychain, made>>
    /\ OnlyCommand

-----------------------------------------------------------------------------
OnlyManager == UNCHANGED <<outside, keychain, made, command>>

(* A server starts: KeyManager::new, or an error when there is no key.     *)
ServerStart ==
    /\ ~manager.up
    /\ FpeKey # 0
    /\ LET engine == [version |-> 1, key |-> FpeKey]
       IN  /\ manager' = [current |-> engine, previous |-> Nothing,
                          retired |-> 0, up |-> TRUE]
           /\ installed' = {engine}
    /\ UNCHANGED <<lock, task, held, time>>
    /\ OnlyManager

ServerStop ==
    /\ manager.up
    /\ manager' = Stopped
    /\ lock' = "free"
    /\ task' = [r \in Rotators |-> [at |-> "idle", key |-> 0]]
    /\ held' = [q \in Requests |-> Nothing]
    /\ installed' = {}
    /\ UNCHANGED time
    /\ OnlyManager

(* rotate: the vault is read before any lock is taken.                     *)
ReadVault(r) ==
    /\ manager.up
    /\ task[r].at = "idle"
    /\ FpeKey # 0
    /\ manager.current.version < MaxVersion
    /\ task' = [task EXCEPT ![r] = [at |-> "read", key |-> FpeKey]]
    /\ UNCHANGED <<manager, lock, held, time, installed>>
    /\ OnlyManager

\* Mutant: the engine that is replaced is not kept.
RetireNothing(r) ==
    /\ task[r].at = "read"
    /\ lock = "free"
    /\ lock' = r
    /\ task' = [task EXCEPT ![r].at = "moved"]
    /\ UNCHANGED <<manager, held, time, installed>>
    /\ OnlyManager

(* rotate_with_engine takes current for writing and, holding it, puts the  *)
(* engine into previous: the overlap begins.                               *)
Retire(r) ==
    /\ task[r].at = "read"
    /\ lock = "free"
    /\ lock' = r
    /\ manager' = [manager EXCEPT !.previous = manager.current, !.retired = time]
    /\ task' = [task EXCEPT ![r].at = "moved"]
    /\ UNCHANGED <<held, time, installed>>
    /\ OnlyManager

\* Mutant: the number of the new version is that of the one before.
InstallUnnumbered(r) ==
    /\ task[r].at = "moved"
    /\ LET engine == [version |-> manager.current.version, key |-> task[r].key]
       IN  /\ manager' = [manager EXCEPT !.current = engine]
           /\ installed' = installed \cup {engine}
    /\ lock' = "free"
    /\ task' = [task EXCEPT ![r] = [at |-> "idle", key |-> 0]]
    /\ UNCHANGED <<held, time>>
    /\ OnlyManager

(* The new engine is installed one version on and the lock released.       *)
Install(r) ==
    /\ task[r].at = "moved"
    /\ LET engine == [version |-> manager.current.version + 1, key |-> task[r].key]
       IN  /\ manager' = [manager EXCEPT !.current = engine]
           /\ installed' = installed \cup {engine}
    /\ lock' = "free"
    /\ task' = [task EXCEPT ![r] = [at |-> "idle", key |-> 0]]
    /\ UNCHANGED <<held, time>>
    /\ OnlyManager

(* current(): a request clones the engine; it waits while one is written.  *)
Current(q) ==
    /\ manager.up
    /\ lock = "free"
    /\ held[q] = Nothing
    /\ held' = [held EXCEPT ![q] = manager.current]
    /\ UNCHANGED <<manager, lock, task, time, installed>>
    /\ OnlyManager

Done(q) ==
    /\ held[q] # Nothing
    /\ held' = [held EXCEPT ![q] = Nothing]
    /\ UNCHANGED <<manager, lock, task, time, installed>>
    /\ OnlyManager

(* previous() drops the engine whose overlap is over.                      *)
Previous ==
    /\ manager.previous # Nothing
    /\ time - manager.retired >= Overlap
    /\ manager' = [manager EXCEPT !.previous = Nothing]
    /\ UNCHANGED <<lock, task, held, time, installed>>
    /\ OnlyManager

KeyTick ==
    /\ time < MaxTime
    /\ time' = time + 1
    /\ UNCHANGED <<manager, lock, task, held, installed>>
    /\ OnlyManager

KeyNext ==
    \/ InitKey \/ KeyRotate \/ InitFpeKey \/ VerifyKey
    \/ ServerStart \/ ServerStop \/ Previous \/ KeyTick
    \/ \E r \in Rotators : ReadVault(r) \/ Retire(r) \/ Install(r)
    \/ \E q \in Requests : Current(q) \/ Done(q)

KeySpec == KeyInit /\ [][KeyNext]_keyVars
-----------------------------------------------------------------------------
(* A version names one engine for as long as a server runs, whichever      *)
(* tasks rotate at the same time: what health and logs call a version is   *)
(* enough to say which key a ciphertext was made with.                     *)
VersionsNameKeys ==
    \A e, f \in installed : e.version = f.version => e.key = f.key

(* A request in flight finds the engine it encrypted with, as the current  *)
(* one or the previous one, until the overlap is over; unless a second     *)
(* rotation, finished or under way, has put another one there.             *)
HeldEngineIsKept ==
    \A q \in Requests :
        /\ held[q] # Nothing
        /\ lock = "free"
        /\ manager.current.version <= held[q].version + 1
        /\ time - manager.retired < Overlap
        => held[q] \in {manager.current, manager.previous}
=============================================================================
