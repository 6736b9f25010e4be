---------------------------- MODULE HealthStats ----------------------------
(***************************************************************************)
(* A server process and what it leaves for the next one: the counters of   *)
(* health.rs, saved to a file every minute and added up again at start,    *)
(* the crash marker that the panic hook writes, and the readiness that the *)
(* health endpoint answers with.  The file is rewritten in place: it is    *)
(* truncated, then written, and a kill in between leaves it empty.         *)
(*                                                                         *)
(* Inference is wrapped in catch_unwind (NER, image and voice models), in  *)
(* a program whose release profile aborts on a panic.                      *)
(***************************************************************************)
EXTENDS Integers, FiniteSets

CONSTANTS
    Counters,     \* counters of HealthStats (eleven in the code)
    Profiles,     \* of the build: whether a panic aborts, as it does in release
    Prewarm,      \* enable_prewarm
    MaxCount      \* bound: the most a counter counts, over all processes

ASSUME HealthAssumption ==
    /\ IsFiniteSet(Counters)
    /\ Profiles \subseteq BOOLEAN
    /\ Prewarm \in BOOLEAN
    /\ MaxCount \in Nat

VARIABLES
    aborts,     \* the profile of this build
    process,    \* "down", "starting", "serving"
    counted,    \* the counters in memory
    statsFile,  \* stats.json: "absent", "empty", or the counters in it
    save,       \* the save that runs: how far it is, and what it has read
    readiness,  \* what the health endpoint tells
    marker,     \* whether .crashed exists
    happened,   \* history: all that was counted, by every process
    kept,       \* history: the counters when the last whole save began
    cut,        \* history: a save was cut off since
    panicked,   \* history: a panic happened since the last start
    reported    \* what the last start reported, and what it had to

healthVars == <<aborts, process, counted, statsFile, save, readiness, marker,
                happened, kept, cut, panicked, reported>>

Zero  == [c \in Counters |-> 0]
Tally == [Counters -> 0..MaxCount]
NoSave == [at |-> "none", read |-> {}, value |-> Zero, began |-> Zero]

HealthTypeOK ==
    /\ process \in {"down", "starting", "serving"}
    /\ counted \in Tally /\ happened \in Tally /\ kept \in Tally
    /\ statsFile \in [kind : {"absent", "empty"}, value : {Zero}]
                     \cup [kind : {"whole"}, value : Tally]
    /\ save.at \in {"none", "reading", "truncated"}
    /\ save.read \subseteq Counters /\ save.value \in Tally /\ save.began \in Tally
    /\ readiness \in {"cold", "warming", "ready"}
    /\ {marker, cut, panicked} \subseteq BOOLEAN
    /\ reported \in [told : BOOLEAN, due : BOOLEAN]
    /\ aborts \in Profiles

HealthInit ==
    /\ process = "down"
    /\ counted = Zero
    /\ statsFile = [kind |-> "absent", value |-> Zero]
    /\ save = NoSave
    /\ readiness = "cold"
    /\ marker = FALSE
    /\ happened = Zero
    /\ kept = Zero
    /\ cut = FALSE
    /\ panicked = FALSE
    /\ reported = [told |-> FALSE, due |-> FALSE]
    /\ aborts \in Profiles

-----------------------------------------------------------------------------
(* run_serve begins with check_crash_marker, which reports and deletes.    *)
CheckMarker ==
    /\ process = "down"
    /\ process' = "starting"
    /\ reported' = [told |-> marker, due |-> panicked]
    /\ marker' = FALSE
    /\ panicked' = FALSE
    /\ counted' = Zero
    /\ readiness' = "cold"
    /\ UNCHANGED <<aborts, statsFile, save, happened, kept, cut>>

\* Mutant: the first save does not wait for the counters to be restored.
ServeEmpty ==
    /\ process = "starting"
    /\ process' = "serving"
    /\ readiness' = IF Prewarm THEN "warming" ELSE "ready"
    /\ cut' = FALSE
    /\ UNCHANGED <<aborts, counted, statsFile, save, marker, happened, kept, panicked, reported>>

(* load_from_file adds the saved counters to those of the new process, or  *)
(* leaves them when the file does not parse.  The flush task and the       *)
(* server are started after that.                                          *)
LoadAndServe ==
    /\ process = "starting"
    /\ process' = "serving"
    /\ counted' = [c \in Counters |-> counted[c] + statsFile.value[c]]
    /\ readiness' = IF Prewarm THEN "warming" ELSE "ready"
    /\ kept' = IF cut THEN counted' ELSE kept
    /\ cut' = FALSE
    /\ UNCHANGED <<aborts, statsFile, save, marker, happened, panicked, reported>>

(* Pre-warming ends, well or with a panic of the scan: ready either way.   *)
Warmed ==
    /\ process = "serving"
    /\ readiness = "warming"
    /\ readiness' = "ready"
    /\ UNCHANGED <<aborts, process, counted, statsFile, save, marker, happened, kept, cut,
                   panicked, reported>>

(* A request counts, one fetch_add at a time.                              *)
CountUp(c) ==
    /\ process = "serving"
    /\ happened[c] < MaxCount
    /\ counted' = [counted EXCEPT ![c] = @ + 1]
    /\ happened' = [happened EXCEPT ![c] = @ + 1]
    /\ UNCHANGED <<aborts, process, statsFile, save, readiness, marker, kept, cut,
                   panicked, reported>>

-----------------------------------------------------------------------------
OnlySave ==
    UNCHANGED <<aborts, process, counted, readiness, marker, happened, panicked, reported>>

(* The flush task ticks: at start, and every 60 s.                         *)
SaveBegins ==
    /\ process = "serving"
    /\ save.at = "none"
    /\ save' = [NoSave EXCEPT !.at = "reading", !.began = counted]
    /\ UNCHANGED <<statsFile, kept, cut>>
    /\ OnlySave

(* The counters are read one after the other while requests count.         *)
SaveReads(c) ==
    /\ save.at = "reading"
    /\ c \notin save.read
    /\ save' = [save EXCEPT !.read = @ \cup {c}, !.value[c] = counted[c]]
    /\ UNCHANGED <<statsFile, kept, cut>>
    /\ OnlySave

(* fs::write: the file is truncated, then written.                         *)
SaveTruncates ==
    /\ save.at = "reading"
    /\ save.read = Counters
    /\ save' = [save EXCEPT !.at = "truncated"]
    /\ statsFile' = [kind |-> "empty", value |-> Zero]
    /\ UNCHANGED <<kept, cut>>
    /\ OnlySave

SaveWrites ==
    /\ save.at = "truncated"
    /\ statsFile' = [kind |-> "whole", value |-> save.value]
    /\ kept' = save.began
    /\ save' = NoSave
    /\ UNCHANGED cut
    /\ OnlySave

-----------------------------------------------------------------------------
(* The process ends; the save that runs is cut off.                        *)
Ends ==
    /\ process' = "down"
    /\ cut' = (cut \/ save.at = "truncated")
    /\ save' = NoSave
    /\ UNCHANGED <<aborts, counted, statsFile, readiness, happened, kept, reported>>

(* SIGKILL, an OOM kill or a graceful stop: nothing is saved in either     *)
(* case, but a stop lets a write that has begun end.                       *)
Killed ==
    /\ process # "down"
    /\ Ends
    /\ UNCHANGED <<marker, panicked>>

(* A model panics during inference.  The hook writes the marker; then the  *)
(* process aborts, or the panic is caught and the request goes on.         *)
InferencePanics ==
    /\ process = "serving"
    /\ panicked' = TRUE
    /\ marker' = TRUE
    /\ IF aborts THEN Ends
       ELSE UNCHANGED <<aborts, process, counted, statsFile, save, readiness, happened, kept,
                        cut, reported>>

HealthNext ==
    \/ CheckMarker \/ LoadAndServe \/ Warmed
    \/ \E c \in Counters : CountUp(c) \/ SaveReads(c)
    \/ SaveBegins \/ SaveTruncates \/ SaveWrites
    \/ Killed \/ InferencePanics

HealthSpec == HealthInit /\ [][HealthNext]_healthVars
-----------------------------------------------------------------------------
(* The counters never tell of more than has happened, however often they   *)
(* were saved, added up again and cut off.                                 *)
NeverOvercounted ==
    \A c \in Counters : counted[c] <= happened[c] /\ statsFile.value[c] <= happened[c]

(* What a completed save held is not lost by ending the process; only an   *)
(* end between the truncation and the write loses it.                      *)
SavedCountsSurvive ==
    process = "serving" => \A c \in Counters : counted[c] >= kept[c]

(* A start reports a crash exactly when a panic has happened since the     *)
(* start before, also when the process died of something else meanwhile.   *)
CrashIsReported == reported.told = reported.due

(* What a new process takes over from the ones before it is true, wherever *)
(* they ended: the counters, and whether there was a panic.                *)
RestartTellsTheTruth == NeverOvercounted /\ SavedCountsSurvive /\ CrashIsReported
=============================================================================
