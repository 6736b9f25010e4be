------------------------------ MODULE Startup ------------------------------
(***************************************************************************)
(* What a process decides when it starts: the tier of the device, the      *)
(* budget of the tier, and from budget, settings and the models on disk    *)
(* the semantic backend and the features that run.  The gateway            *)
(* (main.rs) and the library (lib_mobile.rs) share the profiler and differ *)
(* in the rest.                                                            *)
(***************************************************************************)
EXTENDS Integers

CONSTANTS
    Memories,  \* totals of RAM in MB to start with
    PoolSizes  \* values of ner_pool_size

ASSUME MemoryAssumption == Memories \subseteq Nat /\ PoolSizes \subseteq Nat

VARIABLES
    embedded,  \* library or gateway
    memory,    \* total RAM in MB
    settings,  \* of the configuration, as far as they decide something here
    disk,      \* per model directory: not configured, broken, or good
    starting,  \* how far the start is
    budget,    \* FeatureBudget
    backend,   \* the semantic backend of the scanner
    sessions,  \* NER sessions in the pool
    running    \* what else runs

startVars == <<embedded, memory, settings, disk, starting, budget, backend, sessions, running>>

Dirs      == {"ner", "ner_lite", "crf"}
Models    == [tinybert |-> 1, distilbert |-> 2]
OcrTiers  == [detect_and_fill |-> 1, full_recognition |-> 2]
Faces     == [ultralight |-> 1, scrfd |-> 2]

-----------------------------------------------------------------------------
(* tier_for_profile.  A RAM that cannot be read counts as 0.               *)
Tier(ram) == IF ram >= 3584 THEN "full" ELSE IF ram >= 1536 THEN "standard" ELSE "lite"

(* budget_for_gateway.                                                     *)
GatewayBudget(tier) ==
    [ner       |-> TRUE,
     model     |-> IF tier = "full" THEN Models.distilbert ELSE Models.tinybert,
     crf       |-> TRUE,
     ensemble  |-> tier = "full",
     image     |-> TRUE,
     ocr       |-> IF tier = "lite" THEN OcrTiers.detect_and_fill ELSE OcrTiers.full_recognition,
     nsfw      |-> tier # "lite",
     guard     |-> tier # "lite",
     face      |-> IF tier = "lite" THEN Faces.ultralight ELSE Faces.scrfd,
     idle      |-> IF tier = "full" THEN 300 ELSE IF tier = "standard" THEN 120 ELSE 60,
     voice     |-> tier # "lite",
     ri        |-> tier # "lite",
     pool      |-> IF tier = "full" THEN 2 ELSE 1]

(* A fifth of the RAM, clamped.                                            *)
Share(ram) == IF ram \div 5 < 12 THEN 12 ELSE IF ram \div 5 > 275 THEN 275 ELSE ram \div 5

(* budget_for_embedded: thresholds on the share within each tier.          *)
EmbeddedBudget(tier, ram) ==
    LET share    == Share(ram)
        full     == tier = "full"
        standard == tier = "standard"
    IN  [ner      |-> full \/ share >= (IF standard THEN 80 ELSE 25),
         model    |-> IF full \/ (standard /\ share >= 120)
                      THEN Models.distilbert ELSE Models.tinybert,
         crf      |-> full \/ standard \/ share >= 25,
         ensemble |-> full,
         image    |-> full \/ share >= (IF standard THEN 100 ELSE 40),
         ocr      |-> IF full THEN OcrTiers.full_recognition ELSE OcrTiers.detect_and_fill,
         nsfw     |-> full \/ (standard /\ share >= 150),
         guard    |-> full \/ standard,
         face     |-> IF full \/ standard THEN Faces.scrfd ELSE Faces.ultralight,
         idle     |-> IF full THEN 300 ELSE IF standard THEN 120 ELSE 60,
         voice    |-> full \/ (standard /\ share >= 50),
         ri       |-> full \/ (standard /\ share >= 80),
         pool     |-> 1]

BudgetFor(emb, ram) ==
    IF emb THEN EmbeddedBudget(Tier(ram), ram) ELSE GatewayBudget(Tier(ram))

NoBudget == [BudgetFor(FALSE, 0) EXCEPT !.ner = FALSE]

-----------------------------------------------------------------------------
NoFeatures == [image |-> FALSE, nsfw |-> FALSE, guard |-> FALSE, voice |-> FALSE,
               ri |-> FALSE, bonus |-> FALSE]

StartTypeOK ==
    /\ starting \in {"new", "profiled", "ner", "crf", "scanner", "serving", "refused"}
    /\ backend \in {"none", "ner", "crf"}
    /\ sessions \in 0..32
    /\ disk \in [Dirs -> {"absent", "broken", "good"}]
    /\ DOMAIN running = DOMAIN NoFeatures

(* auto_detect is a setting of the library, ner_model and ner_enabled of   *)
(* the gateway; the features are wanted or not together.                   *)
Settings ==
    [mode : {"auto", "ner", "crf", "regex"}, detect : BOOLEAN, nerEnabled : BOOLEAN,
     model : 0..2, pool : PoolSizes, wanted : BOOLEAN]

StartInit ==
    /\ embedded \in BOOLEAN
    /\ memory \in Memories
    /\ settings \in {s \in Settings :
                       /\ embedded => s.nerEnabled /\ s.model = 0
                       /\ ~embedded => s.detect}
    /\ disk \in [Dirs -> {"absent", "broken", "good"}]
    /\ starting = "new"
    /\ budget = NoBudget
    /\ backend = "none"
    /\ sessions = 0
    /\ running = NoFeatures

Fixed == UNCHANGED <<embedded, memory, settings, disk>>

(* validate: the pool of the gateway must hold a session if NER is         *)
(* enabled.                                                                *)
Valid == embedded \/ settings.pool \in (IF settings.nerEnabled THEN 1 ELSE 0)..32

Profile ==
    /\ starting = "new"
    /\ starting' = IF Valid THEN "profiled" ELSE "refused"
    /\ budget' = BudgetFor(embedded, memory)
    /\ UNCHANGED <<backend, sessions, running>>
    /\ Fixed

(* The model that is wanted: a setting of the gateway, else the budget's.  *)
NerModel == IF settings.model # 0 THEN settings.model ELSE budget.model

(* The directory of the NER model: the library falls back both ways, the   *)
(* gateway from the small model to the large one only, and only from one   *)
(* that is not configured.                                                 *)
NerDir ==
    LET there(d) == disk[d] # "absent"
    IN  IF NerModel = Models.tinybert
        THEN IF there("ner_lite") THEN "ner_lite" ELSE IF there("ner") THEN "ner" ELSE "none"
        ELSE IF there("ner") THEN "ner"
        ELSE IF embedded /\ there("ner_lite") THEN "ner_lite" ELSE "none"

Automatic == settings.mode = "auto" /\ settings.detect

(* What mode and budget allow; the setting ner_enabled is not looked at.   *)
NerAllowed == settings.mode = "ner" \/ (Automatic /\ budget.ner)
CrfAllowed == settings.mode = "crf" \/ (Automatic /\ budget.crf)

(* Which model is tried first.                                             *)
Choose ==
    /\ starting = "profiled"
    /\ starting' = IF NerAllowed THEN "ner" ELSE IF CrfAllowed THEN "crf" ELSE "scanner"
    /\ UNCHANGED <<budget, backend, sessions, running>>
    /\ Fixed

NerLoads == NerDir \in {d \in Dirs : disk[d] = "good"}

(* How many sessions are asked for: the library takes the smaller of       *)
(* setting and budget, and at least one; the gateway takes the setting.    *)
Wanted ==
    IF ~embedded THEN settings.pool
    ELSE IF settings.pool < budget.pool /\ settings.pool > 0 THEN settings.pool
    ELSE 1

\* Mutant: without an NER model nothing else is tried.
LoadNerOnly ==
    /\ starting = "ner"
    /\ starting' = "scanner"
    /\ IF NerLoads
       THEN backend' = "ner" /\ sessions' \in 1..Wanted
       ELSE UNCHANGED <<backend, sessions>>
    /\ UNCHANGED <<budget, running>>
    /\ Fixed

(* try_load_ner_pool and load_ner_pool: the sessions are loaded one by one *)
(* up to the first that fails.  If it is the very first one there is no    *)
(* pool, and automatic mode tries the CRF model; a pool of no sessions     *)
(* loads nothing and so cannot fail.                                       *)
LoadNer ==
    /\ starting = "ner"
    /\ \/ /\ NerDir # "none"
          /\ \/ Wanted = 0 /\ sessions' = 0
             \/ NerLoads /\ sessions' \in 1..Wanted
          /\ backend' = "ner"
          /\ starting' = "scanner"
       \/ /\ ~NerLoads /\ (Wanted = 0 => NerDir = "none")
          /\ starting' = IF Automatic /\ budget.crf THEN "crf" ELSE "scanner"
          /\ UNCHANGED <<sessions, backend>>
    /\ UNCHANGED <<budget, running>>
    /\ Fixed

(* try_load_crf.                                                           *)
LoadCrf ==
    /\ starting = "crf"
    /\ backend' = IF disk["crf"] = "good" THEN "crf" ELSE "none"
    /\ starting' = "scanner"
    /\ UNCHANGED <<budget, sessions, running>>
    /\ Fixed

(* The rest of the features: what the settings want and the budget allows. *)
(* The library has no voice pipeline, and outside automatic mode it leaves *)
(* the agreement bonus at its default, whatever the budget says.           *)
Serve ==
    /\ starting = "scanner"
    /\ LET image == settings.wanted /\ budget.image
       IN  running' =
             [image |-> image,
              nsfw  |-> image /\ budget.nsfw,
              guard |-> image /\ budget.guard,
              voice |-> ~embedded /\ settings.wanted /\ budget.voice,
              ri    |-> settings.wanted /\ budget.ri,
              bonus |-> budget.ensemble \/ (embedded /\ ~Automatic)]
    /\ starting' = "serving"
    /\ UNCHANGED <<budget, backend, sessions>>
    /\ Fixed

StartNext == Profile \/ Choose \/ LoadNer \/ LoadCrf \/ Serve

StartSpec == StartInit /\ [][StartNext]_startVars
-----------------------------------------------------------------------------
\* Where a model that may stand in for the wanted one is looked for.
NerDirs == IF embedded \/ NerModel = Models.tinybert THEN {"ner", "ner_lite"} ELSE {"ner"}

\* Some such model is good, and no configured one is broken: the first that is
\* configured is the only one tried, so a broken one hides a good one.
NerIsSound ==
    /\ \E d \in NerDirs : disk[d] = "good"
    /\ \A d \in NerDirs : disk[d] # "broken"

\* NER if it may serve and its models are sound; else CRF if that may and
\* can; and neither one without leave of mode and budget and a good model.
StrongestServes ==
    starting = "serving" =>
        /\ NerAllowed /\ NerIsSound => backend = "ner"
        /\ CrfAllowed /\ disk["crf"] = "good" => backend # "none"
        /\ backend = "crf" => CrfAllowed /\ disk["crf"] = "good"
        /\ backend = "ner" =>
              /\ NerAllowed
              /\ settings.nerEnabled => \E d \in NerDirs : disk[d] = "good"

\* A pool that is announced can serve, as long as NER is enabled.
PoolCanServe ==
    starting = "serving" /\ backend = "ner" /\ settings.nerEnabled => sessions >= 1

(* The backend a process ends up with: the strongest that mode and budget  *)
(* allow, NER before CRF before none, as long as no configured NER model   *)
(* is broken (main.rs and lib_mobile.rs do not try a second directory      *)
(* after a failed load, though both try the CRF model, in automatic mode); *)
(* a broken one may cost a good NER model beside it, never the CRF model.  *)
(* An NER pool has a session to take from it.  ner_enabled = false and     *)
(* ner_pool_size = 0, which the gateway accepts, is the exception: an      *)
(* empty pool needs no model.                                              *)
BackendServes == StrongestServes /\ PoolCanServe
=============================================================================
