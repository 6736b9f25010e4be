---------------------------- MODULE ImageModels ----------------------------
(***************************************************************************)
(* ImageModelManager of image_pipeline.rs: six ONNX models, each loaded    *)
(* into its slot by the first image that needs it, and cleared by the      *)
(* eviction task once no image was begun for the idle timeout, or at once  *)
(* when a phone runs out of memory.  Images are processed concurrently;    *)
(* each goes through NSFW, faces and text, and every model may fail to     *)
(* load or to run, which leaves its phase undone (fail-open).              *)
(*                                                                         *)
(* A slot is locked while its model is loaded and cloned, which is one     *)
(* step.  An inference holds a clone and no slot.  The idle eviction holds *)
(* last_use from its check to its last slot.                               *)
(***************************************************************************)
EXTENDS Integers, FiniteSets, Sequences

CONSTANTS
    Images,        \* images to process
    ImageConfigs,  \* sections of the configuration: what to detect, with what
    IdleTimeout,   \* model_idle_timeout_secs, in ticks
    Tiles,         \* tiles of a large image (4 in the code)
    NsfwThreshold, \* nsfw_threshold, in percent
    NsfwOutputs    \* what the classifier may give: percentages per class

ASSUME ImageAssumption ==
    /\ IdleTimeout \in Nat
    /\ Tiles \in Nat
    /\ NsfwThreshold \in 0..100
    /\ \A p \in NsfwOutputs : p \in Seq(0..100) /\ Len(p) \in {0, 2, 5}
    /\ ImageConfigs \subseteq
         [nsfw : BOOLEAN, face : {"scrfd", "ultralight", "blazeface", "off"},
          dir : BOOLEAN, tier : {"detect_and_fill", "full_recognition", "off"}]

\* The order in which the evictions clear the slots.
Slots == <<"nsfw", "blazeface", "scrfd", "ultralight", "detector", "recognizer">>
SlotNames == {Slots[i] : i \in DOMAIN Slots}

VARIABLES
    imageConfig, \* the configuration of this process
    slot,        \* per model: whether its slot is filled
    idle,        \* ticks since last_use, up to the timeout
    evictor,     \* the eviction that runs: its kind, and the slot it is at
    phase,       \* per image: the model it needs next
    clone,       \* per image: the model whose clone it holds
    tile,        \* per image: the tile BlazeFace looks at, 0 for the whole
    record       \* per image: what its phases did

imageVars == <<imageConfig, slot, idle, evictor, phase, clone, tile, record>>

Blank == [failed |-> {}, filled |-> {}, found |-> {}, readings |-> "none"]
NoEviction == [kind |-> "none", at |-> 1]

ImageTypeOK ==
    /\ imageConfig \in ImageConfigs
    /\ slot \in [SlotNames -> BOOLEAN]
    /\ idle \in 0..IdleTimeout
    /\ evictor \in [kind : {"none", "idle", "pressure"}, at : 1..Len(Slots)]
    /\ phase \in [Images -> SlotNames \cup {"waiting", "done"}]
    /\ clone \in [Images -> SlotNames \cup {"none"}]
    /\ tile \in [Images -> 0..Tiles]
    /\ record \in [Images -> [failed : SUBSET SlotNames,
                             filled : SUBSET {"image", "faces", "text"},
                             found : SUBSET {"nsfw", "faces", "text"},
                             readings : {"none", "sure", "doubtful"}]]

ImageInit ==
    /\ imageConfig \in ImageConfigs
    /\ slot = [s \in SlotNames |-> FALSE]
    /\ idle = 0
    /\ evictor = NoEviction
    /\ phase = [i \in Images |-> "waiting"]
    /\ clone = [i \in Images |-> "none"]
    /\ tile = [i \in Images |-> 0]
    /\ record = [i \in Images |-> Blank]

-----------------------------------------------------------------------------
(* Which model comes next.                                                 *)

(* The text phase: skipped without a configuration for it, or when the     *)
(* image does not look as if it held text.                                 *)
TextPhase == IF imageConfig.tier = "off" THEN {"done"} ELSE {"detector", "done"}

(* detect_faces: the configured detector, or BlazeFace when the model      *)
(* directory of that detector is not configured.                           *)
FacePhase ==
    CASE imageConfig.face = "off" -> TextPhase
      [] imageConfig.face # "off" /\ ~imageConfig.dir -> {"blazeface"}
      [] OTHER -> {imageConfig.face}

FirstPhase == IF imageConfig.nsfw THEN {"nsfw"} ELSE FacePhase

(* The phase after that of a model which gave no result.                   *)
PhaseAfter(s) ==
    CASE s = "nsfw" -> FacePhase
      [] s \in {"scrfd", "ultralight", "blazeface"} -> TextPhase
      [] OTHER -> {"done"}

(* The phase after a load that failed: SCRFD and Ultra-Light give way to   *)
(* BlazeFace.                                                              *)
Instead(s) == IF s \in {"scrfd", "ultralight"} THEN {"blazeface"} ELSE PhaseAfter(s)

-----------------------------------------------------------------------------
(* process_image stamps last_use, and waits for it while models are being  *)
(* evicted.                                                                *)
Begin(i) ==
    /\ phase[i] = "waiting"
    /\ evictor.kind # "idle"
    /\ idle' = 0
    /\ \E p \in FirstPhase : phase' = [phase EXCEPT ![i] = p]
    /\ UNCHANGED <<imageConfig, slot, evictor, clone, tile, record>>

Tiled(i, s) == s = "blazeface" /\ tile[i] > 0

(* What follows a look of BlazeFace that showed no face: on a large image  *)
(* the next tile, otherwise the next phase with what the tiles found.      *)
NextLook(i, large) ==
    IF tile[i] < Tiles /\ (tile[i] > 0 \/ large)
    THEN /\ tile' = [tile EXCEPT ![i] = @ + 1]
         /\ UNCHANGED phase
    ELSE /\ tile' = [tile EXCEPT ![i] = 0]
         /\ \E p \in TextPhase : phase' = [phase EXCEPT ![i] = p]

Proceed(i, s, next, large) ==
    IF s = "blazeface" THEN NextLook(i, large)
    ELSE /\ \E p \in next : phase' = [phase EXCEPT ![i] = p]
         /\ UNCHANGED tile

\* Mutant: the slot is unlocked between the load and the clone.
GetModelLate(i, s) ==
    /\ phase[i] = s
    /\ clone[i] = "none"
    /\ IF slot[s]
       THEN \/ /\ clone' = [clone EXCEPT ![i] = s]
               /\ UNCHANGED <<slot, record, phase, tile>>
            \/ /\ evictor.kind # "none"
               /\ Proceed(i, s, PhaseAfter(s), FALSE)
               /\ UNCHANGED <<slot, clone, record>>
       ELSE /\ slot' = [slot EXCEPT ![s] = TRUE]
            /\ UNCHANGED <<clone, record, phase, tile>>
    /\ UNCHANGED <<imageConfig, idle, evictor>>

(* Under the lock of the slot: load the model unless it is there, and      *)
(* clone it.  A load that fails leaves the phase to its fallback, or       *)
(* undone.                                                                 *)
GetModel(i, s) ==
    /\ phase[i] = s
    /\ clone[i] = "none"
    /\ \/ /\ slot' = [slot EXCEPT ![s] = TRUE]
          /\ clone' = [clone EXCEPT ![i] = s]
          /\ UNCHANGED <<record, phase, tile>>
       \/ /\ ~slot[s]
          /\ record' = [record EXCEPT ![i].failed = @ \cup {s}]
          /\ \E large \in BOOLEAN : Proceed(i, s, Instead(s), large)
          /\ UNCHANGED <<slot, clone>>
    /\ UNCHANGED <<imageConfig, idle, evictor>>

Drop(i) == clone' = [clone EXCEPT ![i] = "none"]
OnlyImage == UNCHANGED <<imageConfig, slot, idle, evictor>>

(* The inference fails, by an error or a panic that is caught: there is no *)
(* fallback to another model.                                              *)
RunFails(i) ==
    LET s == clone[i] IN
    /\ s # "none"
    /\ record' = [record EXCEPT ![i].failed = @ \cup {s}]
    /\ Drop(i)
    /\ \E large \in BOOLEAN : Proceed(i, s, PhaseAfter(s), large)
    /\ OnlyImage

(* classify: drawings, hentai, neutral, porn and sexy, or safe and unsafe, *)
(* or, as the empty sequence, logits that are no numbers, which are taken  *)
(* for a neutral image.  What looks like hentai counts in drawings only.   *)
NsfwScore(p) ==
    CASE p = <<>> -> 0
      [] Len(p) = 2 -> p[2]
      [] Len(p) = 5 -> p[4] + p[5] + (IF p[1] >= 10 THEN p[2] ELSE 0)

IsNsfw(p) == p # <<>> /\ NsfwScore(p) >= NsfwThreshold

(* NSFW: the whole image is filled and nothing else looked at.             *)
Classify(i) ==
    /\ clone[i] = "nsfw"
    /\ Drop(i)
    /\ UNCHANGED tile
    /\ \E p \in NsfwOutputs :
         \/ /\ IsNsfw(p)
            /\ record' = [record EXCEPT ![i].found = @ \cup {"nsfw"}, ![i].filled = {"image"}]
            /\ phase' = [phase EXCEPT ![i] = "done"]
         \/ /\ ~IsNsfw(p)
            /\ \E q \in FacePhase : phase' = [phase EXCEPT ![i] = q]
            /\ UNCHANGED record
    /\ OnlyImage

(* Faces, when there are some, are filled: the whole image when one takes  *)
(* most of it.  A face on a tile is kept while the other tiles are looked  *)
(* at.                                                                     *)
DetectFaces(i) ==
    LET s == clone[i] IN
    /\ s \in {"scrfd", "ultralight", "blazeface"}
    /\ Drop(i)
    /\ \/ /\ \E fill \in {"faces"} \cup (IF Tiled(i, s) THEN {} ELSE {"image"}) :
               record' = [record EXCEPT ![i].found = @ \cup {"faces"},
                                        ![i].filled = @ \cup {fill}]
          /\ IF Tiled(i, s) THEN NextLook(i, TRUE)
             ELSE /\ \E p \in TextPhase : phase' = [phase EXCEPT ![i] = p]
                  /\ UNCHANGED tile
       \/ /\ \E large \in BOOLEAN : Proceed(i, s, TextPhase, large)
          /\ UNCHANGED record
    /\ OnlyImage

(* Text regions: filled at once, or left to the recognizer.                *)
DetectText(i) ==
    /\ clone[i] = "detector"
    /\ Drop(i)
    /\ UNCHANGED tile
    /\ \E regions \in {{}, {"text"}} :
         record' = [record EXCEPT
           ![i].found = @ \cup regions,
           ![i].filled = IF imageConfig.tier = "detect_and_fill" THEN @ \cup regions ELSE @]
    /\ phase' = [phase EXCEPT ![i] =
           IF imageConfig.tier = "detect_and_fill" THEN "done" ELSE "recognizer"]
    /\ OnlyImage

\* Mutant: text that cannot be read well is scanned like any other.
ReadTextTrusting(i) ==
    /\ clone[i] = "recognizer"
    /\ Drop(i)
    /\ UNCHANGED tile
    /\ \E read \in {"none", "sure", "doubtful"}, pii \in BOOLEAN :
         record' = [record EXCEPT
           ![i].readings = read,
           ![i].filled = IF pii THEN @ \cup (record[i].found \cap {"text"}) ELSE @]
    /\ phase' = [phase EXCEPT ![i] = "done"]
    /\ OnlyImage

(* Recognized text is scanned; when it holds PII, or is not read with      *)
(* confidence, every region is filled.  Where no region gave any text the  *)
(* confidence is 1.0 and there is nothing to scan: nothing is filled.      *)
ReadText(i) ==
    /\ clone[i] = "recognizer"
    /\ Drop(i)
    /\ UNCHANGED tile
    /\ \E read \in {"none", "sure", "doubtful"}, pii \in BOOLEAN :
         /\ "text" \notin record[i].found => read = "none"
         /\ read = "none" => ~pii
         /\ record' = [record EXCEPT
              ![i].readings = read,
              ![i].filled = IF pii \/ read = "doubtful"
                            THEN @ \cup (record[i].found \cap {"text"}) ELSE @]
    /\ phase' = [phase EXCEPT ![i] = "done"]
    /\ OnlyImage

-----------------------------------------------------------------------------
\* Mutant: an eviction waits for the images that are being processed.
EvictWhenQuiet ==
    /\ evictor = NoEviction
    /\ idle = IdleTimeout
    /\ \A i \in Images : phase[i] \in {"waiting", "done"}
    /\ evictor' = [kind |-> "idle", at |-> 1]
    /\ UNCHANGED <<imageConfig, slot, idle, phase, clone, tile, record>>

(* evict_if_idle, from the eviction task of the server.                    *)
EvictIfIdle ==
    /\ evictor = NoEviction
    /\ idle = IdleTimeout
    /\ evictor' = [kind |-> "idle", at |-> 1]
    /\ UNCHANGED <<imageConfig, slot, idle, phase, clone, tile, record>>

(* force_evict, on a memory warning of a phone: nothing is waited for.     *)
ForceEvict ==
    /\ evictor = NoEviction
    /\ evictor' = [kind |-> "pressure", at |-> 1]
    /\ UNCHANGED <<imageConfig, slot, idle, phase, clone, tile, record>>

ClearSlot ==
    /\ evictor.kind # "none"
    /\ slot' = [slot EXCEPT ![Slots[evictor.at]] = FALSE]
    /\ evictor' = IF evictor.at = Len(Slots) THEN NoEviction
                  ELSE [evictor EXCEPT !.at = @ + 1]
    /\ UNCHANGED <<imageConfig, idle, phase, clone, tile, record>>

IdleTick ==
    /\ idle < IdleTimeout
    /\ idle' = idle + 1
    /\ UNCHANGED <<imageConfig, slot, evictor, phase, clone, tile, record>>

Work(i) ==
    \/ \E s \in SlotNames : GetModel(i, s)
    \/ RunFails(i) \/ Classify(i) \/ DetectFaces(i) \/ DetectText(i) \/ ReadText(i)

ImageNext ==
    \/ \E i \in Images : Begin(i) \/ Work(i)
    \/ EvictIfIdle \/ ForceEvict \/ ClearSlot \/ IdleTick

ImageSpec == ImageInit /\ [][ImageNext]_imageVars

-----------------------------------------------------------------------------
(* An eviction never costs a result: a phase is left undone only when its  *)
(* model could not be loaded or its inference failed, however evictions    *)
(* and other images interleave.                                            *)
SkippedMeansFailed ==
    [][\A i \in Images :
          \/ <<phase[i], tile[i]>>' = <<phase[i], tile[i]>>
          \/ phase[i] \in {"waiting", clone[i]} \cup record'[i].failed]_imageVars

(* Text that was found leaves the pipeline visible only when the whole     *)
(* image is filled, when it was read with confidence and held no PII, when *)
(* the recognizer failed, or when it made no letter of it: there the code  *)
(* falls short of image_pipeline.rs:627, which redacts what is not read    *)
(* reliably.                                                               *)
VisibleTextWasRead ==
    \A i \in Images :
        /\ phase[i] = "done"
        /\ "text" \in record[i].found
        /\ record[i].filled \cap {"text", "image"} = {}
        => \/ record[i].readings # "doubtful"
           \/ "recognizer" \in record[i].failed

(* Models are given back: once images stop coming, every slot is empty in  *)
(* the end, also when the last image filled one behind an eviction.        *)
ModelsAreReleased == <>[](\A s \in SlotNames : ~slot[s])
=============================================================================
