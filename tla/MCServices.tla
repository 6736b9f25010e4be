----------------------------- MODULE MCServices -----------------------------
(***************************************************************************)
(* The services around the proxy for TLC.  They share no state, so a       *)
(* behaviour runs one of them, its subject, and leaves the others at an    *)
(* initial state; every property is still checked in every behaviour.      *)
(***************************************************************************)
EXTENDS CrashJournal, NerPool, KeyLifecycle, ImageModels, HealthStats,
        Heartbeat, MobileSession, Startup

VARIABLE subject

allVars == <<subject, vars, poolVars, keyVars, imageVars, healthVars,
             beatVars, sessionVars, startVars>>

Only(s) ==
    /\ subject = s
    /\ UNCHANGED subject
    /\ IF s = "journal" THEN TRUE ELSE UNCHANGED vars
    /\ IF s = "pool" THEN TRUE ELSE UNCHANGED poolVars
    /\ IF s = "keys" THEN TRUE ELSE UNCHANGED keyVars
    /\ IF s = "images" THEN TRUE ELSE UNCHANGED imageVars
    /\ IF s = "health" THEN TRUE ELSE UNCHANGED healthVars
    /\ IF s = "beat" THEN TRUE ELSE UNCHANGED beatVars
    /\ IF s = "session" THEN TRUE ELSE UNCHANGED sessionVars
    /\ IF s = "start" THEN TRUE ELSE UNCHANGED startVars

NoModels == [nsfw |-> FALSE, face |-> "off", dir |-> FALSE, tier |-> "off"]
Configs == {[NoModels EXCEPT !.nsfw = TRUE, !.dir = TRUE, !.tier = "detect_and_fill"],
            [NoModels EXCEPT !.face = "scrfd", !.dir = TRUE],
            [NoModels EXCEPT !.face = "ultralight"],
            [NoModels EXCEPT !.tier = "full_recognition"]}

\* Verdicts of both classifiers, one at the threshold, one of dark pixels
\* that is hentai but no drawing, and one that is no number.
Verdicts == {<<>>, <<70, 30>>, <<50, 50>>, <<4, 90, 4, 1, 1>>, <<40, 45, 5, 5, 5>>}

ServicesInit ==
    /\ subject \in {"journal", "pool", "keys", "images", "health", "beat", "session", "start"}
    /\ IF subject = "keys" THEN TRUE ELSE outside = [p \in Places |-> "absent"]
    /\ IF subject = "images" THEN TRUE ELSE imageConfig = [NoModels EXCEPT !.face = "ultralight"]
    /\ IF subject = "beat" THEN TRUE ELSE proxy = CHOOSE c \in Conditions : TRUE
    /\ IF subject = "session" THEN TRUE ELSE style = "batch"
    /\ IF subject = "start" THEN TRUE
       ELSE /\ embedded = TRUE
            /\ memory = CHOOSE m \in Memories : TRUE
            /\ settings = [mode |-> "auto", detect |-> TRUE, nerEnabled |-> TRUE, model |-> 0,
                           pool |-> CHOOSE p \in PoolSizes : TRUE, wanted |-> FALSE]
            /\ disk = [d \in Dirs |-> "absent"]
    /\ Init /\ PoolInit /\ KeyInit /\ ImageInit /\ HealthInit /\ BeatInit
    /\ SessionInit /\ StartInit
    /\ subject = "start" => settings.wanted = settings.detect

ServicesNext ==
    \/ Only("journal") /\ Next
    \/ Only("pool") /\ PoolNext
    \/ Only("keys") /\ KeyNext
    \/ Only("images") /\ ImageNext
    \/ Only("health") /\ HealthNext
    \/ Only("beat") /\ BeatNext
    \/ Only("session") /\ SessionNext
    \/ Only("start") /\ StartNext

(* The interval of the monitor fires and its requests end; the eviction    *)
(* task of the gateway runs on and time passes.                            *)
ServicesSpec ==
    /\ ServicesInit
    /\ [][ServicesNext]_allVars
    /\ WF_allVars(Only("beat") /\ TickBeat)
    /\ \A c \in Checks : WF_allVars(Only("beat") /\ BeatProgress(c))
    /\ WF_allVars(Only("images") /\ EvictIfIdle)
    /\ WF_allVars(Only("images") /\ ClearSlot)
    /\ WF_allVars(Only("images") /\ IdleTick)

(* Only the subject of a behaviour changes.                                *)
ServicesTypeOK ==
    CASE subject = "journal" -> TypeOK
      [] subject = "pool" -> PoolTypeOK
      [] subject = "keys" -> KeyTypeOK
      [] subject = "images" -> ImageTypeOK
      [] subject = "health" -> HealthTypeOK
      [] subject = "beat" -> BeatTypeOK
      [] subject = "session" -> SessionTypeOK
      [] subject = "start" -> StartTypeOK
=============================================================================
