---------------------------- MODULE TextRegions ----------------------------
(***************************************************************************)
(* The text phase of one image: ocr_engine.rs turns the probability map of *)
(* the detector into regions (connected components of the marked cells),   *)
(* reads each region with the recognizer, and image_pipeline.rs fills the  *)
(* regions by solid_fill_quad_region of image_redact.rs, all or none.      *)
(*                                                                         *)
(* The models are external: any map, and any sequence of best classes for  *)
(* a region.  Coordinates are exact fractions; the rounding of f32 is not  *)
(* modelled.  The images are within max_dimension and were not resized.    *)
(***************************************************************************)
EXTENDS Integers, Sequences, FiniteSets, SequencesExt

CONSTANTS
    MapWidth, MapHeight, \* the map of the detector, in cells
    Sizes,         \* <<width, height>> of the images that are looked at, in pixels
    ScreenSizes,   \* SCREEN_RESOLUTIONS
    BarSide,       \* the least side of an image whose top strip is looked at (100)
    ClearSets,     \* the cells that are at DET_BOX_THRESHOLD if they are marked
    MinRegion,     \* MIN_REGION_SIZE (3)
    Readings,      \* what the recognizer may make of a region: its best classes
    Confidences,   \* per step of a reading, in percent
    Dictionary,    \* classes 1..Dictionary stand for a letter, 0 for the blank
    Secrets        \* sequences of letters in which the scanner finds PII

ASSUME RegionAssumption ==
    /\ MapWidth \in Nat \ {0} /\ MapHeight \in Nat \ {0}
    /\ MinRegion \in Nat \ {0}
    /\ \A size \in Sizes : size[1] \in Nat \ {0} /\ size[2] \in Nat \ {0}
    /\ Dictionary \in Nat /\ Confidences \subseteq 0..100
    /\ Readings \subseteq Seq(Nat) /\ Secrets \subseteq Seq(Nat)

VARIABLES
    imageSize,   \* dimensions of the image
    probMap,     \* per cell: "none", "faint" (over DET_THRESHOLD) or "clear"
    cellLabel,   \* per cell: its label, 0 for none
    parents,     \* the equivalence table of the labels
    textRegions, \* regions found, in cells
    ocrTier,     \* ocr_tier
    ocrStage,    \* where the text phase is
    readings,    \* per region that was read: its text and confidence, in percent
    hidden       \* pixels that were filled

ocrVars == <<imageSize, probMap, cellLabel, parents, textRegions, ocrTier,
             ocrStage, readings, hidden>>

Cells2D == (0..MapWidth - 1) \X (0..MapHeight - 1)
Regions == [left : Nat, top : Nat, right : Nat, bottom : Nat]
OcrStages == {"prefilter", "label", "collect", "read", "decide", "fill", "skipped", "failed", "done"}

Least(S) == CHOOSE n \in S : \A m \in S : n <= m
Most(S)  == CHOOSE n \in S : \A m \in S : m <= n

OcrTypeOK ==
    /\ imageSize \in Sizes
    /\ probMap \in [Cells2D -> {"none", "faint", "clear"}]
    /\ cellLabel \in [Cells2D -> 0..Len(parents)]
    /\ \A l \in DOMAIN parents : parents[l] \in 1..l
    /\ textRegions \subseteq Regions
    /\ ocrTier \in {"detect_and_fill", "full_recognition"}
    /\ ocrStage \in OcrStages
    /\ DOMAIN readings \subseteq textRegions
    /\ hidden \subseteq (0..imageSize[1] - 1) \X (0..imageSize[2] - 1)

OcrInit ==
    /\ imageSize \in Sizes
    /\ \E marked \in SUBSET Cells2D, clear \in ClearSets :
         probMap = [c \in Cells2D |-> IF c \notin marked THEN "none"
                                      ELSE IF c \in clear THEN "clear" ELSE "faint"]
    /\ cellLabel = [c \in Cells2D |-> 0]
    /\ parents = <<>>
    /\ textRegions = {}
    /\ ocrTier \in {"detect_and_fill", "full_recognition"}
    /\ ocrStage = "prefilter"
    /\ readings = <<>>
    /\ hidden = {}

Marked == {c \in Cells2D : probMap[c] # "none"}

-----------------------------------------------------------------------------
(* What screen_guard.rs goes by.  EXIF: the software or the comment names  *)
(* a screenshot tool, or there is software and no camera; the dimensions   *)
(* of a screen, either way up; and a uniform strip at the top.             *)
CheckExif(exif) ==
    {h \in {"tool", "no_camera"} :
       \/ h = "tool" /\ "tool" \in {exif.software, exif.comment}
       \/ h = "no_camera" /\ exif.software # "none" /\ ~exif.camera}
CheckResolution ==
    {h \in {"resolution"} : imageSize \in ScreenSizes \/ <<imageSize[2], imageSize[1]>> \in ScreenSizes}
CheckStatusBar(uniform) ==
    {h \in {"bar"} : uniform /\ imageSize[1] >= BarSide /\ imageSize[2] >= BarSide}

(* detect_screenshot: a tool that is named, or two hints.                  *)
DetectScreenshot(exif, uniform) ==
    LET hints == CheckExif(exif) \cup CheckResolution \cup CheckStatusBar(uniform)
    IN  "tool" \in hints \/ Cardinality(hints) >= 2

(* has_text_likelihood: a screenshot is looked at whatever its edges are,  *)
(* another image when their density is within the band of documents.       *)
Prefilter ==
    /\ ocrStage = "prefilter"
    /\ ocrStage' \in
         {IF (guard /\ DetectScreenshot(exif, uniform)) \/ inBand THEN "label" ELSE "skipped" :
            guard \in BOOLEAN, uniform \in BOOLEAN, inBand \in BOOLEAN,
            exif \in [software : {"none", "tool", "other"}, comment : {"none", "tool"},
                      camera : BOOLEAN]}
    /\ UNCHANGED <<imageSize, probMap, cellLabel, parents, textRegions, ocrTier, readings, hidden>>

(* find_root.                                                              *)
Root(table, l) ==
    LET up[k \in DOMAIN table] == IF table[k] = k THEN k ELSE up[table[k]]
    IN  up[l]

\* Mutant: two labels that meet are not united.
UnionForgotten(table, a, b) == table

Union2(table, a, b) ==
    LET roots == {Root(table, a), Root(table, b)}
    IN  [table EXCEPT ![Most(roots)] = Least(roots)]

(* One cell of extract_regions_from_map: the label of the left or upper    *)
(* neighbour, the smaller when there are both, or a new one.               *)
LabelCell(acc, c) ==
    LET Of(d) == IF d \in Cells2D THEN acc.label[d] ELSE 0
        near  == {Of(<<c[1] - 1, c[2]>>), Of(<<c[1], c[2] - 1>>)} \ {0}
    IN  IF c \notin Marked THEN acc
        ELSE IF near = {}
        THEN [label |-> [acc.label EXCEPT ![c] = Len(acc.table) + 1],
              table |-> Append(acc.table, Len(acc.table) + 1)]
        ELSE [label |-> [acc.label EXCEPT ![c] = Least(near)],
              table |-> Union2(acc.table, Least(near), Most(near))]

Raster == [i \in 1..(MapWidth * MapHeight) |->
             <<(i - 1) % MapWidth, (i - 1) \div MapWidth>>]

Labelling ==
    LET done[n \in 0..Len(Raster)] ==
          IF n = 0 THEN [label |-> cellLabel, table |-> parents] ELSE LabelCell(done[n - 1], Raster[n])
    IN  done[Len(Raster)]

LabelComponents ==
    /\ ocrStage = "label"
    /\ cellLabel' = Labelling.label /\ parents' = Labelling.table
    /\ ocrStage' = "collect"
    /\ UNCHANGED <<imageSize, probMap, textRegions, ocrTier, readings, hidden>>

(* The box of a set of cells; its last column and row are those of the     *)
(* last cells, not the ones behind them.                                   *)
Box(cells) == [left  |-> Least({c[1] : c \in cells}), top    |-> Least({c[2] : c \in cells}),
               right |-> Most({c[1] : c \in cells}),  bottom |-> Most({c[2] : c \in cells})]

BigEnough(b) == b.right - b.left >= MinRegion /\ b.bottom - b.top >= MinRegion
HasClear(cells) == \E c \in cells : probMap[c] = "clear"

CollectRegions ==
    /\ ocrStage = "collect"
    /\ LET rootOf == [c \in Marked |-> Root(parents, cellLabel[c])]
           classes == {{c \in Marked : rootOf[c] = r} : r \in {rootOf[c] : c \in Marked}}
       IN  textRegions' = {Box(cells) : cells \in {k \in classes : BigEnough(Box(k)) /\ HasClear(k)}}
    /\ ocrStage' = IF ocrTier = "detect_and_fill" THEN "fill" ELSE "read"
    /\ UNCHANGED <<imageSize, probMap, cellLabel, parents, ocrTier, readings, hidden>>

(* The detector could not be loaded or run: fail-open.                     *)
DetectorFails ==
    /\ ocrStage = "label"
    /\ ocrStage' = "failed"
    /\ UNCHANGED <<imageSize, probMap, cellLabel, parents, textRegions, ocrTier, readings, hidden>>

-----------------------------------------------------------------------------
(* Coordinates in the image: a cell is imageSize[1] / MapWidth pixels wide  *)
(* and imageSize[2] / MapHeight high; a conversion to u32 rounds down.     *)
Capped(n, m) == IF n < m THEN n ELSE m
LeftOf(b)  == (b.left * imageSize[1]) \div MapWidth
TopOf(b)   == (b.top * imageSize[2]) \div MapHeight
WidthOf(b) == ((b.right - b.left) * imageSize[1]) \div MapWidth
HeightOf(b) == ((b.bottom - b.top) * imageSize[2]) \div MapHeight

(* The regions recognize crops; the others are passed over.                *)
Legible(b) == /\ Capped(WidthOf(b), imageSize[1] - LeftOf(b)) >= 2
              /\ Capped(HeightOf(b), imageSize[2] - TopOf(b)) >= 2

(* ctc_greedy_decode: one step, of which only the best class is known.     *)
DecodeStep(acc, class) ==
    [text |-> IF class # 0 /\ class # acc.previous /\ class <= Dictionary
              THEN Append(acc.text, class) ELSE acc.text,
     previous |-> class]
CtcDecode(classes) ==
    LET read[n \in 0..Len(classes)] ==
          IF n = 0 THEN [text |-> <<>>, previous |-> 0] ELSE DecodeStep(read[n - 1], classes[n])
    IN  read[Len(classes)].text

(* recognize on all legible regions; one without text gives no result.     *)
ReadRegions ==
    /\ ocrStage = "read"
    /\ \E shown \in [{b \in textRegions : Legible(b)} -> Readings] :
         \E sure \in [DOMAIN shown -> Confidences] :
           readings' = [b \in {r \in DOMAIN shown : CtcDecode(shown[r]) # <<>>} |->
               [text |-> CtcDecode(shown[b]), confidence |-> sure[b], shown |-> shown[b]]]
    /\ ocrStage' = "decide"
    /\ UNCHANGED <<imageSize, probMap, cellLabel, parents, textRegions, ocrTier, hidden>>

(* The recognizer could not be loaded or run: fail-open.                   *)
RecognizerFails ==
    /\ ocrStage = "read"
    /\ ocrStage' = "failed"
    /\ UNCHANGED <<imageSize, probMap, cellLabel, parents, textRegions, ocrTier, readings, hidden>>

(* The average confidence, which is 1.0 when nothing was read, below 0.80. *)
LowConfidence(order) ==
    LET total[n \in 0..Len(order)] ==
          IF n = 0 THEN 0 ELSE total[n - 1] + readings[order[n]].confidence
    IN  Len(order) # 0 /\ total[Len(order)] < 80 * Len(order)

Occurs(s, t) == \E i \in 0..Len(t) - Len(s) : SubSeq(t, i + 1, i + Len(s)) = s

(* The texts are joined by blanks (0) and scanned as one, in the order of  *)
(* a HashMap, which is any order.                                          *)
Orders(S) == {s \in [1..Cardinality(S) -> S] : Range(s) = S}
Combined(order) ==
    LET joined[n \in 0..Len(order)] ==
          IF n = 0 THEN <<>>
          ELSE IF joined[n - 1] = <<>> THEN readings[order[n]].text
          ELSE joined[n - 1] \o <<0>> \o readings[order[n]].text
    IN  joined[Len(order)]
HasPii(order) == \E s \in Secrets : Occurs(s, Combined(order))

(* Text that holds PII, or may, is filled in all regions, also in those    *)
(* that could not be read.                                                 *)
Decide ==
    /\ ocrStage = "decide"
    /\ \E order \in Orders(DOMAIN readings) :
         ocrStage' = IF LowConfidence(order) \/ HasPii(order) THEN "fill" ELSE "done"
    /\ UNCHANGED <<imageSize, probMap, cellLabel, parents, textRegions, ocrTier, readings, hidden>>

-----------------------------------------------------------------------------
(* solid_fill_quad_region: half the height of the text more above and      *)
(* below, in halves of 1/MapHeight pixel.                                  *)
PaddedTop(b) ==
    LET top == (2 * b.top - (b.bottom - b.top)) * imageSize[2] IN IF top < 0 THEN 0 ELSE top
PaddedBottom(b) ==
    Capped((2 * b.bottom + (b.bottom - b.top)) * imageSize[2], 2 * MapHeight * imageSize[2])

(* solid_fill_region, which begins within the image and ends with it.      *)
Filled(b) ==
    LET x == Capped(LeftOf(b), imageSize[1] - 1)
        y == Capped(PaddedTop(b) \div (2 * MapHeight), imageSize[2] - 1)
        width  == Capped(WidthOf(b), imageSize[1] - x)
        height == Capped((PaddedBottom(b) - PaddedTop(b)) \div (2 * MapHeight), imageSize[2] - y)
    IN  (x..x + width - 1) \X (y..y + height - 1)

FillRegions ==
    /\ ocrStage = "fill"
    /\ hidden' = UNION {Filled(b) : b \in textRegions}
    /\ ocrStage' = "done"
    /\ UNCHANGED <<imageSize, probMap, cellLabel, parents, textRegions, ocrTier, readings>>

OcrNext ==
    \/ Prefilter \/ LabelComponents \/ CollectRegions \/ DetectorFails
    \/ ReadRegions \/ RecognizerFails \/ Decide \/ FillRegions

OcrSpec == OcrInit /\ [][OcrNext]_ocrVars

-----------------------------------------------------------------------------
(* What the map shows: the sets of marked cells that hang together by      *)
(* their sides, as a definition and not as the code finds them.            *)
Beside(c, d) == (c[1] = d[1] /\ c[2] - d[2] \in {-1, 1}) \/ (c[2] = d[2] /\ c[1] - d[1] \in {-1, 1})
PatchOf(c) ==
    LET reach[near \in SUBSET Marked] ==
            LET wider == {d \in Marked : \E e \in near : d = e \/ Beside(d, e)}
            IN  IF wider = near THEN near ELSE reach[wider]
    IN  reach[{c}]
Patches == {k \in {PatchOf(c) : c \in Marked} : BigEnough(Box(k)) /\ HasClear(k)}

(* The pixels of a patch: those of its cells but for the last column and   *)
(* row, and the pixels that rounding down twice takes from these.          *)
PixelsOf(k) ==
    LET b == Box(k)
    IN  {p \in (0..imageSize[1] - 1) \X (0..imageSize[2] - 1) :
           /\ p[1] * MapWidth >= b.left * imageSize[1]
           /\ (p[1] + 2) * MapWidth <= b.right * imageSize[1]
           /\ p[2] * MapHeight >= b.top * imageSize[2]
           /\ (p[2] + 2) * MapHeight <= b.bottom * imageSize[2]}
Around(k) ==
    LET b == Box(k)
    IN  {p \in (0..imageSize[1] - 1) \X (0..imageSize[2] - 1) :
           /\ (p[1] + 1) * MapWidth > b.left * imageSize[1]
           /\ p[1] * MapWidth < b.right * imageSize[1]
           /\ (p[2] + 1) * 2 * MapHeight > PaddedTop(b)
           /\ p[2] * 2 * MapHeight < PaddedBottom(b)}

(* What a reading spells: its letters, each where its class is new.        *)
Spelled(shown) ==
    LET new == {t \in DOMAIN shown : /\ shown[t] \in 1..Dictionary
                                     /\ (t = 1 \/ shown[t - 1] # shown[t])}
    IN  [n \in 1..Cardinality(new) |->
           shown[CHOOSE t \in new : Cardinality({u \in new : u <= t}) = n]]

(* When the text phase succeeds, every patch of marked cells that is large *)
(* and clear enough has its pixels filled, whatever its shape, unless the  *)
(* image was read: with confidence and without PII in what any one region  *)
(* spells, in whatever order the regions are joined, or without a letter.  *)
(* And nothing is filled but these patches and their margins.              *)
TextIsHidden ==
    ocrStage = "done" =>
        /\ \/ \A k \in Patches : PixelsOf(k) \subseteq hidden
           \/ /\ ocrTier = "full_recognition"
              /\ \A b \in DOMAIN readings :
                    \A s \in Secrets : ~Occurs(s, Spelled(readings[b].shown))
              /\ \/ readings = <<>>
                 \/ \E b \in DOMAIN readings : readings[b].confidence >= 80
        /\ hidden \subseteq UNION {Around(k) : k \in Patches}
=============================================================================
