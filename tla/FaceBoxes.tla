----------------------------- MODULE FaceBoxes -----------------------------
(***************************************************************************)
(* The face phase of one image: the boxes the anchors of BlazeFace,        *)
(* Ultra-Light or SCRFD decode to (face_detector.rs), non-maximum          *)
(* suppression, the tiles BlazeFace looks at in a large image, and the     *)
(* fill of what is left (image_pipeline.rs, image_redact.rs).              *)
(*                                                                         *)
(* The models are external: any sequence of boxes, each with a confidence. *)
(* A box is in whole pixels before it is clamped to the image; the         *)
(* rounding of f32 is not modelled.                                        *)
(***************************************************************************)
EXTENDS FiniteSets, SequencesExt, Selection

CONSTANTS
    Frames,        \* <<width, height>> of the images that are looked at
    LargeSide,     \* an image is large when a side is longer (512)
    Looks,         \* what a model may see: sequences of boxes
    TileLooks,     \* what BlazeFace may see in a tile
    FaceThreshold  \* the confidence a box needs, in percent

\* Any corners, also of a box that is turned over; a confidence in percent.
SeenBoxes == [left : Int, top : Int, right : Int, bottom : Int, score : 0..100]

ASSUME FaceAssumption ==
    /\ Looks \cup TileLooks \subseteq Seq(SeenBoxes)
    /\ \A f \in Frames : f[1] \in Nat \ {0} /\ f[2] \in Nat \ {0}
    /\ LargeSide \in Nat /\ FaceThreshold \in 1..100

Detectors == {"blazeface", "ultralight", "scrfd"}

VARIABLES
    detector,  \* the detector that runs
    frame,     \* dimensions of the image
    tileAt,    \* 0: the whole image; else the tile BlazeFace looks at
    found,     \* boxes from the model, and from the tiles so far
    faces,     \* boxes that were kept
    faceStage, \* "look", "tile", "merge", "fill" or "done"
    blanked    \* pixels that were filled

faceVars == <<detector, frame, tileAt, found, faces, faceStage, blanked>>

Pixels(f) == (0..f[1] - 1) \X (0..f[2] - 1)

FaceTypeOK ==
    /\ detector \in Detectors
    /\ frame \in Frames
    /\ tileAt \in 0..4
    /\ Range(faces) \subseteq Range(found)
    /\ faceStage \in {"look", "tile", "merge", "fill", "done"}
    /\ blanked \subseteq Pixels(frame)

FaceInit ==
    /\ detector \in Detectors
    /\ frame \in Frames
    /\ tileAt = 0
    /\ found = <<>>
    /\ faces = <<>>
    /\ faceStage = "look"
    /\ blanked = {}

-----------------------------------------------------------------------------
(* From anchors to boxes.                                                  *)
AtLeast(n, m) == IF n < m THEN m ELSE n
AtMost(n, m)  == IF n > m THEN m ELSE n

(* Each detector clamps the boxes it is sure of to the image: the corners  *)
(* towards it, and Ultra-Light each of them on both sides.  BlazeFace      *)
(* keeps a box of which nothing is left.                                   *)
Sure(look)    == Those(look, {b \in Range(look) : b.score >= FaceThreshold})
Proper(b)     == b.right > b.left /\ b.bottom > b.top
ProperBoxes(boxes)   == Those(boxes, {b \in Range(boxes) : Proper(b)})
Clamp(b, f) == [b EXCEPT !.left = AtLeast(@, 0), !.top = AtLeast(@, 0),
                         !.right = AtMost(@, f[1]), !.bottom = AtMost(@, f[2])]
BlazeFaceBoxes(look, f) == [i \in DOMAIN Sure(look) |-> Clamp(Sure(look)[i], f)]
UltraLightBoxes(look, f) ==
    LET inside(b) == [Clamp(b, f) EXCEPT !.left = AtMost(@, f[1]), !.top = AtMost(@, f[2]),
                                         !.right = AtLeast(@, 0), !.bottom = AtLeast(@, 0)]
    IN  ProperBoxes([i \in DOMAIN Sure(look) |-> inside(Sure(look)[i])])
ScrfdBoxes(look, f) == ProperBoxes([i \in DOMAIN Sure(look) |-> Clamp(Sure(look)[i], f)])
DecodeBoxes(look, f) ==
    CASE detector = "blazeface"  -> BlazeFaceBoxes(look, f)
      [] detector = "ultralight" -> UltraLightBoxes(look, f)
      [] detector = "scrfd"      -> ScrfdBoxes(look, f)

(* iou, compared with a threshold in percent.                              *)
Area(b) == (b.right - b.left) * (b.bottom - b.top)
Shared(a, b) ==
    AtLeast(AtMost(a.right, b.right) - AtLeast(a.left, b.left), 0)
    * AtLeast(AtMost(a.bottom, b.bottom) - AtLeast(a.top, b.top), 0)
IouOver(a, b, percent) ==
    LET union == Area(a) + Area(b) - Shared(a, b)
    IN  union > 0 /\ 100 * Shared(a, b) > percent * union

(* nms: in the order of confidence (equal ones as they came), a box is kept*)
(* unless it overlaps one that was kept.                                   *)
BehindSurer(k, b, boxes) ==
    /\ \A j \in 1..k : boxes[j].score >= b.score
    /\ k < Len(boxes) => boxes[k + 1].score < b.score
RankOf(b, boxes) == CHOOSE k \in 0..Len(boxes) : BehindSurer(k, b, boxes)
ByConfidence(boxes) ==
    LET sorted[i \in 0..Len(boxes)] ==
          IF i = 0 THEN <<>>
          ELSE InsertAt(sorted[i - 1], RankOf(boxes[i], sorted[i - 1]) + 1, boxes[i])
    IN  sorted[Len(boxes)]

\* Mutant: a box that was suppressed suppresses others.
NmsTransitive(boxes, percent) ==
    LET sorted == ByConfidence(boxes)
        kept   == {j \in DOMAIN boxes : \A i \in 1..j - 1 : ~IouOver(sorted[i], sorted[j], percent)}
    IN  [n \in 1..Cardinality(kept) |->
           sorted[CHOOSE j \in kept : Cardinality({i \in kept : i <= j}) = n]]

Nms(boxes, percent) ==
    LET order == ByConfidence(boxes)
        kept[i \in 0..Len(order)] ==
          IF i = 0 THEN <<>>
          ELSE IF \E k \in Range(kept[i - 1]) : IouOver(k, order[i], percent) THEN kept[i - 1]
          ELSE Append(kept[i - 1], order[i])
    IN  kept[Len(order)]

NmsThreshold == IF detector = "scrfd" THEN 40 ELSE 30

-----------------------------------------------------------------------------
Large == frame[1] > LargeSide \/ frame[2] > LargeSide

(* detect of the three detectors on the whole image; an inference that     *)
(* fails is a look without boxes.  BlazeFace goes on to the tiles of a     *)
(* large image in which it saw no face.                                    *)
LookAtImage ==
    /\ faceStage = "look"
    /\ \E look \in Looks :
         LET boxes == DecodeBoxes(look, frame) IN
         /\ found' = boxes
         /\ faces' = Nms(boxes, NmsThreshold)
         /\ IF detector = "blazeface" /\ boxes = <<>> /\ Large
            THEN faceStage' = "tile" /\ tileAt' = 1
            ELSE faceStage' = "fill" /\ UNCHANGED tileAt
    /\ UNCHANGED <<detector, frame, blanked>>

(* Four overlapping tiles, 62.5 % of the image each way.                   *)
TileSize == <<(frame[1] * 5) \div 8, (frame[2] * 5) \div 8>>
TileOrigin(t) == <<IF t \in {2, 4} THEN frame[1] - TileSize[1] ELSE 0,
                   IF t \in {3, 4} THEN frame[2] - TileSize[2] ELSE 0>>
Remap(b, o) == [b EXCEPT !.left = @ + o[1], !.right = @ + o[1],
                         !.top = @ + o[2], !.bottom = @ + o[2]]

LookAtTile ==
    /\ faceStage = "tile"
    /\ \E look \in TileLooks :
         LET boxes == Nms(DecodeBoxes(look, TileSize), NmsThreshold) IN
         found' = found \o [i \in DOMAIN boxes |-> Remap(boxes[i], TileOrigin(tileAt))]
    /\ IF tileAt < 4 THEN tileAt' = tileAt + 1 /\ UNCHANGED faceStage
       ELSE faceStage' = "merge" /\ UNCHANGED tileAt
    /\ UNCHANGED <<detector, frame, faces, blanked>>

MergeTiles ==
    /\ faceStage = "merge"
    /\ faces' = Nms(found, 30)
    /\ faceStage' = "fill"
    /\ UNCHANGED <<detector, frame, tileAt, found, blanked>>

-----------------------------------------------------------------------------
(* expand_bbox: 15 % more on each side, within the image; a conversion to  *)
(* u32 rounds down and saturates at 0.                                     *)
Percent15(n) == 15 * n
Expanded(b) ==
    LET width == b.right - b.left   height == b.bottom - b.top
        x  == AtLeast(100 * b.left - Percent15(width), 0) \div 100
        y  == AtLeast(100 * b.top - Percent15(height), 0) \div 100
        x2 == AtMost(AtLeast(100 * b.right + Percent15(width), 0) \div 100, frame[1])
        y2 == AtMost(AtLeast(100 * b.bottom + Percent15(height), 0) \div 100, frame[2])
    IN  [x |-> AtMost(x, frame[1] - 1), y |-> AtMost(y, frame[2] - 1),
         w |-> AtMost(AtLeast(x2 - x, 0), frame[1] - AtMost(x, frame[1] - 1)),
         h |-> AtMost(AtLeast(y2 - y, 0), frame[2] - AtMost(y, frame[2] - 1))]

(* solid_fill_region_elliptical: the ellipse inscribed in the box.         *)
Ellipse(e) ==
    {<<e.x + p[1], e.y + p[2]>> : p \in
        {q \in (0..e.w - 1) \X (0..e.h - 1) :
           ((2 * q[1] - e.w) * e.h) * ((2 * q[1] - e.w) * e.h)
           + ((2 * q[2] - e.h) * e.w) * ((2 * q[2] - e.h) * e.w)
           <= (e.w * e.h) * (e.w * e.h)}}

(* A face that takes more than 80 % of the image has all of it filled.     *)
Dominates(b) == 10 * Area(b) > 8 * frame[1] * frame[2]
FillOf(b) == IF Dominates(b) THEN Pixels(frame) ELSE Ellipse(Expanded(b))

FillFaces ==
    /\ faceStage = "fill"
    /\ blanked' = UNION {FillOf(b) : b \in Range(faces)}
    /\ faceStage' = "done"
    /\ UNCHANGED <<detector, frame, tileAt, found, faces>>

FaceNext == LookAtImage \/ LookAtTile \/ MergeTiles \/ FillFaces

FaceSpec == FaceInit /\ [][FaceNext]_faceVars

-----------------------------------------------------------------------------
(* What detection_validators.rs calls an error in a face: validate_bbox    *)
(* without the box of the whole image, which is filled as such, and        *)
(* validate_no_nms_violations at 0.5.                                      *)
Erroneous(b) ==
    \/ b.left >= b.right \/ b.top >= b.bottom
    \/ b.left < 0 \/ b.top < 0 \/ b.right > frame[1] \/ b.bottom > frame[2]
    \/ b.score <= 0 \/ b.score > 100

(* The pixels that lie, with all four corners, in the ellipse inscribed in *)
(* the face; and whether the margin around the face is within the image.   *)
InEllipse(x, y, b) ==
    LET w == b.right - b.left   h == b.bottom - b.top
    IN  ((2 * x - b.left - b.right) * h) * ((2 * x - b.left - b.right) * h)
        + ((2 * y - b.top - b.bottom) * w) * ((2 * y - b.top - b.bottom) * w)
        <= (w * h) * (w * h)
PixelsOfFace(b) ==
    {p \in Pixels(frame) : \A x \in {p[1], p[1] + 1}, y \in {p[2], p[2] + 1} : InEllipse(x, y, b)}
WithMargin(b) ==
    /\ 100 * b.left >= Percent15(b.right - b.left)
    /\ 100 * (frame[1] - b.right) >= Percent15(b.right - b.left)
    /\ 100 * b.top >= Percent15(b.bottom - b.top)
    /\ 100 * (frame[2] - b.bottom) >= Percent15(b.bottom - b.top)

(* Every box the model was sure of is kept, or overlaps one that was kept  *)
(* and of which the model was no less sure; a face that is kept, and is    *)
(* not at the edge of the image, has the ellipse inscribed in it filled;   *)
(* nothing outside the margins of the faces is; and what the detectors     *)
(* keep is free of what the validators call an error, except that          *)
(* BlazeFace may keep a box outside the image, or one turned over by the   *)
(* clamp, in which no ellipse is inscribed.                                *)
FacesAreHidden ==
    faceStage = "done" =>
        /\ \A b \in Range(found) : \E k \in Range(faces) :
               k.score >= b.score /\ (k = b \/ IouOver(k, b, 30))
        /\ \A b \in Range(faces) :
              (Proper(b) /\ WithMargin(b)) \/ Dominates(b) => PixelsOfFace(b) \subseteq blanked
        /\ \A p \in blanked : \E b \in Range(faces) :
               \/ Dominates(b)
               \/ /\ 100 * (p[1] + 1) > 100 * b.left - Percent15(b.right - b.left)
                  /\ 100 * p[1] < 100 * b.right + Percent15(b.right - b.left)
                  /\ 100 * (p[2] + 1) > 100 * b.top - Percent15(b.bottom - b.top)
                  /\ 100 * p[2] < 100 * b.bottom + Percent15(b.bottom - b.top)
        /\ \A b \in Range(faces) : detector = "blazeface" \/ ~Erroneous(b)
        /\ \A i, j \in DOMAIN faces : i < j => ~IouOver(faces[i], faces[j], 50)
=============================================================================
