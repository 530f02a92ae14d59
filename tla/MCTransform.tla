---------------------------- MODULE MCTransform ----------------------------
(* Instances of Transform for TLC.  A block has 2 x 2 samples.             *)
EXTENDS Transform

Comp(h_samp, v_samp) == [h |-> h_samp, v |-> v_samp]
Image(comps, ycc, width, height) ==
    [comps |-> comps, ycc |-> ycc, width |-> width, height |-> height,
     blocks |-> << >>]

YC420 == <<Comp(2, 2), Comp(1, 1), Comp(1, 1)>>
YC422 == <<Comp(2, 1), Comp(1, 1), Comp(1, 1)>>
TwoComps == <<Comp(1, 2), Comp(1, 1)>>
LowResY == <<Comp(1, 1), Comp(2, 1), Comp(1, 1)>>
Gray == <<Comp(2, 2)>>

(* Images with and without partial iMCUs at their edges.                   *)
SomeImages == {
    Image(YC420, TRUE, 8, 4), Image(YC420, TRUE, 9, 6),
    Image(YC422, TRUE, 7, 5), Image(YC422, TRUE, 10, 3),
    Image(TwoComps, FALSE, 4, 9), Image(LowResY, TRUE, 4, 4),
    Image(Gray, FALSE, 5, 6)}
NarrowImages == {Image(YC420, TRUE, w, 4) : w \in {3, 4}}

(* The image to be dropped is coded as 4:2:0, too, and has no Cr.          *)
SmallImage ==
    Read(Image(<<Comp(2, 2), Comp(1, 1)>>, FALSE, 5, 4),
         LAMBDA c, y, x : Block("drop", y, x))

Along(size_kind, size, offset_kind, offset) ==
    [size_set |-> size_kind, size |-> size,
     offset_set |-> offset_kind, offset |-> offset]
All == Along("unset", 0, "unset", 0)
Options == [perfect : BOOLEAN, trim : BOOLEAN, force_grayscale : BOOLEAN]
NoOption == [perfect |-> FALSE, trim |-> FALSE, force_grayscale |-> FALSE]
Request(transform, o, crop, x, y, filter) ==
    [transform |-> transform, perfect |-> o.perfect, trim |-> o.trim,
     force_grayscale |-> o.force_grayscale, crop |-> crop, x |-> x, y |-> y,
     filter |-> filter]
jpegtran(r) == [tj |-> FALSE, requests |-> <<r>>]
Turns == {"none", "flip_h", "flip_v", "transpose", "transverse",
          "rot_90", "rot_180", "rot_270"}

(* jpegtran: turns with every option, turns with crops, crops that make    *)
(* the image larger, wipes and drops.                                      *)
Uncropped == {Request(t, o, FALSE, All, All, FALSE) : t \in Turns, o \in Options}
CropDirs == {Along("unset", 0, "pos", 3), Along("pos", 2, "pos", 1),
             Along("pos", 3, "neg", 0), Along("force", 3, "pos", 5)}
Cropped == {Request(t, o, TRUE, x, y, FALSE) :
               t \in Turns, x \in CropDirs,
               y \in {All, Along("unset", 0, "pos", 3), Along("pos", 3, "neg", 0)},
               o \in {NoOption, [NoOption EXCEPT !.trim = TRUE],
                      [NoOption EXCEPT !.force_grayscale = TRUE]}}
Enlarged == {Request("none", NoOption, TRUE, x, y, FALSE) :
               x \in {All, Along("pos", 2, "pos", 1), Along("pos", 17, "pos", 5),
                      Along("force", 17, "pos", 6), Along("reflect", 21, "pos", 9),
                      Along("reflect", 18, "neg", 0)},
               y \in {All, Along("unset", 0, "pos", 2), Along("pos", 13, "neg", 1)}}
WipedParts == {Request("wipe", NoOption, TRUE, x, y, FALSE) :
               x \in {All} \cup {Along(k, size, "pos", offset) :
                        k \in {"pos", "force", "reflect"},
                        size \in {2, 4, 5}, offset \in {0, 3, 5}},
               y \in {All, Along("pos", 2, "pos", 1)}}
Dropped == {Request("drop", NoOption, TRUE, Along("pos", 5, "pos", x),
                    Along("pos", 4, o, y), FALSE) :
               x \in 0 .. 4, y \in 0 .. 2, o \in {"pos", "neg"}}

(* tjTransform: two transforms of the one source, cropped or not.  A       *)
(* filter is used with a transform that has arrays of its own.             *)
tjCrops == {<<FALSE, All, All>>,
            <<TRUE, Along("pos", 3, "pos", 4), Along("unset", 0, "pos", 0)>>,
            <<TRUE, Along("unset", 0, "pos", 0), Along("pos", 2, "pos", 4)>>}
tjRequests == {Request(t, NoOption, crop[1], crop[2], crop[3], filter) :
                  t \in {"none", "flip_h", "rot_90"}, crop \in tjCrops,
                  filter \in BOOLEAN}
HasOwnArrays(r) == r.transform = "none" => r.crop /\ r.x.offset > 0
Pairs == {<<a, b>> : a \in {r \in tjRequests : r.filter => HasOwnArrays(r)},
                     b \in {r \in tjRequests : ~r.filter}}

SomeJobs ==
    {jpegtran(r) : r \in Uncropped \cup Cropped \cup Enlarged \cup WipedParts
                         \cup Dropped}
    \cup {[tj |-> TRUE, requests |-> pair] : pair \in Pairs}
(* These jobs leave the source alone while they need it; FilterJobs do not.*)
ASSUME SomeJobsLeaveSource == Jobs = SomeJobs => SourceStays

NarrowJobs == {jpegtran(Request("none", NoOption, TRUE,
                                Along("reflect", size, "pos", 0), All, FALSE)) :
                  size \in 4 .. 30}
FilterJobs == {[tj |-> TRUE,
                requests |-> <<Request(s, NoOption, FALSE, All, All, TRUE),
                               Request(t, NoOption, FALSE, All, All, FALSE)>>] :
                  s \in Turns, t \in Turns}
=============================================================================
