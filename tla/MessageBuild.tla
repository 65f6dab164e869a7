---------------------------- MODULE MessageBuild ----------------------------
(***************************************************************************)
(* From a parsed payload to the published messages: PointCloudBuilder::    *)
(* build and build_detection_array on what RdiParser::Parse left in the    *)
(* frame (PayloadParsers).  build counts the detections that pass the      *)
(* filter, sizes the cloud by the count and fills it in a second pass;     *)
(* nothing but the filter keeps the second pass inside the cloud.          *)
(*                                                                         *)
(* A detection is abstracted to where its fields lie relative to the       *)
(* config: its distance may be below min_range, inside, above max_range or *)
(* not a number, and it meets min_snr and min_existence_probability or     *)
(* not.  The config does not change while the lock is held (ParamUpdate).  *)
(***************************************************************************)
EXTENDS PayloadParsers, Sequences

VARIABLES
  detections,   \* detections_storage, numbered from 1
  i,            \* the loop variable, from 1
  cloud_size,   \* size of the cloud, by PointCloud2Modifier::resize
  points,       \* the detections written to the cloud, by number
  arr,          \* the detections of the DetectionArray, by number
  build,        \* the loop the builder is in
  publish_detections   \* the parameter, fixed at construction

bvars == <<detections, i, cloud_size, points, arr, build, publish_detections>>
vars  == <<pvars, bvars>>

Detection == [distance : {"below", "inside", "above", "nan"}, strong : BOOLEAN]

Init ==
  /\ ParserInit
  /\ detections = <<>> /\ i = 1 /\ cloud_size = 0 /\ points = <<>> /\ arr = <<>>
  /\ build = "none" /\ publish_detections \in BOOLEAN

\* Comparisons with NaN are false, so NaN is not rejected.
passes_filter(det) == det.distance \notin {"below", "above"} /\ det.strong

Passing == {k \in DOMAIN detections : passes_filter(detections[k])}

BuildTo(label) ==
  build' = label /\ UNCHANGED <<pvars, detections, publish_detections>>

\* What follows the cloud: build_detection_array, when asked for.
AfterCloud == IF publish_detections THEN "array" ELSE "done"

\* on_rdi_frame begins with the frame that Parse filled.
OnRdiFrame ==
  /\ at = "rdi_parsed" /\ build = "none"
  /\ \E f \in [1 .. count["detections"] -> Detection] : detections' = f
  /\ build' = "count" /\ i' = 1
  /\ UNCHANGED <<pvars, cloud_size, points, arr, publish_detections>>

\* One turn of the loop that counts.
CountOne ==
  /\ build = "count" /\ i <= count["detections"]
  /\ cloud_size' = IF passes_filter(detections[i]) THEN cloud_size + 1
                                                   ELSE cloud_size
  /\ i' = i + 1 /\ BuildTo("count") /\ UNCHANGED <<points, arr>>

\* resize(valid_count); an empty cloud is returned as it is.
Counted ==
  /\ build = "count" /\ i > count["detections"]
  /\ i' = 1 /\ BuildTo(IF cloud_size = 0 THEN AfterCloud ELSE "fill")
  /\ UNCHANGED <<cloud_size, points, arr>>

\* Mutant of FillOne: the second pass does not filter.
FillEvery ==
  /\ build = "fill" /\ i <= count["detections"]
  /\ points' = Append(points, i)
  /\ i' = i + 1 /\ BuildTo("fill") /\ UNCHANGED <<cloud_size, arr>>

\* One turn of the loop that fills, all 18 iterators moving together.
FillOne ==
  /\ build = "fill" /\ i <= count["detections"]
  /\ points' = IF passes_filter(detections[i]) THEN Append(points, i) ELSE points
  /\ i' = i + 1 /\ BuildTo("fill") /\ UNCHANGED <<cloud_size, arr>>

Filled ==
  /\ build = "fill" /\ i > count["detections"]
  /\ i' = 1 /\ BuildTo(AfterCloud) /\ UNCHANGED <<cloud_size, points, arr>>

\* Mutant of ArrayOne: the first detection is skipped.
ArraySkipsFirst ==
  /\ build = "array" /\ i <= count["detections"]
  /\ arr' = IF i > 1 /\ passes_filter(detections[i]) THEN Append(arr, i) ELSE arr
  /\ i' = i + 1 /\ BuildTo("array") /\ UNCHANGED <<cloud_size, points>>

\* One turn of the loop of build_detection_array.
ArrayOne ==
  /\ build = "array" /\ i <= count["detections"]
  /\ arr' = IF passes_filter(detections[i]) THEN Append(arr, i) ELSE arr
  /\ i' = i + 1 /\ BuildTo("array") /\ UNCHANGED <<cloud_size, points>>

Built ==
  /\ build = "array" /\ i > count["detections"]
  /\ BuildTo("done") /\ UNCHANGED <<i, cloud_size, points, arr>>

\* The messages are published, or the payload was no good.
Return ==
  /\ at \in {"parsed", "failed"} \/ build = "done"
  /\ Forget
  /\ detections' = <<>> /\ i' = 1 /\ cloud_size' = 0 /\ points' = <<>>
  /\ arr' = <<>> /\ build' = "none" /\ UNCHANGED publish_detections

Next ==
  \/ /\ \E stream \in {"rdi", "shi", "spi"}, bytes \in DatagramSizes :
          CallParse(stream, bytes)
     /\ UNCHANGED bvars
  \/ Parse /\ UNCHANGED bvars
  \/ OnRdiFrame \/ CountOne \/ Counted \/ FillOne \/ Filled \/ ArrayOne \/ Built
  \/ Return

Spec == Init /\ [][Next]_vars

-----------------------------------------------------------------------------
(* Properties                                                              *)

TypeOK ==
  /\ ParserTypeOK
  /\ detections \in Seq(Detection) /\ i \in Nat /\ cloud_size \in Nat
  /\ points \in Seq(Nat) /\ arr \in Seq(Nat)
  /\ build \in {"none", "count", "fill", "array", "done"}
  /\ publish_detections \in BOOLEAN

\* The second pass of build stays inside the cloud that the first one sized,
\* at every write, and leaves no point of it unwritten.
FillInBounds ==
  /\ Len(points) <= cloud_size
  /\ build \in {"array", "done"} => Len(points) = cloud_size

\* The cloud of a frame holds exactly the detections that pass the filter, in
\* the order of the payload, and the array, when it is published, the same.
SameDetections ==
  build = "done" =>
    /\ {points[k] : k \in DOMAIN points} = Passing
    /\ \A k, l \in DOMAIN points : k < l => points[k] < points[l]
    /\ arr = IF publish_detections THEN points ELSE <<>>
=============================================================================
