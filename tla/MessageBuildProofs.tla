------------------------- MODULE MessageBuildProofs -------------------------
(***************************************************************************)
(* Theorems about MessageBuild, for every set of datagram sizes, every     *)
(* range of counts and every capacity.                                     *)
(*                                                                         *)
(* The parsers' cursor argument is ParserInv: at each part of a payload    *)
(* the cursor is where the layout, with the counts declared so far, puts   *)
(* that part; the arrays not reached yet have no entries; and the arrays   *)
(* that have entries lie inside the payload and before high.               *)
(***************************************************************************)
EXTENDS MessageBuild, FiniteSetTheorems, SequenceTheorems, TLAPS

\* Where the cursor is at each part of the payload.
Cursor ==
  /\ at \in {"idle", "rdi", "shi", "spi"} => offset = 0 /\ high = 0
  /\ at = "detections"  => kRdiHeaderSize <= len
  /\ at = "op_modes"    => offset = 24
  /\ at = "status"      => offset = 25 + declared["op_modes"]
  /\ at = "inputs"      => offset = 29 + declared["op_modes"]
  /\ at = "time_sync"   => offset = 30 + declared["op_modes"] + 2 * declared["inputs"]
  /\ at = "calibration" => offset = 31 + declared["op_modes"] + 2 * declared["inputs"]
  /\ at = "fov"         => offset = 57
  /\ at = "objects"     => offset = 58 + 17 * declared["fov"]
  /\ at = "targets"     => offset = 59 + 17 * declared["fov"] + 9 * declared["objects"]

\* The arrays behind the cursor.
Passed ==
  CASE at \in {"status", "inputs"}         -> {"op_modes"}
    [] at \in {"time_sync", "calibration"} -> {"op_modes", "inputs"}
    [] at = "objects"                      -> {"fov"}
    [] at = "targets"                      -> {"fov", "objects"}
    [] at = "rdi_parsed"                   -> {"detections"}
    [] at \in {"parsed", "failed"}         -> Arrays \ {"detections"}
    [] OTHER                               -> {}

\* EntriesBacked, with the layout written out: n entries of d declared elements
\* of w bytes, of which the last part takes p, from place on.
Backed(n, d, w, p, place, cap) ==
  n > 0 => /\ place + d * w <= len
           /\ place + d * (w - p) + n * p <= high
           /\ n <= cap

AllBacked ==
  LET op == declared["op_modes"]
      in == declared["inputs"]
      fv == declared["fov"]
      ob == declared["objects"]
  IN  /\ Backed(count["detections"], count["detections"], 51, 51, 36, kRdiMaxDetections)
      /\ Backed(count["op_modes"], op, 1, 1, 25, MaxOperationModes)
      /\ Backed(count["inputs"], in, 2, 1, 30 + op, MaxInputSignals)
      /\ Backed(count["calibration"], declared["calibration"], 3, 1,
                32 + op + 2 * in, MaxCalibrations)
      /\ Backed(count["fov"], fv, 17, 17, 58, MaxFovSegments)
      /\ Backed(count["objects"], ob, 9, 9, 59 + 17 * fv, MaxObjectTypes)
      /\ Backed(count["targets"], declared["targets"], 16, 16,
                60 + 17 * fv + 9 * ob, MaxRefTargets)

ParserInv ==
  /\ ParserTypeOK
  /\ offset <= len /\ high <= len
  /\ Cursor
  /\ \A a \in Arrays \ Passed : count[a] = 0
  /\ AllBacked
  /\ AllDetectionsTaken

\* ParserInv says what the runs check of the parsers.
LEMMA ParserInvSuffices == ParserInv => NeverReadsPastEnd /\ EntriesBacked
<1> SUFFICES ASSUME ParserInv PROVE EntriesBacked
  BY DEF ParserInv, NeverReadsPastEnd
<1> USE DEF AllBacked, Backed, ParserTypeOK, ArrayEnd, EntriesEnd, Place, ElementSize,
            LastPartSize, Capacity, Arrays, kRdiHeaderSize, kRdiDetectionSize,
            kFovSegmentSize, kObjectTypeSize, kRefTargetSize, kCommonHeaderSize,
            kSpiMinSize, kPoseSize
<1> DEFINE Claim(a) == count[a] > 0 => /\ ArrayEnd(a) <= len
                                       /\ EntriesEnd(a) <= high
                                       /\ count[a] <= Capacity[a]
<1>1. Claim("detections")
  <2>1. count["detections"] > 0 => declared["detections"] * (51 - 51) = 0
    BY DEF ParserInv
  <2> QED BY <2>1 DEF ParserInv
<1>2. Claim("op_modes")
  BY DEF ParserInv
<1>3. Claim("inputs")
  BY DEF ParserInv
<1>4. Claim("calibration")
  BY DEF ParserInv
<1>5. Claim("fov")
  BY DEF ParserInv
<1>6. Claim("objects")
  BY DEF ParserInv
<1>7. Claim("targets")
  BY DEF ParserInv
<1>8. \A a \in Arrays : Claim(a)
  <2> HIDE DEF Claim
  <2> QED BY <1>1, <1>2, <1>3, <1>4, <1>5, <1>6, <1>7
<1> HIDE DEF ArrayEnd, EntriesEnd, Capacity
<1> QED BY <1>8 DEF EntriesBacked

\* The invariant is about the parser's variables only.
LEMMA ParserFrame == ParserInv /\ UNCHANGED pvars => ParserInv'
<1> SUFFICES ASSUME ParserInv, UNCHANGED pvars PROVE ParserInv'
  OBVIOUS
<1>1. ParserTypeOK' /\ offset' <= len' /\ high' <= len'
  BY DEF pvars, ParserInv, ParserTypeOK
<1>2. Cursor' /\ AllDetectionsTaken'
  BY DEF pvars, ParserInv, Cursor, AllDetectionsTaken
<1>3. Passed' = Passed
  BY DEF pvars, Passed
<1>4. AllBacked'
  BY DEF pvars, ParserInv, AllBacked, Backed
<1> QED BY <1>1, <1>2, <1>3, <1>4 DEF ParserInv, pvars

\* Before the first datagram nothing was read.
LEMMA ParserInitOk == ParserInit => ParserInv
BY ParserConstants
DEF ParserInit, ParserInv, ParserTypeOK, NoCounts, Arrays, Labels, Cursor, Passed,
    AllBacked, Backed, AllDetectionsTaken

\* When the next datagram may come, nothing of the last is left.
LEMMA ForgetOk == Forget => ParserInv'
BY ParserConstants
DEF Forget, ParserInv, ParserTypeOK, NoCounts, Arrays, Labels, Cursor, Passed,
    AllBacked, Backed, AllDetectionsTaken

\* What a step at an array with elements of w bytes, p of them in the last of
\* the parallel arrays, amounts to: either Parse ends, or the cursor moves behind
\* the d elements declared, all inside the payload, and the message has n entries.
ArrayEffect(a, next, missing, w, p, cap, d) ==
  /\ at = a /\ len' = len /\ offset' \in Nat /\ high' \in Nat
  /\ offset' <= len /\ high <= high' /\ high' <= len
  /\ \/ /\ at' \in {missing, "failed"} /\ count' = count
        /\ declared' \in {declared, [declared EXCEPT ![a] = d]}
     \/ /\ at' = next /\ declared' = [declared EXCEPT ![a] = d]
        /\ offset' = offset + 1 + d * w
        /\ \E n \in Nat :
             /\ count' = [count EXCEPT ![a] = n] /\ n <= cap
             /\ n > 0 => offset + 1 + d * (w - p) + n * p <= high'

\* For the six shapes that arrays have in the SHI and SPI payloads.
LEMMA ArrayHasEffect ==
  ASSUME ParserInv, NEW a, NEW next, NEW missing, NEW parts, NEW elem,
         <<parts, elem>> \in {<<1, 1>>, <<2, 1>>, <<3, 1>>, <<1, 17>>, <<1, 9>>,
                              <<1, 16>>},
         NEW cap \in Nat, NEW d \in Bytes,
         Array(a, next, missing, parts, elem, cap, d)
  PROVE  ArrayEffect(a, next, missing, parts * elem, elem, cap, d)
<1> d \in Nat
  BY ParserConstants
<1> DEFINE n == Lesser(d, cap)
<1>0. n \in Nat /\ n <= d /\ n <= cap
  BY DEF Lesser
<1>1. CASE offset >= len
  BY <1>1 DEF Array, Ends, ArrayEffect, ParserInv, ParserTypeOK
<1>2. CASE offset < len /\ ~ArrayFits(d, parts * elem)
  BY <1>2 DEF Array, Consume, Greater, ArrayEffect, ParserInv, ParserTypeOK
<1>3. ASSUME offset < len, ArrayFits(d, parts * elem)
      PROVE  ArrayEffect(a, next, missing, parts * elem, elem, cap, d)
  <2>0. /\ at = a /\ len' = len /\ at' = next
        /\ declared' = [declared EXCEPT ![a] = d] /\ count' = [count EXCEPT ![a] = n]
        /\ Consume(IF n = 0 THEN offset + 1
                   ELSE offset + 1 + (parts - 1) * d * elem + n * elem,
                   offset + 1 + d * (parts * elem))
    BY <1>3 DEF Array, AfterArray, ParserInv, ParserTypeOK
  <2>1. /\ len \in Nat /\ offset \in Nat /\ high \in Nat /\ high <= len
        /\ offset + 1 + d * (parts * elem) <= len
    BY <1>3 DEF ArrayFits, ParserInv, ParserTypeOK
  <2> DEFINE Moved ==
               /\ offset' \in Nat /\ high' \in Nat
               /\ offset' = offset + 1 + d * (parts * elem)
               /\ offset' <= len /\ high <= high' /\ high' <= len
               /\ n > 0 => offset + 1 + d * (parts * elem - elem) + n * elem <= high'
  <2> HIDE DEF n
  <2>2. CASE parts = 1 /\ elem = 1
    <3>1. Moved
      BY <1>0, <2>0, <2>1, <2>2 DEF Consume, Greater
    <3> QED BY <1>0, <2>0, <3>1 DEF ArrayEffect
  <2>3. CASE parts = 2 /\ elem = 1
    <3>1. Moved
      BY <1>0, <2>0, <2>1, <2>3 DEF Consume, Greater
    <3> QED BY <1>0, <2>0, <3>1 DEF ArrayEffect
  <2>4. CASE parts = 3 /\ elem = 1
    <3>1. Moved
      BY <1>0, <2>0, <2>1, <2>4 DEF Consume, Greater
    <3> QED BY <1>0, <2>0, <3>1 DEF ArrayEffect
  <2>5. CASE parts = 1 /\ elem = 9
    <3>1. Moved
      BY <1>0, <2>0, <2>1, <2>5 DEF Consume, Greater
    <3> QED BY <1>0, <2>0, <3>1 DEF ArrayEffect
  <2>6. CASE parts = 1 /\ elem = 16
    <3>1. Moved
      BY <1>0, <2>0, <2>1, <2>6 DEF Consume, Greater
    <3> QED BY <1>0, <2>0, <3>1 DEF ArrayEffect
  <2>7. CASE parts = 1 /\ elem = 17
    <3>1. Moved
      BY <1>0, <2>0, <2>1, <2>7 DEF Consume, Greater
    <3> QED BY <1>0, <2>0, <3>1 DEF ArrayEffect
  <2> QED BY <2>2, <2>3, <2>4, <2>5, <2>6, <2>7
<1> QED BY <1>1, <1>2, <1>3 DEF ParserInv, ParserTypeOK

\* A header or fixed fields, read only when they are there.
LEMMA FixedPartsKeep ==
  ASSUME ParserInv,
         RdiHeader \/ ShiHeader \/ SpiHeader \/ Fields("status", 4, "inputs")
         \/ Fields("time_sync", 1, "calibration")
  PROVE  ParserInv'
<1> USE DEF ParserInv, ParserTypeOK, Labels, Arrays, Cursor, Passed, AllBacked, Backed,
            AllDetectionsTaken, Ends, Consume, Greater, kRdiHeaderSize
<1>1. CASE RdiHeader
  BY <1>1, ParserConstants DEF RdiHeader
<1>2. CASE ShiHeader
  BY <1>2, ParserConstants DEF ShiHeader, kShiMinSize, kCommonHeaderSize
<1>3. CASE SpiHeader
  BY <1>3, ParserConstants DEF SpiHeader, kSpiMinSize, kCommonHeaderSize, kPoseSize
<1>4. CASE Fields("status", 4, "inputs")
  BY <1>4, ParserConstants DEF Fields
<1>5. CASE Fields("time_sync", 1, "calibration")
  BY <1>5, ParserConstants DEF Fields
<1> QED BY <1>1, <1>2, <1>3, <1>4, <1>5

\* The number of detections taken fits, is allowed, and is as large as it can
\* be.
LEMMA DetectionsKeep ==
  ASSUME ParserInv, NEW n \in Words, RdiDetections(n)
  PROVE  ParserInv'
<1> DEFINE c == Clamped(n)
           k == FittingDetections(c)
<1>1. n \in Nat /\ kRdiMaxDetections \in Nat
  BY ParserConstants
<1>2. c \in Nat /\ c <= kRdiMaxDetections /\ c \in {n, kRdiMaxDetections}
  BY <1>1 DEF Clamped, Lesser
<1>3. at = "detections" /\ len \in Nat /\ 36 <= len
  BY DEF RdiDetections, ParserInv, ParserTypeOK, Cursor, kRdiHeaderSize
<1>4. /\ k \in Nat /\ k <= c /\ 36 + k * 51 <= len
      /\ k = c \/ 36 + (k + 1) * 51 > len
  <2> HIDE DEF c
  <2>1. CASE len < 36 + c * 51
    BY <1>2, <1>3, <2>1 DEF FittingDetections, kRdiHeaderSize, kRdiDetectionSize
  <2>2. CASE ~(len < 36 + c * 51)
    BY <1>2, <1>3, <2>2 DEF FittingDetections, kRdiHeaderSize, kRdiDetectionSize
  <2> QED BY <2>1, <2>2
<1>5. /\ declared' = [declared EXCEPT !["detections"] = n]
      /\ count' = [count EXCEPT !["detections"] = k]
      /\ Consume(36 + k * 51, offset) /\ at' = "rdi_parsed" /\ len' = len
  BY DEF RdiDetections, kRdiHeaderSize, kRdiDetectionSize
<1> HIDE DEF c, k
<1> QED
  BY <1>1, <1>2, <1>3, <1>4, <1>5, ParserConstants
  DEF ParserInv, ParserTypeOK, Labels, Arrays, Cursor, Passed, AllBacked, Backed,
      AllDetectionsTaken, Consume, Greater, kRdiHeaderSize, kRdiDetectionSize

\* Every array of the SHI and SPI payloads.
LEMMA ArraysKeep ==
  ASSUME ParserInv, NEW d \in Bytes,
         \/ Array("op_modes", "status", "failed", 1, 1, MaxOperationModes, d)
         \/ Array("inputs", "time_sync", "failed", 2, 1, MaxInputSignals, d)
         \/ Array("calibration", "parsed", "failed", 3, 1, MaxCalibrations, d)
         \/ Array("fov", "objects", "parsed", 1, kFovSegmentSize, MaxFovSegments, d)
         \/ Array("objects", "targets", "parsed", 1, kObjectTypeSize, MaxObjectTypes, d)
         \/ Array("targets", "parsed", "parsed", 1, kRefTargetSize, MaxRefTargets, d)
  PROVE  ParserInv'
<1> USE DEF ParserInv, ParserTypeOK, Labels, Arrays, Cursor, Passed, AllBacked, Backed,
            AllDetectionsTaken, ArrayEffect, kFovSegmentSize, kObjectTypeSize,
            kRefTargetSize
<1> d \in Nat
  BY ParserConstants
<1>1. CASE Array("op_modes", "status", "failed", 1, 1, MaxOperationModes, d)
  <2>1. ArrayEffect("op_modes", "status", "failed", 1 * 1, 1, MaxOperationModes, d)
    BY <1>1, ArrayHasEffect, ParserConstants
  <2> QED BY <2>1, ParserConstants
<1>2. CASE Array("inputs", "time_sync", "failed", 2, 1, MaxInputSignals, d)
  <2>1. ArrayEffect("inputs", "time_sync", "failed", 2 * 1, 1, MaxInputSignals, d)
    BY <1>2, ArrayHasEffect, ParserConstants
  <2> QED BY <2>1, ParserConstants
<1>3. CASE Array("calibration", "parsed", "failed", 3, 1, MaxCalibrations, d)
  <2>1. ArrayEffect("calibration", "parsed", "failed", 3 * 1, 1, MaxCalibrations, d)
    BY <1>3, ArrayHasEffect, ParserConstants
  <2> QED BY <2>1, ParserConstants
<1>4. CASE Array("fov", "objects", "parsed", 1, kFovSegmentSize, MaxFovSegments, d)
  <2>1. ArrayEffect("fov", "objects", "parsed", 1 * 17, 17, MaxFovSegments, d)
    BY <1>4, ArrayHasEffect, ParserConstants
  <2> QED BY <2>1, ParserConstants
<1>5. CASE Array("objects", "targets", "parsed", 1, kObjectTypeSize, MaxObjectTypes, d)
  <2>1. ArrayEffect("objects", "targets", "parsed", 1 * 9, 9, MaxObjectTypes, d)
    BY <1>5, ArrayHasEffect, ParserConstants
  <2> QED BY <2>1, ParserConstants
<1>6. CASE Array("targets", "parsed", "parsed", 1, kRefTargetSize, MaxRefTargets, d)
  <2>1. ArrayEffect("targets", "parsed", "parsed", 1 * 16, 16, MaxRefTargets, d)
    BY <1>6, ArrayHasEffect, ParserConstants
  <2> QED BY <2>1, ParserConstants
<1> QED BY <1>1, <1>2, <1>3, <1>4, <1>5, <1>6

\* No part of the three Parse methods reads past its payload.
LEMMA ParseKeeps == ParserInv /\ Parse => ParserInv'
BY FixedPartsKeep, DetectionsKeep, ArraysKeep
DEF Parse, RdiStep, ShiStep, SpiStep

\* Parse begins at 0 with the length that the header checks leave.
LEMMA CallParseKeeps ==
  ASSUME ParserInv, NEW stream \in {"rdi", "shi", "spi"}, NEW bytes \in DatagramSizes,
         CallParse(stream, bytes)
  PROVE  ParserInv'
BY ParserConstants
DEF CallParse, LongEnough, ParserInv, ParserTypeOK, Labels, Arrays, Cursor, Passed,
    AllBacked, Backed, AllDetectionsTaken, kSomeipHeader, kE2eHeaderSize

-----------------------------------------------------------------------------
(* The builder.  BuildInv says of each loop what its turns so far have     *)
(* done: the cloud is as large as the number of detections that pass, and  *)
(* the points and the array list those already met, in order.              *)

Before(k) == {j \in 1 .. k - 1 : passes_filter(detections[j])}

\* s lists the passing detections before the k-th, in their order.
Lists(s, k) ==
  /\ \A j \in 1 .. Len(s) : s[j] \in Before(k)
  /\ \A x \in Before(k) : \E j \in 1 .. Len(s) : s[j] = x
  /\ \A j, l \in 1 .. Len(s) : j < l => s[j] < s[l]

IsPrefixOf(s, t) == Len(s) <= Len(t) /\ \A j \in 1 .. Len(s) : s[j] = t[j]

Number == count["detections"]

Idle ==
  build = "none" => /\ detections = <<>> /\ i = 1 /\ cloud_size = 0
                    /\ points = <<>> /\ arr = <<>>

Loops ==
  /\ build # "none" => at = "rdi_parsed" /\ Len(detections) = Number
  /\ build \in {"count", "fill", "array"} => i \in 1 .. Number + 1

Counting ==
  build = "count" => /\ points = <<>> /\ arr = <<>>
                     /\ cloud_size = Cardinality(Before(i))

Filling ==
  build = "fill" => /\ arr = <<>> /\ cloud_size = Cardinality(Before(Number + 1))
                    /\ Len(points) = Cardinality(Before(i)) /\ Lists(points, i)

CloudDone ==
  build \in {"array", "done"} => Len(points) = cloud_size /\ Lists(points, Number + 1)

Listing ==
  build = "array" => publish_detections /\ Lists(arr, i) /\ IsPrefixOf(arr, points)

AllDone == build = "done" => arr = IF publish_detections THEN points ELSE <<>>

BuildInv ==
  /\ ParserInv /\ TypeOK
  /\ Idle /\ Loops /\ Counting /\ Filling /\ CloudDone /\ Listing /\ AllDone

\* One more turn of a loop adds its detection, if that passes.
LEMMA BeforeFacts ==
  ASSUME NEW k \in Nat \ {0}
  PROVE  /\ IsFiniteSet(Before(k)) /\ Cardinality(Before(k)) \in Nat
         /\ passes_filter(detections[k]) =>
              /\ Before(k + 1) = Before(k) \cup {k}
              /\ Cardinality(Before(k + 1)) = Cardinality(Before(k)) + 1
         /\ ~passes_filter(detections[k]) => Before(k + 1) = Before(k)
<1>1. IsFiniteSet(1 .. k - 1)
  BY FS_Interval
<1>2. Before(k) \in SUBSET (1 .. k - 1)
  BY DEF Before
<1>3. IsFiniteSet(Before(k)) /\ Cardinality(Before(k)) \in Nat
  BY <1>1, <1>2, FS_Subset, FS_CardinalityType
<1>4. passes_filter(detections[k]) => Before(k + 1) = Before(k) \cup {k}
  BY DEF Before
<1>5. ~passes_filter(detections[k]) => Before(k + 1) = Before(k)
  BY DEF Before
<1>6. k \notin Before(k)
  BY DEF Before
<1>7. Cardinality(Before(k) \cup {k}) = Cardinality(Before(k)) + 1
  BY <1>3, <1>6, FS_AddElement
<1> QED BY <1>3, <1>4, <1>5, <1>7

\* The further a loop is, the more detections it has met.
LEMMA BeforeGrows ==
  ASSUME NEW k \in Nat \ {0}, NEW l \in Nat \ {0}, k <= l
  PROVE  Cardinality(Before(k)) <= Cardinality(Before(l))
<1>1. Before(k) \in SUBSET Before(l)
  BY DEF Before
<1> QED BY <1>1, BeforeFacts, FS_Subset

\* A loop that begins has met no detection.
LEMMA NoneBefore == Before(1) = {} /\ Cardinality(Before(1)) = 0
BY FS_EmptySet DEF Before

\* The empty list is right while no detection was met.
LEMMA EmptyLists ==
  ASSUME NEW k, Before(k) = {}
  PROVE  Lists(<<>>, k)
BY DEF Lists

\* A loop that appends the detection, if it passes, goes on listing.
LEMMA ListsStep ==
  ASSUME NEW s \in Seq(Nat), NEW k \in Nat \ {0}, Lists(s, k)
  PROVE  /\ passes_filter(detections[k]) => Lists(Append(s, k), k + 1)
         /\ ~passes_filter(detections[k]) => Lists(s, k + 1)
<1>1. CASE passes_filter(detections[k])
  <2> DEFINE t == Append(s, k)
  <2>1. /\ Len(t) = Len(s) + 1 /\ t[Len(s) + 1] = k /\ Len(s) \in Nat
        /\ \A j \in 1 .. Len(s) : t[j] = s[j]
    BY AppendProperties, LenProperties
  <2>2. Before(k + 1) = Before(k) \cup {k}
    BY <1>1, BeforeFacts
  <2>3. \A x \in Before(k) : x \in Nat /\ x < k
    BY DEF Before
  <2> HIDE DEF t
  <2>4. \A j \in 1 .. Len(t) : t[j] \in Before(k + 1)
    BY <2>1, <2>2 DEF Lists
  <2>5. \A x \in Before(k + 1) : \E j \in 1 .. Len(t) : t[j] = x
    <3> SUFFICES ASSUME NEW x \in Before(k + 1)
                 PROVE  \E j \in 1 .. Len(t) : t[j] = x
      OBVIOUS
    <3>1. CASE x = k
      BY <2>1, <3>1
    <3>2. CASE x \in Before(k)
      <4>1. PICK j \in 1 .. Len(s) : s[j] = x
        BY <3>2 DEF Lists
      <4> QED BY <2>1, <4>1
    <3> QED BY <2>2, <3>1, <3>2
  <2>6. \A j, l \in 1 .. Len(t) : j < l => t[j] < t[l]
    <3> SUFFICES ASSUME NEW j \in 1 .. Len(t), NEW l \in 1 .. Len(t), j < l
                 PROVE  t[j] < t[l]
      OBVIOUS
    <3>1. j \in 1 .. Len(s) /\ t[j] = s[j]
      BY <2>1
    <3>2. CASE l = Len(s) + 1
      <4>1. s[j] \in Before(k)
        BY <3>1 DEF Lists
      <4> QED BY <2>1, <2>3, <3>1, <3>2, <4>1
    <3>3. CASE l # Len(s) + 1
      <4>1. l \in 1 .. Len(s) /\ t[l] = s[l]
        BY <2>1, <3>3
      <4>2. s[j] < s[l]
        BY <3>1, <4>1 DEF Lists
      <4> QED BY <3>1, <4>1, <4>2
    <3> QED BY <3>2, <3>3
  <2>7. Lists(t, k + 1)
    BY <2>4, <2>5, <2>6 DEF Lists
  <2> QED BY <1>1, <2>7 DEF t
<1>2. CASE ~passes_filter(detections[k])
  BY <1>2, BeforeFacts DEF Lists
<1> QED BY <1>1, <1>2

\* The array follows the points: the next detection it takes is the next point.
LEMMA PrefixStep ==
  ASSUME NEW s \in Seq(Nat), NEW t \in Seq(Nat), NEW k \in Nat \ {0},
         NEW n \in Nat, k <= n, Lists(s, k), Lists(t, n + 1), IsPrefixOf(s, t),
         passes_filter(detections[k])
  PROVE  IsPrefixOf(Append(s, k), t)
<1> Len(s) \in Nat /\ Len(t) \in Nat
  BY LenProperties
<1>1. \A j \in 1 .. Len(t) : t[j] \in Nat
  BY ElementOfSeq
<1>2. k \in Before(n + 1)
  BY DEF Before
<1>3. PICK l \in 1 .. Len(t) : t[l] = k
  BY <1>2 DEF Lists
<1>4. \A x \in Before(k) : x < k
  BY DEF Before
<1>5. Len(s) < l
  <2> SUFFICES ASSUME l <= Len(s) PROVE FALSE
    OBVIOUS
  <2>1. l \in 1 .. Len(s)
    OBVIOUS
  <2>2. s[l] = k
    BY <1>3, <2>1 DEF IsPrefixOf
  <2>3. s[l] \in Before(k)
    BY <2>1 DEF Lists
  <2> QED BY <1>4, <2>2, <2>3
<1>6. l = Len(s) + 1
  <2> SUFFICES ASSUME Len(s) + 1 < l PROVE FALSE
    BY <1>5
  <2> DEFINE q == Len(s) + 1
             x == t[q]
  <2>1. q \in 1 .. Len(t) /\ x < k
    <3>1. q \in 1 .. Len(t) /\ q < l
      OBVIOUS
    <3>2. t[q] < t[l]
      BY <3>1 DEF Lists
    <3> QED BY <1>3, <3>1, <3>2
  <2>2. x \in Before(n + 1)
    BY <2>1 DEF Lists
  <2>3. x \in Before(k)
    BY <2>1, <2>2 DEF Before
  <2>4. PICK j \in 1 .. Len(s) : s[j] = x
    BY <2>3 DEF Lists
  <2>5. j \in 1 .. Len(t) /\ t[j] = x
    BY <2>4 DEF IsPrefixOf
  <2>6. j < q /\ q \in 1 .. Len(t)
    BY <2>1
  <2>7. t[j] < t[q]
    BY <2>5, <2>6 DEF Lists
  <2>8. t[q] \in Nat
    BY <1>1, <2>1
  <2> QED BY <2>5, <2>7, <2>8
<1>7. /\ Len(Append(s, k)) = Len(s) + 1 /\ Append(s, k)[Len(s) + 1] = k
      /\ \A j \in 1 .. Len(s) : Append(s, k)[j] = s[j]
  BY AppendProperties
<1> QED BY <1>3, <1>6, <1>7 DEF IsPrefixOf

\* Once the array has been through all detections it is the list of points.
LEMMA PrefixIsAll ==
  ASSUME NEW s \in Seq(Nat), NEW t \in Seq(Nat), NEW k, Lists(s, k), Lists(t, k),
         IsPrefixOf(s, t)
  PROVE  s = t
<1> Len(s) \in Nat /\ Len(t) \in Nat
  BY LenProperties
<1>1. \A j \in 1 .. Len(t) : t[j] \in Nat
  BY ElementOfSeq
<1>2. Len(s) = Len(t)
  <2> SUFFICES ASSUME Len(s) < Len(t) PROVE FALSE
    BY DEF IsPrefixOf
  <2> DEFINE q == Len(s) + 1
  <2>1. q \in 1 .. Len(t) /\ t[q] \in Before(k)
    BY DEF Lists
  <2>2. PICK j \in 1 .. Len(s) : s[j] = t[q]
    BY <2>1 DEF Lists
  <2>3. j \in 1 .. Len(t) /\ j < q /\ t[j] = t[q]
    BY <2>2 DEF IsPrefixOf
  <2>4. t[j] < t[q]
    BY <2>1, <2>3 DEF Lists
  <2>5. t[q] \in Nat
    BY <1>1, <2>1
  <2> QED BY <2>3, <2>4, <2>5
<1> QED BY <1>2, SeqEqual DEF IsPrefixOf

\* Before the first frame both loops are at rest.
LEMMA InitOk == Init => BuildInv
<1> SUFFICES ASSUME Init PROVE BuildInv
  OBVIOUS
<1>1. ParserInv
  BY ParserInitOk DEF Init
<1>2. TypeOK
  BY <1>1 DEF Init, TypeOK, ParserInv
<1> QED
  BY <1>1, <1>2 DEF Init, BuildInv, Idle, Loops, Counting, Filling, CloudDone,
                    Listing, AllDone

\* When the handler returns, points and array are given up.
LEMMA ReturnOk == Return /\ TypeOK => BuildInv'
<1> SUFFICES ASSUME Return, TypeOK PROVE BuildInv'
  OBVIOUS
<1>1. ParserInv'
  BY ForgetOk DEF Return
<1>2. TypeOK'
  BY <1>1 DEF Return, TypeOK, ParserInv
<1> QED
  BY <1>1, <1>2 DEF Return, BuildInv, Idle, Loops, Counting, Filling, CloudDone,
                    Listing, AllDone

\* While the parsers run the builder has not begun.
LEMMA ParserStepOk ==
  ASSUME BuildInv, ParserInv', at # "rdi_parsed", UNCHANGED bvars
  PROVE  BuildInv'
<1>1. build = "none"
  BY DEF BuildInv, Loops
<1>2. TypeOK'
  BY DEF BuildInv, TypeOK, ParserInv, bvars
<1> QED
  BY <1>1, <1>2 DEF BuildInv, bvars, Idle, Loops, Counting, Filling, CloudDone,
                    Listing, AllDone

\* A frame that is still being parsed is not handed to the builder.
LEMMA ParseBeforeBuild == Parse => at # "rdi_parsed"
BY DEF Parse, RdiStep, ShiStep, SpiStep, RdiHeader, RdiDetections, ShiHeader,
       SpiHeader, Array, Fields

\* What the loops do not touch.
LEMMA LoopFrame ==
  ASSUME BuildInv, UNCHANGED <<pvars, detections, publish_detections>>
  PROVE  /\ ParserInv' /\ ParserTypeOK' /\ Number' = Number /\ Number \in Nat
         /\ at' = at /\ detections' \in Seq(Detection)
         /\ publish_detections' \in BOOLEAN
<1>1. ParserInv' /\ at' = at /\ count' = count
  BY ParserFrame DEF BuildInv, pvars
<1> QED
  BY <1>1 DEF BuildInv, TypeOK, ParserInv, ParserTypeOK, Number, Arrays

\* What the loops have met depends on the detections only.
LEMMA BeforeFrame ==
  ASSUME detections' = detections
  PROVE  /\ Before(i)' = Before(i') /\ Before(Number + 1)' = Before(Number' + 1)
         /\ Lists(points, i)' <=> Lists(points', i')
         /\ Lists(points, Number + 1)' <=> Lists(points', Number' + 1)
         /\ Lists(arr, i)' <=> Lists(arr', i')
BY DEF Before, Lists, passes_filter

\* A parsed frame starts the counting pass.
LEMMA OnRdiFrameOk == BuildInv /\ OnRdiFrame => BuildInv'
<1> SUFFICES ASSUME BuildInv, OnRdiFrame PROVE BuildInv'
  OBVIOUS
<1>1. ParserInv' /\ at' = at /\ count' = count
  BY ParserFrame DEF OnRdiFrame, BuildInv, pvars
<1>2. Number \in Nat
  BY DEF BuildInv, ParserInv, ParserTypeOK, Number, Arrays
<1>3. detections' \in Seq(Detection) /\ Len(detections') = Number
  BY <1>2 DEF OnRdiFrame, Number
<1>4. Before(1)' = {} /\ Cardinality(Before(1)') = 0
  BY FS_EmptySet DEF Before
<1>5. TypeOK'
  BY <1>1, <1>3 DEF BuildInv, OnRdiFrame, TypeOK, ParserInv
<1>6. /\ build' = "count" /\ i' = 1 /\ points' = <<>> /\ arr' = <<>>
      /\ cloud_size' = 0 /\ at = "rdi_parsed" /\ Number' = Number
  BY <1>1 DEF BuildInv, OnRdiFrame, Idle, Number
<1>7. Before(i)' = Before(1)'
  BY <1>6 DEF Before
<1> QED
  BY <1>1, <1>2, <1>3, <1>4, <1>5, <1>6, <1>7
  DEF BuildInv, Idle, Loops, Counting, Filling, CloudDone, Listing, AllDone

\* One turn of the counting pass counts the detection if it passes the filter.
LEMMA CountOneOk == BuildInv /\ CountOne => BuildInv'
<1> SUFFICES ASSUME BuildInv, CountOne PROVE BuildInv'
  OBVIOUS
<1>1. UNCHANGED <<pvars, detections, publish_detections>>
  BY DEF CountOne, BuildTo
<1>2. TypeOK'
  BY <1>1, LoopFrame DEF CountOne, BuildTo, BuildInv, TypeOK
<1>3. /\ build = "count" /\ build' = "count" /\ i' = i + 1 /\ i \in 1 .. Number
      /\ points' = <<>> /\ arr' = <<>> /\ cloud_size = Cardinality(Before(i))
  BY <1>1, LoopFrame DEF CountOne, BuildTo, BuildInv, Loops, Counting, Number
<1>4. cloud_size' = Cardinality(Before(i'))
  BY <1>3, BeforeFacts DEF CountOne
<1>5. Counting'
  BY <1>1, <1>3, <1>4, BeforeFrame DEF Counting
<1>6. Loops'
  BY <1>1, <1>3, LoopFrame DEF BuildInv, Loops
<1> QED
  BY <1>1, <1>2, <1>3, <1>5, <1>6, LoopFrame
  DEF BuildInv, Idle, Filling, CloudDone, Listing, AllDone

\* The end of the counting pass makes room for exactly the detections counted.
LEMMA CountedOk == BuildInv /\ Counted => BuildInv'
<1> SUFFICES ASSUME BuildInv, Counted PROVE BuildInv'
  OBVIOUS
<1>1. UNCHANGED <<pvars, detections, publish_detections>>
  BY DEF Counted, BuildTo
<1>2. TypeOK'
  BY <1>1, LoopFrame DEF Counted, BuildTo, BuildInv, TypeOK, AfterCloud
<1>3. /\ build = "count" /\ i' = 1 /\ i = Number + 1
      /\ points' = <<>> /\ arr' = <<>> /\ cloud_size' = cloud_size
      /\ cloud_size = Cardinality(Before(Number + 1))
      /\ Number' = Number /\ Number \in Nat
  BY <1>1, LoopFrame DEF Counted, BuildTo, BuildInv, Loops, Counting, Number
<1>4. Lists(points, i)' /\ Lists(arr, i)' /\ Len(points') = Cardinality(Before(i'))
  BY <1>1, <1>3, BeforeFrame, NoneBefore, EmptyLists, EmptySeq
<1>5. CASE cloud_size = 0
  <2>1. Before(Number + 1) = {}
    BY <1>3, <1>5, BeforeFacts, FS_EmptySet
  <2>2. Lists(points, Number + 1)'
    BY <1>1, <1>3, <2>1, BeforeFrame, EmptyLists
  <2>3. build' = AfterCloud /\ Len(points') = cloud_size'
    BY <1>3, <1>5, EmptySeq DEF Counted, BuildTo
  <2>4. IsPrefixOf(arr, points)'
    BY <1>3 DEF IsPrefixOf
  <2> QED
    BY <1>1, <1>2, <1>3, <1>4, <2>2, <2>3, <2>4, LoopFrame
    DEF BuildInv, Idle, Loops, Counting, Filling, CloudDone, Listing, AllDone,
        AfterCloud
<1>6. CASE cloud_size # 0
  <2>1. build' = "fill"
    BY <1>6 DEF Counted, BuildTo
  <2> QED
    BY <1>1, <1>2, <1>3, <1>4, <2>1, LoopFrame, BeforeFrame
    DEF BuildInv, Idle, Loops, Counting, Filling, CloudDone, Listing, AllDone
<1> QED BY <1>5, <1>6

\* One turn of the fill pass appends the detection if it passes, where there is room.
LEMMA FillOneOk == BuildInv /\ FillOne => BuildInv'
<1> SUFFICES ASSUME BuildInv, FillOne PROVE BuildInv'
  OBVIOUS
<1>1. UNCHANGED <<pvars, detections, publish_detections>>
  BY DEF FillOne, BuildTo
<1>2. /\ build = "fill" /\ build' = "fill" /\ i' = i + 1 /\ i \in 1 .. Number
      /\ i \in Nat \ {0} /\ arr' = <<>> /\ cloud_size' = cloud_size
      /\ cloud_size = Cardinality(Before(Number + 1)) /\ points \in Seq(Nat)
      /\ Len(points) = Cardinality(Before(i)) /\ Lists(points, i)
      /\ points' = IF passes_filter(detections[i]) THEN Append(points, i)
                                                   ELSE points
  BY <1>1, LoopFrame DEF FillOne, BuildTo, BuildInv, Loops, Filling, Number, TypeOK
<1>3. points' \in Seq(Nat) /\ Len(points') = Cardinality(Before(i'))
  BY <1>2, BeforeFacts, AppendProperties
<1>4. Lists(points', i')
  BY <1>2, ListsStep
<1>5. Filling'
  BY <1>1, <1>2, <1>3, <1>4, BeforeFrame, LoopFrame DEF Filling
<1>6. TypeOK'
  BY <1>1, <1>2, <1>3, LoopFrame DEF BuildInv, TypeOK
<1>7. Loops'
  BY <1>1, <1>2, LoopFrame DEF BuildInv, Loops
<1> QED
  BY <1>1, <1>2, <1>5, <1>6, <1>7, LoopFrame
  DEF BuildInv, Idle, Counting, CloudDone, Listing, AllDone

\* The fill pass ends with the cloud full.
LEMMA FilledOk == BuildInv /\ Filled => BuildInv'
<1> SUFFICES ASSUME BuildInv, Filled PROVE BuildInv'
  OBVIOUS
<1>1. UNCHANGED <<pvars, detections, publish_detections>>
  BY DEF Filled, BuildTo
<1>2. TypeOK'
  BY <1>1, LoopFrame DEF Filled, BuildTo, BuildInv, TypeOK, AfterCloud
<1>3. /\ build = "fill" /\ build' = AfterCloud /\ i' = 1 /\ i = Number + 1
      /\ points' = points /\ arr' = <<>> /\ cloud_size' = cloud_size
      /\ Len(points) = cloud_size /\ Lists(points, Number + 1)
      /\ Number' = Number /\ Number \in Nat /\ points \in Seq(Nat)
  BY <1>1, LoopFrame DEF Filled, BuildTo, BuildInv, Loops, Filling, Number, TypeOK
<1>4. Lists(arr, i)' /\ Lists(points, Number + 1)'
  BY <1>1, <1>3, BeforeFrame, NoneBefore, EmptyLists
<1>5. IsPrefixOf(arr, points)'
  BY <1>3, LenProperties, EmptySeq DEF IsPrefixOf
<1> QED
  BY <1>1, <1>2, <1>3, <1>4, <1>5, LoopFrame
  DEF BuildInv, Idle, Loops, Counting, Filling, CloudDone, Listing, AllDone,
      AfterCloud

\* One turn over the detection array appends the next of the cloud's points.
LEMMA ArrayOneOk == BuildInv /\ ArrayOne => BuildInv'
<1> SUFFICES ASSUME BuildInv, ArrayOne PROVE BuildInv'
  OBVIOUS
<1>1. UNCHANGED <<pvars, detections, publish_detections>>
  BY DEF ArrayOne, BuildTo
<1>2. /\ build = "array" /\ build' = "array" /\ i' = i + 1 /\ i \in 1 .. Number
      /\ i \in Nat \ {0} /\ points' = points /\ cloud_size' = cloud_size
      /\ points \in Seq(Nat) /\ arr \in Seq(Nat) /\ Lists(arr, i)
      /\ Lists(points, Number + 1) /\ IsPrefixOf(arr, points)
      /\ arr' = IF passes_filter(detections[i]) THEN Append(arr, i) ELSE arr
      /\ Number' = Number /\ Number \in Nat /\ publish_detections'
  BY <1>1, LoopFrame
  DEF ArrayOne, BuildTo, BuildInv, Loops, CloudDone, Listing, Number, TypeOK
<1>3. arr' \in Seq(Nat) /\ Lists(arr', i')
  BY <1>2, ListsStep, AppendProperties
<1>4. IsPrefixOf(arr', points)
  BY <1>2, PrefixStep
<1>5. IsPrefixOf(arr, points)' /\ Lists(arr, i)' /\ Lists(points, Number + 1)'
  BY <1>1, <1>2, <1>3, <1>4, BeforeFrame DEF IsPrefixOf
<1>6. TypeOK'
  BY <1>1, <1>2, <1>3, LoopFrame DEF BuildInv, TypeOK
<1>7. Loops'
  BY <1>1, <1>2, LoopFrame DEF BuildInv, Loops
<1> QED
  BY <1>1, <1>2, <1>5, <1>6, <1>7, LoopFrame
  DEF BuildInv, Idle, Counting, Filling, CloudDone, Listing, AllDone

\* The frame is done when cloud and array list all that pass.
LEMMA BuiltOk == BuildInv /\ Built => BuildInv'
<1> SUFFICES ASSUME BuildInv, Built PROVE BuildInv'
  OBVIOUS
<1>1. UNCHANGED <<pvars, detections, publish_detections>>
  BY DEF Built, BuildTo
<1>2. TypeOK'
  BY <1>1, LoopFrame DEF Built, BuildTo, BuildInv, TypeOK
<1>3. /\ build = "array" /\ build' = "done" /\ i = Number + 1
      /\ UNCHANGED <<points, arr, cloud_size>> /\ publish_detections'
      /\ points \in Seq(Nat) /\ arr \in Seq(Nat)
      /\ Lists(arr, Number + 1) /\ Lists(points, Number + 1)
      /\ IsPrefixOf(arr, points) /\ Number' = Number
  <2>1. Number \in Nat /\ Number' = Number /\ i > Number
    BY <1>1, LoopFrame DEF Built, Number
  <2>2. build = "array" /\ build' = "done" /\ UNCHANGED <<points, arr, cloud_size>>
    BY DEF Built, BuildTo
  <2>3. i = Number + 1
    BY <2>1, <2>2 DEF BuildInv, Loops
  <2>4. publish_detections' /\ Lists(arr, i) /\ IsPrefixOf(arr, points)
    BY <1>1, <2>2 DEF BuildInv, Listing
  <2> QED BY <2>1, <2>2, <2>3, <2>4 DEF BuildInv, CloudDone, TypeOK
<1>4. arr = points
  BY <1>3, PrefixIsAll
<1>5. Lists(points, Number + 1)'
  BY <1>1, <1>3, BeforeFrame
<1> QED
  BY <1>1, <1>2, <1>3, <1>4, <1>5, LoopFrame
  DEF BuildInv, Idle, Loops, Counting, Filling, CloudDone, Listing, AllDone

\* A step that changes nothing keeps the invariant.
LEMMA Stutters == BuildInv /\ UNCHANGED vars => BuildInv'
<1> SUFFICES ASSUME BuildInv, UNCHANGED vars PROVE BuildInv'
  OBVIOUS
<1>1. /\ UNCHANGED <<pvars, detections, publish_detections>>
      /\ UNCHANGED <<i, cloud_size, points, arr, build>>
  BY DEF vars, bvars
<1>2. TypeOK'
  BY <1>1, LoopFrame DEF BuildInv, TypeOK
<1>3. /\ Before(i)' = Before(i) /\ Before(Number + 1)' = Before(Number + 1)
      /\ Lists(points, i)' <=> Lists(points, i)
      /\ Lists(points, Number + 1)' <=> Lists(points, Number + 1)
      /\ Lists(arr, i)' <=> Lists(arr, i)
      /\ IsPrefixOf(arr, points)' <=> IsPrefixOf(arr, points)
  BY <1>1, LoopFrame, BeforeFrame DEF IsPrefixOf
<1>4. Idle' /\ Loops' /\ AllDone'
  BY <1>1, LoopFrame DEF BuildInv, Idle, Loops, AllDone
<1>5. Counting' /\ Filling'
  BY <1>1, <1>3 DEF BuildInv, Counting, Filling
<1>6. CloudDone' /\ Listing'
  BY <1>1, <1>3 DEF BuildInv, CloudDone, Listing
<1> QED BY <1>1, <1>2, <1>4, <1>5, <1>6, LoopFrame DEF BuildInv

\* Every step of the parser and of the two loops keeps the invariant.
LEMMA StepOk == BuildInv /\ [Next]_vars => BuildInv'
<1> SUFFICES ASSUME BuildInv, [Next]_vars PROVE BuildInv'
  OBVIOUS
<1>1. ASSUME NEW stream \in {"rdi", "shi", "spi"}, NEW bytes \in DatagramSizes,
             CallParse(stream, bytes), UNCHANGED bvars
      PROVE  BuildInv'
  <2>1. ParserInv' /\ at # "rdi_parsed"
    BY <1>1, CallParseKeeps DEF BuildInv, CallParse
  <2> QED BY <1>1, <2>1, ParserStepOk
<1>2. CASE Parse /\ UNCHANGED bvars
  BY <1>2, ParseKeeps, ParseBeforeBuild, ParserStepOk DEF BuildInv
<1>3. CASE Return
  BY <1>3, ReturnOk DEF BuildInv
<1> QED
  BY <1>1, <1>2, <1>3, OnRdiFrameOk, CountOneOk, CountedOk, FillOneOk, FilledOk,
     ArrayOneOk, BuiltOk, Stutters
  DEF Next

\* Every reachable state satisfies the inductive invariant.
LEMMA BuildInvHolds == Spec => []BuildInv
BY InitOk, StepOk, PTL DEF Spec

\* The parsers and the builder keep their types; in particular no length that
\* Parse is called with is the result of an unsigned subtraction below zero.
THEOREM TypeCorrect == Spec => []TypeOK
<1>1. BuildInv => TypeOK
  BY DEF BuildInv
<1> QED BY <1>1, BuildInvHolds, PTL

\* No parser reads a byte past the end of its payload.
THEOREM NeverReadsPastEndHolds == Spec => []NeverReadsPastEnd
<1>1. BuildInv => NeverReadsPastEnd
  BY ParserInvSuffices DEF BuildInv
<1> QED BY <1>1, BuildInvHolds, PTL

\* Every array that a message has entries of was received completely and read
\* where the layout puts it, and the message has room for its entries.
THEOREM EntriesBackedHolds == Spec => []EntriesBacked
<1>1. BuildInv => EntriesBacked
  BY ParserInvSuffices DEF BuildInv
<1> QED BY <1>1, BuildInvHolds, PTL

\* RdiParser::Parse takes as many detections as are declared, allowed and there.
THEOREM AllDetectionsTakenHolds == Spec => []AllDetectionsTaken
<1>1. BuildInv => AllDetectionsTaken
  BY DEF BuildInv, ParserInv
<1> QED BY <1>1, BuildInvHolds, PTL

\* The second pass of PointCloudBuilder::build fills exactly the cloud that the
\* first one sized and never writes outside it.
THEOREM FillInBoundsHolds == Spec => []FillInBounds
<1>1. BuildInv => FillInBounds
  <2> SUFFICES ASSUME BuildInv PROVE FillInBounds
    OBVIOUS
  <2>1. Number \in Nat
    BY DEF BuildInv, ParserInv, ParserTypeOK, Number, Arrays
  <2>2. CASE build \in {"none", "count"}
    <3>1. cloud_size \in Nat /\ points = <<>>
      BY <2>2 DEF BuildInv, TypeOK, Idle, Counting
    <3> QED BY <2>2, <3>1, EmptySeq DEF FillInBounds
  <2>3. CASE build = "fill"
    <3>1. i \in Nat \ {0} /\ i <= Number + 1
      BY <2>1, <2>3 DEF BuildInv, Loops
    <3>2. Cardinality(Before(i)) <= Cardinality(Before(Number + 1))
      BY <2>1, <3>1, BeforeGrows
    <3> QED BY <2>3, <3>2 DEF BuildInv, Filling, FillInBounds
  <2>4. CASE build \in {"array", "done"}
    BY <2>4 DEF BuildInv, CloudDone, TypeOK, FillInBounds
  <2> QED BY <2>2, <2>3, <2>4 DEF BuildInv, TypeOK
<1> QED BY <1>1, BuildInvHolds, PTL

\* The point cloud and the detection array of a frame hold the same detections:
\* those that pass the filter, in the payload's order.
THEOREM SameDetectionsHolds == Spec => []SameDetections
<1>1. BuildInv => SameDetections
  <2> SUFFICES ASSUME BuildInv, build = "done" PROVE SameDetections
    BY DEF SameDetections
  <2>1. /\ DOMAIN points = 1 .. Len(points)
        /\ DOMAIN detections = 1 .. Len(detections)
    BY LenProperties DEF BuildInv, TypeOK
  <2>2. Number \in Nat /\ Len(detections) = Number
    BY DEF BuildInv, ParserInv, ParserTypeOK, Number, Arrays, Loops
  <2>3. Before(Number + 1) = Passing
    BY <2>1, <2>2 DEF Before, Passing
  <2>4. Lists(points, Number + 1)
    BY DEF BuildInv, CloudDone
  <2>5. {points[k] : k \in DOMAIN points} = Passing
    BY <2>1, <2>3, <2>4 DEF Lists
  <2>6. \A k, l \in DOMAIN points : k < l => points[k] < points[l]
    BY <2>1, <2>4 DEF Lists
  <2> QED BY <2>5, <2>6 DEF BuildInv, AllDone, SameDetections
<1> QED BY <1>1, BuildInvHolds, PTL
=============================================================================
