--------------------------- MODULE PayloadParsers ---------------------------
(***************************************************************************)
(* RdiParser::Parse, ShiParser::Parse and SpiParser::Parse, with the       *)
(* length arithmetic of process_shi_datagram, process_spi_datagram and of  *)
(* process_rdi_datagram for a datagram that is no TP segment.              *)
(*                                                                         *)
(* A payload is a number of bytes; what a byte holds is chosen when it is  *)
(* read, which happens once.  The parsers' cursor is offset; high is the   *)
(* end of the highest byte read so far.  A copy of an array is one step.   *)
(***************************************************************************)
EXTENDS Integers

CONSTANTS
  DatagramSizes,           \* lengths the datagrams can have
  Bytes,                   \* values of a count of one byte
  Words,                   \* values of a count of two bytes
  kRdiMaxDetections,       \* 4096
  MaxOperationModes,       \* 11
  MaxInputSignals,         \* 4
  MaxCalibrations,         \* 3
  MaxFovSegments, MaxObjectTypes, MaxRefTargets   \* 16 each

ASSUME ParserConstants ==
  /\ DatagramSizes \subseteq Nat
  /\ Bytes \subseteq Nat /\ Words \subseteq Nat
  /\ kRdiMaxDetections \in Nat /\ MaxOperationModes \in Nat
  /\ MaxInputSignals \in Nat /\ MaxCalibrations \in Nat
  /\ MaxFovSegments \in Nat /\ MaxObjectTypes \in Nat /\ MaxRefTargets \in Nat

kSomeipHeader     == 16
kE2eHeaderSize    == 20
kRdiHeaderSize    == 36
kRdiDetectionSize == 51
kCommonHeaderSize == 24
kShiMinSize       == 32
kPoseSize         == 32
kSpiMinSize       == kCommonHeaderSize + 1 + kPoseSize
kFovSegmentSize   == 17
kObjectTypeSize   == 9
kRefTargetSize    == 16

VARIABLES
  at,        \* the part of the payload Parse is at, or how it ended
  len,       \* Parse's argument len
  offset,    \* the cursor
  high,      \* end of the highest byte read
  count,     \* the num_ fields of the message, by array; memset to 0
  declared   \* history: the count the payload gave for an array; 0 if none

pvars == <<at, len, offset, high, count, declared>>

Arrays == {"detections", "op_modes", "inputs", "calibration", "fov", "objects",
           "targets"}
Labels == Arrays \cup {"idle", "rdi", "shi", "spi", "status", "time_sync",
                       "rdi_parsed", "parsed", "failed"}
NoCounts == [a \in Arrays |-> 0]

ParserInit ==
  /\ at = "idle" /\ len = 0 /\ offset = 0 /\ high = 0
  /\ count = NoCounts /\ declared = NoCounts

Lesser(a, b)  == IF a < b THEN a ELSE b
Greater(a, b) == IF a > b THEN a ELSE b

\* Bytes offset .. end - 1 have been read and the cursor moves on to next.
Consume(end, next) == high' = Greater(high, end) /\ offset' = next

Ends(how) == at' = how /\ UNCHANGED <<len, offset, high, count, declared>>

-----------------------------------------------------------------------------
(* process_*_datagram: the headers are taken off                           *)

\* Mutant of LongEnough: the E2E header is not allowed for.
LongEnoughForSomeip(bytes) == bytes >= kSomeipHeader

LongEnough(bytes) == bytes >= kSomeipHeader /\ bytes - kSomeipHeader >= kE2eHeaderSize

\* Parse is called with what is left.  A datagram that is too short, or that
\* fails the SOME/IP or E2E checks, changes nothing here.
CallParse(stream, bytes) ==
  /\ at = "idle" /\ LongEnough(bytes)
  /\ at' = stream
  /\ len' = bytes - kSomeipHeader - kE2eHeaderSize
  /\ UNCHANGED <<offset, high, count, declared>>

-----------------------------------------------------------------------------
(* RdiParser::Parse                                                        *)

RdiHeader ==
  /\ at = "rdi"
  /\ IF len < kRdiHeaderSize
     THEN Ends("failed")
     ELSE /\ at' = "detections" /\ Consume(kRdiHeaderSize, kRdiHeaderSize)
          /\ UNCHANGED <<len, count, declared>>

Clamped(n) == Lesser(n, kRdiMaxDetections)

\* Mutant of FittingDetections: one is given up when the payload is short.
FittingLessOne(n) ==
  IF len < kRdiHeaderSize + n * kRdiDetectionSize
  THEN Greater((len - kRdiHeaderSize) \div kRdiDetectionSize - 1, 0)
  ELSE n

FittingDetections(n) ==
  IF len < kRdiHeaderSize + n * kRdiDetectionSize
  THEN (len - kRdiHeaderSize) \div kRdiDetectionSize
  ELSE n

\* num_detections, clamped and cut to what the payload holds.
RdiDetections(n) ==
  LET k == FittingDetections(Clamped(n))
  IN  /\ at = "detections"
      /\ declared' = [declared EXCEPT !["detections"] = n]
      /\ count' = [count EXCEPT !["detections"] = k]
      /\ Consume(kRdiHeaderSize + k * kRdiDetectionSize, offset)
      /\ at' = "rdi_parsed" /\ UNCHANGED len

-----------------------------------------------------------------------------
(* ShiParser::Parse and SpiParser::Parse                                   *)

\* Mutant of ArrayFits: the count byte itself is forgotten.
ArrayFitsFromCount(d, size) == offset + d * size <= len

\* After the count byte, d elements of size bytes.
ArrayFits(d, size) == offset + 1 + d * size <= len

\* Mutant of AfterArray: only the elements that are kept are skipped.
AfterKept(begin, d, n, size) == begin + n * size

\* Behind an array of d elements, of which n are kept.
AfterArray(begin, d, n, size) == begin + d * size

\* An array of `parts` parallel arrays of `elem` bytes per element, d elements
\* declared, of which the message holds `cap`.  A missing count byte ends Parse
\* with `missing`, an array that does not fit with an error.
Array(a, next, missing, parts, elem, cap, d) ==
  /\ at = a
  /\ IF offset >= len
     THEN Ends(missing)
     ELSE LET n     == Lesser(d, cap)
              begin == offset + 1
              last  == begin + (parts - 1) * d * elem + n * elem
          IN  /\ declared' = [declared EXCEPT ![a] = d] /\ UNCHANGED len
              /\ IF ~ArrayFits(d, parts * elem)
                 THEN at' = "failed" /\ Consume(begin, begin) /\ UNCHANGED count
                 ELSE /\ at' = next /\ count' = [count EXCEPT ![a] = n]
                      /\ Consume(IF n = 0 THEN begin ELSE last,
                                 AfterArray(begin, d, n, parts * elem))

ShiHeader ==
  /\ at = "shi"
  /\ IF len < kShiMinSize
     THEN Ends("failed")
     ELSE /\ at' = "op_modes" /\ Consume(kCommonHeaderSize, kCommonHeaderSize)
          /\ UNCHANGED <<len, count, declared>>

\* Fixed fields of n bytes: the defect, supply and temperature status, and
\* the time synchronisation.
Fields(label, n, next) ==
  /\ at = label
  /\ IF offset + n > len
     THEN Ends("failed")
     ELSE /\ at' = next /\ Consume(offset + n, offset + n)
          /\ UNCHANGED <<len, count, declared>>

SpiHeader ==
  /\ at = "spi"
  /\ IF len < kSpiMinSize
     THEN Ends("failed")
     ELSE /\ at' = "fov" /\ Consume(kSpiMinSize, kSpiMinSize)
          /\ UNCHANGED <<len, count, declared>>

ShiStep(d) ==
  \/ ShiHeader
  \/ Array("op_modes", "status", "failed", 1, 1, MaxOperationModes, d)
  \/ Fields("status", 4, "inputs")
  \/ Array("inputs", "time_sync", "failed", 2, 1, MaxInputSignals, d)
  \/ Fields("time_sync", 1, "calibration")
  \/ Array("calibration", "parsed", "failed", 3, 1, MaxCalibrations, d)

SpiStep(d) ==
  \/ SpiHeader
  \/ Array("fov", "objects", "parsed", 1, kFovSegmentSize, MaxFovSegments, d)
  \/ Array("objects", "targets", "parsed", 1, kObjectTypeSize, MaxObjectTypes, d)
  \/ Array("targets", "parsed", "parsed", 1, kRefTargetSize, MaxRefTargets, d)

RdiStep == RdiHeader \/ \E n \in Words : RdiDetections(n)

Parse == RdiStep \/ \E d \in Bytes : ShiStep(d) \/ SpiStep(d)

\* The handler returns; Parse's locals and the message are gone.
Forget ==
  /\ at' = "idle" /\ len' = 0 /\ offset' = 0 /\ high' = 0
  /\ count' = NoCounts /\ declared' = NoCounts

-----------------------------------------------------------------------------
(* Properties                                                              *)

ParserTypeOK ==
  /\ at \in Labels /\ len \in Nat /\ offset \in Nat /\ high \in Nat
  /\ count \in [Arrays -> Nat] /\ declared \in [Arrays -> Nat]

\* Whatever counts the payload declares, no parser reads past its end.
NeverReadsPastEnd == high <= len

Capacity ==
  [detections |-> kRdiMaxDetections, op_modes |-> MaxOperationModes,
   inputs |-> MaxInputSignals, calibration |-> MaxCalibrations,
   fov |-> MaxFovSegments, objects |-> MaxObjectTypes, targets |-> MaxRefTargets]

\* Bytes per element, of all parallel arrays and of the last of them.
ElementSize ==
  [detections |-> kRdiDetectionSize, op_modes |-> 1, inputs |-> 2, calibration |-> 3,
   fov |-> kFovSegmentSize, objects |-> kObjectTypeSize, targets |-> kRefTargetSize]

LastPartSize == [ElementSize EXCEPT !.inputs = 1, !.calibration = 1]

\* The layout of the messages: where the elements of an array begin, behind the
\* fixed fields, the count bytes and all elements declared for earlier arrays.
Place ==
  LET Wire(a) == declared[a] * ElementSize[a]
      Inputs  == kCommonHeaderSize + 1 + Wire("op_modes") + 4 + 1
      Fov     == kSpiMinSize + 1
      Objects == Fov + Wire("fov") + 1
  IN  [detections  |-> kRdiHeaderSize,
       op_modes    |-> kCommonHeaderSize + 1,
       inputs      |-> Inputs,
       calibration |-> Inputs + Wire("inputs") + 1 + 1,
       fov         |-> Fov,
       objects     |-> Objects,
       targets     |-> Objects + Wire("objects") + 1]

\* The end of what the payload declares for an array; of the detections Parse
\* does with fewer than are declared.
ArrayEnd(a) ==
  Place[a] + (IF a = "detections" THEN count[a] ELSE declared[a]) * ElementSize[a]

\* The end of the last byte of the entries that the message keeps.
EntriesEnd(a) ==
  Place[a] + declared[a] * (ElementSize[a] - LastPartSize[a]) + count[a] * LastPartSize[a]

\* Every array that a message has entries of was received completely and read
\* where the message layout puts it, whatever number of elements was declared
\* for it and for the arrays in front of it, kept or skipped, also when Parse
\* stops early; and the message has room for the entries.  (The comment of
\* test/test_spi_parser.cpp:148 would leave a count without its entries.)
EntriesBacked ==
  \A a \in Arrays :
    count[a] > 0 => /\ ArrayEnd(a) <= len
                    /\ EntriesEnd(a) <= high
                    /\ count[a] <= Capacity[a]

\* A short RDI payload loses no detection that it holds: RdiParser::Parse takes
\* the largest number that is declared, allowed and there.
AllDetectionsTaken ==
  at = "rdi_parsed" =>
    LET k == count["detections"]
    IN  \/ k = declared["detections"] \/ k = kRdiMaxDetections
        \/ kRdiHeaderSize + (k + 1) * kRdiDetectionSize > len
=============================================================================
