------------------------------ MODULE SomeipTp ------------------------------
(***************************************************************************)
(* SOME/IP header checks and the SOME/IP-TP reassembler of                 *)
(* someip/someip_parser.hpp and src/someip_parser.cpp.                     *)
(*                                                                         *)
(* Data abstraction.  A payload is counted in cells; cell i of message m   *)
(* is the pair <<m, i>>, so a payload shows for each of its cells which    *)
(* message, and which place in it, the bytes came from.  Cell 0 holds the  *)
(* E2E header, cell 1 the RDI header, the other cells the detections.      *)
(*                                                                         *)
(* The class SomeipTpReassembler is a record t; its methods are operators  *)
(* from records to records.  buffer_ only ever grows and resize() zero-    *)
(* fills, so it is a function on all of CellIndex, Zero beyond t.size.     *)
(***************************************************************************)
EXTENDS Integers

CONSTANTS
  Messages,  \* the RDI messages that can be on their way to the driver
  NoMsg,     \* origin of bytes that no message wrote
  Size,      \* Size[m]: cells in the payload of m
  Session,   \* Session[m]: the SOME/IP session id m is sent under
  MaxCells,  \* bound: no payload has more cells
  Timeout    \* the 100 ms default of IsTimedOut, in clock ticks

ASSUME TpConstants ==
  /\ NoMsg \notin Messages
  /\ MaxCells \in Nat
  /\ Size \in [Messages -> 2 .. MaxCells]
  /\ Session \in [Messages -> Nat]
  /\ Timeout \in Nat

CellIndex == 0 .. MaxCells - 1
Zero      == <<NoMsg, 0>>
Cell      == {Zero} \cup (Messages \X CellIndex)

-----------------------------------------------------------------------------
(* Header checks                                                           *)

kSomeipHeaderSize   == 16
kSomeipTpHeaderSize == 4
kSomeipServiceId    == 24576   \* 0x6000
kEventRdi           == 32770   \* 0x8002

\* h.bytes is the number of bytes that precede the payload in the datagram.
Header == [bytes : Nat, service_id : 0 .. 65535, method_id : 0 .. 65535,
           message_type : 0 .. 255]

\* message_type & 0x20
someip_is_tp(message_type) == (message_type \div 32) % 2 = 1

\* (message_type & 0x1F) must be the notification type 0x02
someip_validate(h) ==
  /\ h.service_id = kSomeipServiceId
  /\ h.message_type % 32 = 2

-----------------------------------------------------------------------------
(* A TP segment: n cells of message m from cell offset on.  Any slice of a *)
(* message is a possible segment; its TP header carries the offset and the *)
(* more_segments flag, clear on the slice that ends the message.           *)

Segment(m, offset, n) ==
  [msg |-> m, offset |-> offset, len |-> n, session |-> Session[m]]

more_segments(seg) == seg.offset + seg.len < Size[seg.msg]

SegmentData(seg, j) == <<seg.msg, seg.offset + j>>

-----------------------------------------------------------------------------
(* class SomeipTpReassembler                                               *)

Tp == [buffer : [CellIndex -> Cell], size : 0 .. MaxCells,
       total_size : 0 .. MaxCells, expected_total : 0 .. MaxCells,
       in_progress : BOOLEAN, session_id : Nat, elapsed : 0 .. Timeout + 1]

TpInit == [buffer |-> [i \in CellIndex |-> Zero], size |-> 0,
           total_size |-> 0, expected_total |-> 0,
           in_progress |-> FALSE, session_id |-> 0, elapsed |-> 0]

\* Mutant of Reset: total_size_ survives.
ResetKeepsTotal(t) == [t EXCEPT !.expected_total = 0, !.in_progress = FALSE,
                                !.session_id = 0]

\* The buffer and its size are kept for reuse.
Reset(t) == [t EXCEPT !.total_size = 0, !.expected_total = 0,
                      !.in_progress = FALSE, !.session_id = 0]

IsTimedOut(t) == t.in_progress /\ t.elapsed > Timeout

\* Mutant of Restarts: the session id is not compared.
RestartsOnTimeoutOnly(t, session) == IsTimedOut(t)

\* The two early resets of Feed: another session, or a stale reassembly.
Restarts(t, session) ==
  t.in_progress /\ (session # t.session_id \/ IsTimedOut(t))

\* Feed up to the copy: after a reset, or when idle, a reassembly begins.
Begin(t, session) ==
  IF t.in_progress /\ ~Restarts(t, session)
  THEN t
  ELSE [Reset(t) EXCEPT !.in_progress = TRUE, !.session_id = session,
                        !.elapsed = 0]

\* Mutant of CopyIn: assign(end, 0) in place of resize(end).
CopyInAssign(t, seg) ==
  LET end == seg.offset + seg.len
  IN  [t EXCEPT
        !.buffer = [i \in CellIndex |->
                      IF seg.offset <= i /\ i < end
                      THEN SegmentData(seg, i - seg.offset)
                      ELSE IF end > t.size THEN Zero ELSE t.buffer[i]],
        !.size = IF end > t.size THEN end ELSE t.size]

\* Mutant of CopyIn: what the buffer already covers is not copied again.
CopyInNew(t, seg) ==
  LET end == seg.offset + seg.len
  IN  [t EXCEPT
        !.buffer = [i \in CellIndex |->
                      IF seg.offset <= i /\ i < end /\ end > t.size
                      THEN SegmentData(seg, i - seg.offset)
                      ELSE t.buffer[i]],
        !.size = IF end > t.size THEN end ELSE t.size]

\* buffer_.resize(end) when it is too small, then the memcpy.
CopyIn(t, seg) ==
  LET end == seg.offset + seg.len
  IN  [t EXCEPT
        !.buffer = [i \in CellIndex |->
                      IF seg.offset <= i /\ i < end
                      THEN SegmentData(seg, i - seg.offset)
                      ELSE t.buffer[i]],
        !.size = IF end > t.size THEN end ELSE t.size]

\* Mutant of LastSegmentSeen: the kept buffer must have the exact size.
LastSegmentSeenExact(t, seg) == ~more_segments(seg) /\ t.size = seg.offset + seg.len

\* The test that ends a reassembly.
LastSegmentSeen(t, seg) == ~more_segments(seg) /\ t.size >= seg.offset + seg.len

Feed(t, seg) ==
  IF seg.len = 0
  THEN t
  ELSE LET copied == CopyIn(Begin(t, seg.session), seg)
           end    == seg.offset + seg.len
       IN  IF LastSegmentSeen(copied, seg)
           THEN [copied EXCEPT !.expected_total = end, !.total_size = end,
                               !.in_progress = FALSE]
           ELSE copied

\* What Feed returns.
FeedReturns(t, seg) == seg.len # 0 /\ ~Feed(t, seg).in_progress

\* A payload: its length and its cells, Zero beyond the length.
Payload(cells, n) ==
  [len |-> n, at |-> [i \in CellIndex |-> IF i < n THEN cells[i] ELSE Zero]]

\* GetPayload and GetPayloadSize
TpPayload(t) == Payload(t.buffer, t.total_size)

\* The first n cells of message m; all of them are the message as sent.
Prefix(m, n) == Payload([i \in CellIndex |-> <<m, i>>], n)
Whole(m)     == Prefix(m, Size[m])
=============================================================================
