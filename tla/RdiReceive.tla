----------------------------- MODULE RdiReceive -----------------------------
(***************************************************************************)
(* The RDI receiver thread of afi920_node.cpp once a datagram is in its    *)
(* buffer: process_rdi_datagram with the SOME/IP checks, TP reassembly,    *)
(* the E2E gate consume_e2e_header, the parser's header check and          *)
(* deliver_rdi_frame with its loss statistics.                             *)
(*                                                                         *)
(* The network is UDP at its worst: at every step any slice of any message *)
(* may arrive, so segments are lost, repeated, reordered and mixed freely. *)
(*                                                                         *)
(* The thread is the only user of tp and of the statistics; the two E2E    *)
(* flags belong to the parameter callback.  One call of the handler is one *)
(* step; ParamUpdate looks at a parameter change in the middle of it.      *)
(***************************************************************************)
EXTENDS SomeipTp

CONSTANTS
  Headers,     \* the SOME/IP headers that occur
  Counter,     \* Counter[m]: the message_counter in the RDI header of m
  CounterMod   \* 2^32 in the code

ASSUME RdiConstants ==
  /\ Headers \subseteq Header
  /\ CounterMod \in Nat \ {0, 1}
  /\ Counter \in [Messages -> 0 .. CounterMod - 1]

VARIABLES
  tp,                \* rdi_tp_
  validate_e2e, e2e_strict,
  total_packets, lost_packets, last_rdi_counter, first_rdi,
  out,               \* what the last call of the handler did, and the
                     \* payload of the frame it handed to on_rdi_frame
  got,               \* history: cells written since the reassembly began
  run,               \* history: the segments since one of another message
  latest,            \* history: the message that was last written to each place
  first_counter      \* history: message_counter of the first frame

stats == <<total_packets, lost_packets, last_rdi_counter, first_rdi,
           first_counter>>
vars  == <<tp, validate_e2e, e2e_strict, stats, out, got, run, latest>>

UInt      == 0 .. CounterMod - 1
PayloadOf == [len : 0 .. MaxCells, at : [CellIndex -> Cell]]
Returns   == {"ignored", "partial", "dropped", "parse_failed", "published"}
Nothing   == Payload([i \in CellIndex |-> Zero], 0)
NoRun     == [msg |-> NoMsg, cells |-> {}, final |-> FALSE]

Out(is_tp, ret, p) == [is_tp |-> is_tp, ret |-> ret, pub |-> p]
Idle == Out(FALSE, "ignored", Nothing)

Init ==
  /\ tp = TpInit
  /\ validate_e2e \in BOOLEAN /\ e2e_strict \in BOOLEAN
  /\ total_packets = 0 /\ lost_packets = 0
  /\ last_rdi_counter = 0 /\ first_rdi = TRUE /\ first_counter = 0
  /\ out = Idle
  /\ got = {}
  /\ run = NoRun
  /\ latest = [i \in CellIndex |-> NoMsg]

-----------------------------------------------------------------------------
(* uint32_t arithmetic: the operands and the result are below CounterMod.  *)

UAdd(a, b) == IF a + b >= CounterMod THEN a + b - CounterMod ELSE a + b
USub(a, b) == IF a >= b THEN a - b ELSE a + CounterMod - b

-----------------------------------------------------------------------------
(* The E2E gate.  The CRC is taken as ideal: it matches exactly when the   *)
(* payload is a message as it was sent.  An E2E header of zero bytes names *)
(* length 0 and data id 0.                                                 *)

CrcOk(p)      == \E m \in Messages : p = Whole(m)
MetadataOk(p) == \E m \in Messages : p.at[0] = <<m, 0>> /\ p.len = Size[m]

consume_e2e_header(p) ==
  /\ p.len >= 1
  /\ validate_e2e /\ ~CrcOk(p) => ~e2e_strict
  /\ ~MetadataOk(p) => ~e2e_strict

\* RdiParser::Parse fails exactly when the RDI header is not there.
ParseOk(p) == p.len >= 2

MessageCounter(p) == IF p.at[1] = Zero THEN 0 ELSE Counter[p.at[1][1]]

\* Mutant of deliver_rdi_frame: the counter is stored on the first and on
\* in-order frames only.
deliver_keeping_counter(p) ==
  LET c   == MessageCounter(p)
      gap == USub(c, UAdd(last_rdi_counter, 1))
  IN  /\ total_packets' = UAdd(total_packets, 1)
      /\ lost_packets' = IF first_rdi THEN lost_packets
                                      ELSE UAdd(lost_packets, gap)
      /\ last_rdi_counter' = IF first_rdi \/ gap = 0 THEN c
                                                    ELSE last_rdi_counter
      /\ first_rdi' = FALSE
      /\ first_counter' = IF first_rdi THEN c ELSE first_counter

deliver_rdi_frame(p) ==
  LET c   == MessageCounter(p)
      gap == USub(c, UAdd(last_rdi_counter, 1))
  IN  /\ total_packets' = UAdd(total_packets, 1)
      /\ lost_packets' = IF first_rdi THEN lost_packets
                                      ELSE UAdd(lost_packets, gap)
      /\ last_rdi_counter' = c
      /\ first_rdi' = FALSE
      /\ first_counter' = IF first_rdi THEN c ELSE first_counter

\* From the E2E gate to the end of the handler.
ProcessPayload(is_tp, p) ==
  \/ /\ ~consume_e2e_header(p)
     /\ out' = Out(is_tp, "dropped", Nothing) /\ UNCHANGED stats
  \/ /\ consume_e2e_header(p) /\ ~ParseOk(p)
     /\ out' = Out(is_tp, "parse_failed", Nothing) /\ UNCHANGED stats
  \/ /\ consume_e2e_header(p) /\ ParseOk(p)
     /\ out' = Out(is_tp, "published", p) /\ deliver_rdi_frame(p)

-----------------------------------------------------------------------------
(* process_rdi_datagram, one operator per way through it                   *)

\* The early returns for a header that is short, foreign or another event.
AcceptsHeader(h) ==
  /\ h.bytes >= kSomeipHeaderSize
  /\ someip_validate(h)
  /\ h.method_id = kEventRdi

AcceptsTpHeader(h) == h.bytes >= kSomeipHeaderSize + kSomeipTpHeaderSize

Ignore(h) ==
  /\ \/ ~AcceptsHeader(h)
     \/ someip_is_tp(h.message_type) /\ ~AcceptsTpHeader(h)
  /\ out' = Idle
  /\ UNCHANGED <<tp, stats, got, run, latest>>

\* History: the cells of this reassembly; the cells of seg.msg that arrived,
\* in whatever order, with no segment of another message between them; the
\* message of the latest segment at each place.
Observe(seg) ==
  LET end   == seg.offset + seg.len
      cells == {i \in CellIndex : seg.offset <= i /\ i < end}
  IN  IF seg.len = 0
      THEN UNCHANGED <<got, run, latest>>
      ELSE /\ got' = IF tp.in_progress /\ ~Restarts(tp, seg.session)
                     THEN got \cup cells ELSE cells
           /\ run' = [msg   |-> seg.msg,
                      cells |-> IF run.msg = seg.msg THEN run.cells \cup cells
                                                     ELSE cells,
                      final |-> ~more_segments(seg)]
           /\ latest' = [i \in CellIndex |-> IF i \in cells THEN seg.msg
                                                           ELSE latest[i]]

FeedSegment(h, seg) ==
  /\ AcceptsHeader(h) /\ someip_is_tp(h.message_type) /\ AcceptsTpHeader(h)
  /\ Observe(seg)
  /\ \/ /\ ~FeedReturns(tp, seg)
        /\ tp' = Feed(tp, seg)
        /\ out' = IF seg.len = 0 THEN Idle ELSE Out(TRUE, "partial", Nothing)
        /\ UNCHANGED stats
     \/ /\ FeedReturns(tp, seg)
        /\ ProcessPayload(TRUE, TpPayload(Feed(tp, seg)))
        /\ tp' = Reset(Feed(tp, seg))

WholeDatagram(h, p) ==
  /\ AcceptsHeader(h) /\ ~someip_is_tp(h.message_type)
  /\ ProcessPayload(FALSE, p)
  /\ UNCHANGED <<tp, got, run, latest>>

process_rdi_datagram(h, m, offset, n) ==
  /\ \/ Ignore(h)
     \/ FeedSegment(h, Segment(m, offset, n))
     \/ offset = 0 /\ WholeDatagram(h, Prefix(m, n))
  /\ UNCHANGED <<validate_e2e, e2e_strict>>

\* on_parameter_change, for the two flags this thread reads.
SetE2e(v, s) ==
  /\ validate_e2e' = v /\ e2e_strict' = s
  /\ out' = Idle
  /\ UNCHANGED <<tp, stats, got, run, latest>>

\* The steady clock, while a reassembly is open.
Tick ==
  /\ tp.in_progress /\ tp.elapsed <= Timeout
  /\ tp' = [tp EXCEPT !.elapsed = @ + 1]
  /\ out' = Idle
  /\ UNCHANGED <<validate_e2e, e2e_strict, stats, got, run, latest>>

Next ==
  \/ \E h \in Headers, m \in Messages :
       \E offset \in 0 .. Size[m] - 1 : \E n \in 0 .. Size[m] - offset :
         process_rdi_datagram(h, m, offset, n)
  \/ \E v, s \in BOOLEAN : SetE2e(v, s)
  \/ Tick

Spec == Init /\ [][Next]_vars

-----------------------------------------------------------------------------
(* Properties                                                              *)

\* Type correctness.  tp \in Tp also says that a reassembly never reaches
\* beyond the largest payload, and that total_size is 0 between two calls.
TypeOK ==
  /\ tp \in Tp /\ tp.total_size = 0
  /\ validate_e2e \in BOOLEAN /\ e2e_strict \in BOOLEAN
  /\ total_packets \in UInt /\ lost_packets \in UInt
  /\ last_rdi_counter \in UInt /\ first_counter \in UInt
  /\ first_rdi \in BOOLEAN
  /\ out \in [is_tp : BOOLEAN, ret : Returns, pub : PayloadOf]
  /\ got \in SUBSET CellIndex
  /\ run \in [msg : Messages \cup {NoMsg}, cells : SUBSET CellIndex,
             final : BOOLEAN]
  /\ latest \in [CellIndex -> Messages \cup {NoMsg}]

\* Whatever was lost, repeated, timed out or mixed before it, a message all
\* of whose segments arrive, in any order but with its final segment last and
\* none of another message between them, is published by the call that takes
\* the final segment, byte for byte, under every setting of the E2E flags:
\* Feed needs neither a quiet period nor a reset to recover.
WholeMessagePublished ==
  /\ out.is_tp
  /\ run.final /\ \A i \in CellIndex : i < Size[run.msg] => i \in run.cells
  => out.ret = "published" /\ out.pub = Whole(run.msg)

\* The reason: what arrived of the current message is in place in the buffer,
\* untouched by resets, time-outs and the buffer's growth.
RunInBuffer ==
  \A i \in run.cells : i < tp.size /\ tp.buffer[i] = <<run.msg, i>>

\* A reassembly in progress holds cells of one session only: the cells Feed
\* wrote since the reassembly began all come from messages of session_id_.
OneSession ==
  tp.in_progress => \A i \in got : /\ tp.buffer[i][1] \in Messages
                                   /\ Session[tp.buffer[i][1]] = tp.session_id

\* Although the final segment alone ends a reassembly, and the buffer keeps
\* what earlier messages left in it, in strict mode a message is published
\* exactly if it is complete: the call that takes the final segment publishes
\* the message, byte for byte, if the latest segment at each of its places was
\* the message's own, and drops it if one is missing or was overwritten.
StrictMeansComplete ==
  validate_e2e /\ e2e_strict /\ out.is_tp /\ out.ret # "partial" =>
    IF \A i \in CellIndex : i < Size[run.msg] => latest[i] = run.msg
    THEN out.ret = "published" /\ out.pub = Whole(run.msg)
    ELSE out.ret = "dropped"

\* Frames counted and frames counted as lost add up, modulo 2^32, to the span
\* of message counters seen since the first frame: deliver_rdi_frame neither
\* forgets a gap nor counts one twice, across wrap-around included.
LossAccounting ==
  ~first_rdi => UAdd(total_packets, lost_packets)
                  = UAdd(USub(last_rdi_counter, first_counter), 1)

\* "Session ID mismatch: new message started, reset and begin fresh"
\* (someip_parser.cpp:60): with the CRC validated, as by default, a frame
\* published from a reassembly carries bytes of one session only.
BeginsFresh ==
  LET from(i) == out.pub.at[i][1]
  IN  validate_e2e /\ out.is_tp /\ out.ret = "published"
        => \A i, j \in CellIndex :
             from(i) # NoMsg /\ from(j) # NoMsg => Session[from(i)] = Session[from(j)]
=============================================================================
