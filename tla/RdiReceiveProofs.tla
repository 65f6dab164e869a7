-------------------------- MODULE RdiReceiveProofs --------------------------
(* Proofs about the RDI receiver, for all constants RdiReceive allows.     *)
EXTENDS RdiReceive, TLAPS

\* The lower ends of the counts' ranges belong to them.
LEMMA Bounds == 0 \in 0 .. MaxCells /\ 0 \in 0 .. Timeout + 1 /\ MaxCells \in Nat
BY TpConstants

\* A segment that can arrive lies within its message.
LEMMA SegmentFacts ==
  ASSUME NEW m \in Messages, NEW offset \in 0 .. Size[m] - 1,
         NEW n \in 0 .. Size[m] - offset
  PROVE  LET seg == Segment(m, offset, n)
         IN  /\ seg.msg = m /\ seg.offset = offset /\ seg.len = n
             /\ seg.session = Session[m] /\ Session[m] \in Nat
             /\ more_segments(seg) <=> offset + n < Size[m]
             /\ offset \in Nat /\ n \in Nat
             /\ Size[m] \in 2 .. MaxCells /\ offset + n \in 0 .. Size[m]
             /\ offset + n \in 0 .. MaxCells
BY TpConstants DEF Segment, more_segments

\* Begin touches neither the buffer nor its size, and leaves a reassembly of
\* the segment's session in progress.
LEMMA BeginFacts ==
  ASSUME NEW t \in Tp, NEW s \in Nat, t.total_size = 0
  PROVE  /\ Begin(t, s) \in Tp
         /\ Begin(t, s).buffer = t.buffer /\ Begin(t, s).size = t.size
         /\ Begin(t, s).in_progress /\ Begin(t, s).total_size = 0
         /\ Begin(t, s).session_id = s
<1>1. CASE t.in_progress /\ ~Restarts(t, s)
  BY <1>1 DEF Begin, Restarts, Tp
<1>2. CASE ~(t.in_progress /\ ~Restarts(t, s))
  BY <1>2, Bounds DEF Begin, Reset, Tp
<1> QED BY <1>1, <1>2

\* The copy writes exactly the segment's cells and the size covers them.
LEMMA CopyInFacts ==
  ASSUME NEW m \in Messages, NEW offset \in 0 .. Size[m] - 1,
         NEW n \in 0 .. Size[m] - offset, NEW t \in Tp
  PROVE  LET seg == Segment(m, offset, n)
             c   == CopyIn(t, seg)
         IN  /\ c \in Tp
             /\ \A i \in CellIndex :
                  c.buffer[i] = IF offset <= i /\ i < offset + n
                                THEN <<m, i>> ELSE t.buffer[i]
             /\ c.size >= t.size /\ c.size >= offset + n
             /\ c.total_size = t.total_size /\ c.in_progress = t.in_progress
             /\ c.session_id = t.session_id
<1> DEFINE seg == Segment(m, offset, n)
           buf == [i \in CellIndex |-> IF seg.offset <= i /\ i < seg.offset + seg.len
                                       THEN SegmentData(seg, i - seg.offset)
                                       ELSE t.buffer[i]]
           sz  == IF seg.offset + seg.len > t.size THEN seg.offset + seg.len
                                                  ELSE t.size
           c   == CopyIn(t, seg)
<1>1. c = [t EXCEPT !.buffer = buf, !.size = sz]
  BY DEF CopyIn
<1>2. \A i \in CellIndex : /\ buf[i] = IF offset <= i /\ i < offset + n
                                       THEN <<m, i>> ELSE t.buffer[i]
                           /\ buf[i] \in Cell
  <2> SUFFICES ASSUME NEW i \in CellIndex
               PROVE  /\ buf[i] = IF offset <= i /\ i < offset + n
                                  THEN <<m, i>> ELSE t.buffer[i]
                      /\ buf[i] \in Cell
    OBVIOUS
  <2>1. seg.msg = m /\ seg.offset = offset /\ seg.len = n /\ offset \in Int
    BY SegmentFacts
  <2>2. buf[i] = IF offset <= i /\ i < offset + n
                 THEN <<m, offset + (i - offset)>> ELSE t.buffer[i]
    BY <2>1 DEF SegmentData
  <2>3. offset + (i - offset) = i
    BY <2>1 DEF CellIndex
  <2>4. t.buffer[i] \in Cell /\ <<m, i>> \in Cell
    BY DEF Tp, Cell
  <2> QED BY <2>2, <2>3, <2>4
<1>3. buf \in [CellIndex -> Cell]
  BY <1>2
<1>4. sz \in 0 .. MaxCells /\ sz >= t.size /\ sz >= offset + n
  BY SegmentFacts, TpConstants DEF Tp
<1> QED BY <1>1, <1>2, <1>3, <1>4 DEF Tp

\* Feed with data: it ends the reassembly exactly on the final segment.
LEMMA FeedFacts ==
  ASSUME NEW m \in Messages, NEW offset \in 0 .. Size[m] - 1,
         NEW n \in 1 .. Size[m] - offset, NEW t \in Tp, t.total_size = 0
  PROVE  LET seg == Segment(m, offset, n)
             f   == Feed(t, seg)
         IN  /\ f \in Tp
             /\ \A i \in CellIndex :
                  f.buffer[i] = IF offset <= i /\ i < offset + n
                                THEN <<m, i>> ELSE t.buffer[i]
             /\ f.size >= t.size /\ f.size >= offset + n
             /\ f.session_id = Session[m]
             /\ FeedReturns(t, seg) <=> offset + n = Size[m]
             /\ f.in_progress <=> offset + n # Size[m]
             /\ offset + n = Size[m] => f.total_size = Size[m]
             /\ offset + n # Size[m] => f.total_size = 0
<1> DEFINE seg == Segment(m, offset, n)
           b   == Begin(t, Session[m])
           c   == CopyIn(b, seg)
           e   == offset + n
           f   == Feed(t, seg)
<1>1. /\ seg.len = n /\ seg.offset = offset /\ seg.session = Session[m] /\ n # 0
      /\ Session[m] \in Nat /\ e \in 0 .. MaxCells /\ e \in 0 .. Size[m]
      /\ Size[m] \in Nat
      /\ more_segments(seg) <=> e < Size[m]
  BY SegmentFacts
<1>2. /\ b \in Tp /\ b.buffer = t.buffer /\ b.size = t.size
      /\ b.in_progress /\ b.total_size = 0 /\ b.session_id = Session[m]
  BY <1>1, BeginFacts
<1>3. /\ c \in Tp
      /\ \A i \in CellIndex : c.buffer[i] = IF offset <= i /\ i < e
                                             THEN <<m, i>> ELSE b.buffer[i]
      /\ c.size >= b.size /\ c.size >= e
      /\ c.total_size = 0 /\ c.in_progress /\ c.session_id = Session[m]
  BY <1>2, CopyInFacts
<1>4. LastSegmentSeen(c, seg) <=> e = Size[m]
  BY <1>1, <1>3 DEF LastSegmentSeen, Tp
<1>5. CASE e = Size[m]
  <2>1. f = [c EXCEPT !.expected_total = e, !.total_size = e,
                      !.in_progress = FALSE]
    BY <1>1, <1>4, <1>5 DEF Feed
  <2>2. /\ f \in Tp /\ f.buffer = c.buffer /\ f.size = c.size
        /\ f.session_id = c.session_id /\ f.total_size = e /\ ~f.in_progress
    <3>1. c \in Tp /\ e \in 0 .. MaxCells
      BY <1>1, <1>3
    <3> HIDE DEF c, e, f
    <3> QED BY <3>1, <2>1 DEF Tp
  <2>3. FeedReturns(t, seg)
    BY <1>1, <2>2 DEF FeedReturns
  <2> QED BY <1>2, <1>3, <1>5, <2>2, <2>3
<1>6. CASE e # Size[m]
  <2>1. f = c
    BY <1>1, <1>4, <1>6 DEF Feed
  <2>2. ~FeedReturns(t, seg)
    BY <1>3, <2>1 DEF FeedReturns
  <2> QED BY <1>2, <1>3, <1>6, <2>1, <2>2
<1> QED BY <1>5, <1>6

\* A segment without data changes nothing.
LEMMA FeedEmpty ==
  ASSUME NEW m \in Messages, NEW offset \in 0 .. Size[m] - 1, NEW t \in Tp
  PROVE  LET seg == Segment(m, offset, 0)
         IN  Feed(t, seg) = t /\ ~FeedReturns(t, seg)
BY DEF Feed, FeedReturns, Segment

\* Reset ends the message and keeps the buffer.
LEMMA ResetFacts ==
  ASSUME NEW t \in Tp
  PROVE  /\ Reset(t) \in Tp /\ Reset(t).buffer = t.buffer
         /\ Reset(t).size = t.size /\ Reset(t).total_size = 0
         /\ ~Reset(t).in_progress
BY Bounds DEF Reset, Tp

\* A payload is well-typed if the cells it is cut from are.
LEMMA PayloadType ==
  ASSUME NEW cells \in [CellIndex -> Cell], NEW n \in 0 .. MaxCells
  PROVE  Payload(cells, n) \in PayloadOf
BY DEF Payload, PayloadOf, Cell

\* The empty payload and the handler at rest are well-typed.
LEMMA NothingType == Nothing \in PayloadOf /\ Idle.ret = "ignored"
                     /\ ~Idle.is_tp /\ Idle.pub = Nothing
<1>1. [i \in CellIndex |-> Zero] \in [CellIndex -> Cell]
  BY DEF Cell
<1> QED BY <1>1, Bounds, PayloadType DEF Nothing, Idle, Out

-----------------------------------------------------------------------------
(* The steps of the handler                                                *)

\* The cells a segment writes.
Written(offset, n) == {i \in CellIndex : offset <= i /\ i < offset + n}

\* What FeedSegment does to the reassembler and to the history variables.
FeedEffect(m, offset, n) ==
  /\ tp' \in Tp /\ tp'.total_size = 0
  /\ \A i \in CellIndex :
       tp'.buffer[i] = IF offset <= i /\ i < offset + n
                       THEN <<m, i>> ELSE tp.buffer[i]
  /\ tp'.size >= tp.size /\ tp'.size >= offset + n
  /\ tp'.in_progress <=> offset + n # Size[m]
  /\ tp'.in_progress => tp'.session_id = Session[m]
  /\ got' = IF tp.in_progress /\ ~Restarts(tp, Session[m])
            THEN got \cup Written(offset, n) ELSE Written(offset, n)
  /\ run'.msg = m
  /\ run'.cells = IF run.msg = m THEN run.cells \cup Written(offset, n)
                                 ELSE Written(offset, n)
  /\ run'.final <=> offset + n = Size[m]
  /\ run' \in [msg : Messages \cup {NoMsg}, cells : SUBSET CellIndex,
               final : BOOLEAN]
  /\ latest' = [i \in CellIndex |-> IF offset <= i /\ i < offset + n
                                     THEN m ELSE latest[i]]

\* A call of FeedSegment with at least one byte has the effect stated above.
LEMMA FeedStep ==
  ASSUME TypeOK, NEW h \in Headers, NEW m \in Messages,
         NEW offset \in 0 .. Size[m] - 1, NEW n \in 1 .. Size[m] - offset,
         FeedSegment(h, Segment(m, offset, n))
  PROVE  FeedEffect(m, offset, n)
<1> DEFINE seg == Segment(m, offset, n)
           f   == Feed(tp, seg)
<1>1. /\ seg.len = n /\ n # 0 /\ seg.offset = offset /\ seg.msg = m
      /\ seg.session = Session[m] /\ Size[m] \in Nat
      /\ more_segments(seg) <=> offset + n # Size[m]
  BY SegmentFacts
<1>2. tp \in Tp /\ tp.total_size = 0
  BY DEF TypeOK
<1>3. /\ f \in Tp
      /\ \A i \in CellIndex :
           f.buffer[i] = IF offset <= i /\ i < offset + n
                         THEN <<m, i>> ELSE tp.buffer[i]
      /\ f.size >= tp.size /\ f.size >= offset + n
      /\ f.session_id = Session[m]
      /\ FeedReturns(tp, seg) <=> offset + n = Size[m]
      /\ f.in_progress <=> offset + n # Size[m]
      /\ offset + n # Size[m] => f.total_size = 0
  BY <1>2, FeedFacts
<1>4. /\ tp' \in Tp /\ tp'.total_size = 0 /\ tp'.buffer = f.buffer
      /\ tp'.size = f.size
      /\ tp'.in_progress <=> offset + n # Size[m]
      /\ tp'.in_progress => tp'.session_id = Session[m]
  <2>1. CASE offset + n = Size[m]
    <3>1. tp' = Reset(f)
      BY <1>3, <2>1 DEF FeedSegment
    <3> QED BY <1>3, <2>1, <3>1, ResetFacts
  <2>2. CASE offset + n # Size[m]
    <3>1. tp' = f
      BY <1>3, <2>2 DEF FeedSegment
    <3> QED BY <1>3, <2>2, <3>1
  <2> QED BY <2>1, <2>2
<1>5. /\ got' = IF tp.in_progress /\ ~Restarts(tp, Session[m])
                THEN got \cup Written(offset, n) ELSE Written(offset, n)
      /\ run' = [msg |-> m,
                 cells |-> IF run.msg = m THEN run.cells \cup Written(offset, n)
                                          ELSE Written(offset, n),
                 final |-> ~more_segments(seg)]
      /\ latest' = [i \in CellIndex |-> IF i \in Written(offset, n)
                                         THEN m ELSE latest[i]]
  BY <1>1 DEF FeedSegment, Observe, Written
<1>6. run.cells \in SUBSET CellIndex /\ Written(offset, n) \in SUBSET CellIndex
  BY DEF TypeOK, Written
<1>7. /\ run'.msg = m
      /\ run'.cells = IF run.msg = m THEN run.cells \cup Written(offset, n)
                                     ELSE Written(offset, n)
      /\ run'.final = ~more_segments(seg)
      /\ run' \in [msg : Messages \cup {NoMsg}, cells : SUBSET CellIndex,
                   final : BOOLEAN]
  BY <1>5, <1>6
<1>8. run'.final <=> offset + n = Size[m]
  BY <1>1, <1>7
<1>9. latest' = [i \in CellIndex |-> IF offset <= i /\ i < offset + n
                                     THEN m ELSE latest[i]]
  BY <1>5 DEF Written
<1> QED BY <1>3, <1>4, <1>5, <1>7, <1>8, <1>9 DEF FeedEffect

\* uint32_t arithmetic stays within its range.
LEMMA UIntFacts ==
  ASSUME NEW a \in UInt, NEW b \in UInt
  PROVE  UAdd(a, b) \in UInt /\ USub(a, b) \in UInt
BY RdiConstants DEF UAdd, USub, UInt

\* The constants that the statistics add are words.
LEMMA OneIsUInt == 0 \in UInt /\ 1 \in UInt
BY RdiConstants DEF UInt

\* The message counter of a payload that reaches the parser is a word.
LEMMA CounterType ==
  ASSUME NEW p \in PayloadOf, 1 \in CellIndex
  PROVE  MessageCounter(p) \in UInt
<1>1. p.at[1] \in Cell
  BY DEF PayloadOf
<1>2. p.at[1] # Zero => p.at[1][1] \in Messages
  BY <1>1 DEF Cell
<1> QED BY <1>2, OneIsUInt, RdiConstants DEF MessageCounter, UInt

StatsOK ==
  /\ total_packets \in UInt /\ lost_packets \in UInt
  /\ last_rdi_counter \in UInt /\ first_counter \in UInt
  /\ first_rdi \in BOOLEAN

OutOK == out \in [is_tp : BOOLEAN, ret : Returns, pub : PayloadOf]

\* What the handler reports is well-typed and has the parts it is made of.
LEMMA OutType ==
  ASSUME NEW b \in BOOLEAN, NEW r \in Returns, NEW p \in PayloadOf
  PROVE  /\ Out(b, r, p) \in [is_tp : BOOLEAN, ret : Returns, pub : PayloadOf]
         /\ Out(b, r, p).is_tp = b /\ Out(b, r, p).ret = r
         /\ Out(b, r, p).pub = p
BY DEF Out

\* The gate, the parser and deliver_rdi_frame keep the types of statistics and output.
LEMMA ProcessType ==
  ASSUME StatsOK, NEW p \in PayloadOf, 1 \in CellIndex, NEW b \in BOOLEAN,
         ProcessPayload(b, p)
  PROVE  StatsOK' /\ OutOK'
<1>1. CASE UNCHANGED stats
  <2>1. StatsOK'
    BY <1>1 DEF StatsOK, stats
  <2>2. OutOK'
    BY NothingType, OutType DEF ProcessPayload, OutOK, Returns
  <2> QED BY <2>1, <2>2
<1>2. CASE deliver_rdi_frame(p)
  <2>1. MessageCounter(p) \in UInt
    BY CounterType
  <2>2. /\ total_packets' = UAdd(total_packets, 1)
        /\ lost_packets' \in
             {lost_packets,
              UAdd(lost_packets,
                   USub(MessageCounter(p), UAdd(last_rdi_counter, 1)))}
        /\ last_rdi_counter' = MessageCounter(p)
        /\ first_rdi' = FALSE
        /\ first_counter' \in {MessageCounter(p), first_counter}
    BY <1>2 DEF deliver_rdi_frame
  <2>3. StatsOK'
    BY <2>1, <2>2, UIntFacts, OneIsUInt DEF StatsOK
  <2>4. OutOK'
    BY NothingType, OutType DEF ProcessPayload, OutOK, Returns
  <2> QED BY <2>3, <2>4
<1> QED BY <1>1, <1>2 DEF ProcessPayload

-----------------------------------------------------------------------------
(* Type correctness                                                        *)

\* The constructor's values are well-typed.
LEMMA TypeInit == Init => TypeOK
<1> SUFFICES ASSUME Init PROVE TypeOK
  OBVIOUS
<1>1. TpInit \in Tp /\ TpInit.total_size = 0
  BY Bounds, TpConstants DEF TpInit, Tp, Cell
<1>2. Idle \in [is_tp : BOOLEAN, ret : Returns, pub : PayloadOf]
  BY NothingType, OutType DEF Idle, Returns
<1>3. NoRun \in [msg : Messages \cup {NoMsg}, cells : SUBSET CellIndex,
                 final : BOOLEAN]
  BY DEF NoRun
<1> QED BY <1>1, <1>2, <1>3, OneIsUInt DEF Init, TypeOK

\* No call of the handler and no tick of the clock breaks the types.
LEMMA TypeStep == TypeOK /\ [Next]_vars => TypeOK'
<1> SUFFICES ASSUME TypeOK, [Next]_vars PROVE TypeOK'
  OBVIOUS
<1>0. StatsOK /\ OutOK
  BY DEF TypeOK, StatsOK, OutOK
<1>i. Idle \in [is_tp : BOOLEAN, ret : Returns, pub : PayloadOf]
  BY NothingType, OutType DEF Idle, Returns
<1>1. ASSUME NEW h \in Headers, NEW m \in Messages,
             NEW offset \in 0 .. Size[m] - 1, NEW n \in 0 .. Size[m] - offset,
             process_rdi_datagram(h, m, offset, n)
      PROVE  TypeOK'
  <2>0. UNCHANGED <<validate_e2e, e2e_strict>> /\ 1 \in CellIndex
    BY <1>1, SegmentFacts, TpConstants DEF process_rdi_datagram, CellIndex
  <2>1. CASE Ignore(h)
    BY <2>0, <2>1, <1>i DEF Ignore, TypeOK, stats
  <2>2. CASE FeedSegment(h, Segment(m, offset, n))
    <3>1. CASE n = 0
      <4>1. Segment(m, offset, n).len = 0 /\ UNCHANGED <<got, run, latest>>
        BY <2>2, <3>1 DEF FeedSegment, Observe, Segment
      <4>2. tp' = tp /\ out' = Idle /\ UNCHANGED stats
        BY <2>2, <3>1, <4>1, FeedEmpty DEF FeedSegment, TypeOK
      <4> QED BY <2>0, <4>1, <4>2, <1>i DEF TypeOK, stats
    <3>2. CASE n # 0
      <4>1. n \in 1 .. Size[m] - offset
        BY <3>2
      <4>2. /\ tp' \in Tp /\ tp'.total_size = 0
            /\ run' \in [msg : Messages \cup {NoMsg}, cells : SUBSET CellIndex,
                         final : BOOLEAN]
            /\ got' \in SUBSET CellIndex
            /\ latest' \in [CellIndex -> Messages \cup {NoMsg}]
        <5>1. FeedEffect(m, offset, n)
          BY <2>2, <4>1, FeedStep
        <5>2. got \in SUBSET CellIndex /\ Written(offset, n) \in SUBSET CellIndex
          BY DEF TypeOK, Written
        <5>3. latest' \in [CellIndex -> Messages \cup {NoMsg}]
          BY <5>1 DEF FeedEffect, TypeOK
        <5> QED BY <5>1, <5>2, <5>3 DEF FeedEffect
      <4>3. StatsOK' /\ OutOK'
        <5> DEFINE f == Feed(tp, Segment(m, offset, n))
        <5>1. CASE ~FeedReturns(tp, Segment(m, offset, n))
          <6>1. UNCHANGED stats /\ out' \in {Idle, Out(TRUE, "partial", Nothing)}
            BY <2>2, <5>1 DEF FeedSegment
          <6>2. StatsOK'
            BY <6>1, <1>0 DEF StatsOK, stats
          <6>3. Out(TRUE, "partial", Nothing)
                  \in [is_tp : BOOLEAN, ret : Returns, pub : PayloadOf]
            BY NothingType, OutType DEF Returns
          <6> QED BY <6>1, <6>2, <6>3, <1>i DEF OutOK
        <5>2. CASE FeedReturns(tp, Segment(m, offset, n))
          <6>1. f \in Tp
            BY <4>1, FeedFacts DEF TypeOK
          <6>2. TpPayload(f) \in PayloadOf
            BY <6>1, PayloadType DEF TpPayload, Tp
          <6>3. ProcessPayload(TRUE, TpPayload(f))
            BY <2>2, <5>2 DEF FeedSegment
          <6> QED BY <1>0, <2>0, <6>2, <6>3, ProcessType
        <5> QED BY <5>1, <5>2
      <4> QED BY <2>0, <4>2, <4>3 DEF TypeOK, StatsOK, OutOK
    <3> QED BY <3>1, <3>2
  <2>3. CASE WholeDatagram(h, Prefix(m, n))
    <3>1. Prefix(m, n) \in PayloadOf
      <4>1. [i \in CellIndex |-> <<m, i>>] \in [CellIndex -> Cell]
        BY DEF Cell
      <4>2. n \in 0 .. MaxCells
        BY SegmentFacts
      <4> QED BY <4>1, <4>2, PayloadType DEF Prefix
    <3>2. StatsOK' /\ OutOK'
      BY <1>0, <2>0, <2>3, <3>1, ProcessType DEF WholeDatagram
    <3> QED BY <2>0, <2>3, <3>2 DEF WholeDatagram, TypeOK, StatsOK, OutOK
  <2> QED BY <1>1, <2>1, <2>2, <2>3 DEF process_rdi_datagram
<1>2. ASSUME NEW v \in BOOLEAN, NEW s \in BOOLEAN, SetE2e(v, s)
      PROVE  TypeOK'
  BY <1>2, <1>i DEF SetE2e, TypeOK, stats
<1>3. CASE Tick
  <2>1. tp' = [tp EXCEPT !.elapsed = tp.elapsed + 1] /\ tp.elapsed <= Timeout
    BY <1>3 DEF Tick
  <2>2. tp' \in Tp /\ tp'.total_size = 0
    BY <2>1, TpConstants DEF TypeOK, Tp
  <2> QED BY <1>3, <2>2, <1>i DEF Tick, TypeOK, stats
<1>4. CASE UNCHANGED vars
  BY <1>4 DEF vars, stats, TypeOK
<1> QED BY <1>1, <1>2, <1>3, <1>4 DEF Next

\* Every field and counter of the RDI receiver keeps its type, and the
\* reassembler is left with total_size_ 0 between two datagrams.
THEOREM TypeCorrect == Spec => []TypeOK
BY TypeInit, TypeStep, PTL DEF Spec

-----------------------------------------------------------------------------
(* What the reassembly buffer holds                                        *)

BufferInv == RunInBuffer /\ OneSession

\* A segment without data leaves everything but out alone.
LEMMA FeedEmptyStep ==
  ASSUME TypeOK, NEW h \in Headers, NEW m \in Messages,
         NEW offset \in 0 .. Size[m] - 1, FeedSegment(h, Segment(m, offset, 0))
  PROVE  UNCHANGED <<tp, got, run, latest, stats>> /\ out' = Idle
<1>1. Segment(m, offset, 0).len = 0
  BY DEF Segment
<1> QED BY <1>1, FeedEmpty DEF FeedSegment, Observe, TypeOK

\* A segment extends the run of its message or begins one, and stays in one session.
LEMMA BufferFeed ==
  ASSUME TypeOK, BufferInv, NEW h \in Headers, NEW m \in Messages,
         NEW offset \in 0 .. Size[m] - 1, NEW n \in 1 .. Size[m] - offset,
         FeedSegment(h, Segment(m, offset, n))
  PROVE  BufferInv'
<1>0. FeedEffect(m, offset, n)
  BY FeedStep
<1>1. /\ tp' \in Tp
      /\ \A i \in CellIndex :
           tp'.buffer[i] = IF offset <= i /\ i < offset + n
                           THEN <<m, i>> ELSE tp.buffer[i]
      /\ tp'.size >= tp.size /\ tp'.size >= offset + n
      /\ tp'.in_progress => tp'.session_id = Session[m]
      /\ got' = IF tp.in_progress /\ ~Restarts(tp, Session[m])
                THEN got \cup Written(offset, n) ELSE Written(offset, n)
      /\ run'.msg = m
      /\ run'.cells = IF run.msg = m THEN run.cells \cup Written(offset, n)
                                     ELSE Written(offset, n)
  BY <1>0 DEF FeedEffect
<1>2. ASSUME NEW i \in Written(offset, n)
      PROVE  i \in CellIndex /\ i < tp'.size /\ tp'.buffer[i] = <<m, i>>
  <2>1. i \in CellIndex /\ offset <= i /\ i < offset + n
    BY DEF Written
  <2>2. tp'.size \in Nat /\ i \in Nat /\ offset \in Nat /\ n \in Nat
    BY <1>1, <2>1, SegmentFacts DEF Tp, CellIndex
  <2>3. tp'.size >= offset + n /\ tp'.buffer[i] = <<m, i>>
    BY <1>1, <2>1
  <2>4. i < tp'.size
    BY <2>1, <2>2, <2>3
  <2> QED BY <2>1, <2>3, <2>4
<1>3. RunInBuffer'
  <2> SUFFICES ASSUME NEW i \in run'.cells
               PROVE  i < tp'.size /\ tp'.buffer[i] = <<m, i>>
    BY <1>1 DEF RunInBuffer
  <2>1. CASE i \in Written(offset, n)
    BY <1>2, <2>1
  <2>2. CASE i \notin Written(offset, n)
    <3>1. i \in run.cells /\ run.msg = m /\ i \in CellIndex
      BY <1>1, <2>2 DEF TypeOK
    <3>2. i < tp.size /\ tp.buffer[i] = <<m, i>>
      BY <3>1 DEF BufferInv, RunInBuffer
    <3>3. tp'.buffer[i] = tp.buffer[i]
      BY <1>1, <2>2, <3>1 DEF Written
    <3>4. i < tp'.size
      BY <1>1, <3>1, <3>2 DEF TypeOK, Tp, CellIndex
    <3> QED BY <3>2, <3>3, <3>4
  <2> QED BY <2>1, <2>2
<1>4. OneSession'
  <2> SUFFICES ASSUME tp'.in_progress, NEW i \in got'
               PROVE  /\ tp'.buffer[i][1] \in Messages
                      /\ Session[tp'.buffer[i][1]] = tp'.session_id
    BY DEF OneSession
  <2>1. CASE i \in Written(offset, n)
    BY <1>1, <1>2, <2>1
  <2>2. CASE i \notin Written(offset, n)
    <3>1. /\ i \in got /\ tp.in_progress /\ ~Restarts(tp, Session[m])
          /\ i \in CellIndex
      BY <1>1, <2>2 DEF TypeOK
    <3>2. tp.session_id = Session[m]
      BY <3>1 DEF Restarts
    <3>3. tp'.buffer[i] = tp.buffer[i]
      BY <1>1, <2>2, <3>1 DEF Written
    <3> QED BY <1>1, <3>1, <3>2, <3>3 DEF BufferInv, OneSession
  <2> QED BY <2>1, <2>2
<1> QED BY <1>3, <1>4 DEF BufferInv

\* At the start there is no run.
LEMMA BufferInit == Init => BufferInv
BY DEF Init, BufferInv, RunInBuffer, OneSession, NoRun, TpInit

\* No step damages what arrived of the current message.
LEMMA BufferStep == TypeOK /\ BufferInv /\ [Next]_vars => BufferInv'
<1> SUFFICES ASSUME TypeOK, BufferInv, [Next]_vars PROVE BufferInv'
  OBVIOUS
<1>0. ASSUME UNCHANGED <<tp, got, run>> PROVE BufferInv'
  BY <1>0 DEF BufferInv, RunInBuffer, OneSession
<1>1. ASSUME NEW h \in Headers, NEW m \in Messages,
             NEW offset \in 0 .. Size[m] - 1, NEW n \in 0 .. Size[m] - offset,
             process_rdi_datagram(h, m, offset, n)
      PROVE  BufferInv'
  <2>1. CASE Ignore(h)
    BY <1>0, <2>1 DEF Ignore
  <2>2. CASE FeedSegment(h, Segment(m, offset, n))
    <3>1. CASE n = 0
      BY <1>0, <2>2, <3>1, FeedEmptyStep
    <3>2. CASE n # 0
      <4>1. n \in 1 .. Size[m] - offset
        BY <3>2
      <4> QED BY <2>2, <4>1, BufferFeed
    <3> QED BY <3>1, <3>2
  <2>3. CASE WholeDatagram(h, Prefix(m, n))
    BY <1>0, <2>3 DEF WholeDatagram
  <2> QED BY <1>1, <2>1, <2>2, <2>3 DEF process_rdi_datagram
<1>2. ASSUME NEW v \in BOOLEAN, NEW s \in BOOLEAN, SetE2e(v, s)
      PROVE  BufferInv'
  BY <1>0, <1>2 DEF SetE2e
<1>3. CASE Tick
  <2>1. /\ tp'.buffer = tp.buffer /\ tp'.size = tp.size
        /\ tp'.in_progress = tp.in_progress /\ tp'.session_id = tp.session_id
        /\ UNCHANGED <<got, run>>
    BY <1>3 DEF Tick, TypeOK, Tp
  <2> QED BY <2>1 DEF BufferInv, RunInBuffer, OneSession
<1>4. CASE UNCHANGED vars
  BY <1>0, <1>4 DEF vars
<1> QED BY <1>1, <1>2, <1>3, <1>4 DEF Next

\* What arrived of the current message is in the buffer, whatever resets and
\* time-outs happened meanwhile.
THEOREM RunInBufferHolds == Spec => []RunInBuffer
<1>1. TypeOK /\ BufferInv /\ [Next]_vars => BufferInv'
  BY BufferStep
<1>2. BufferInv => RunInBuffer
  BY DEF BufferInv
<1> QED BY BufferInit, <1>1, <1>2, TypeCorrect, PTL DEF Spec

\* A reassembly in progress never mixes the segments of two sessions that
\* were fed since it began.
THEOREM OneSessionHolds == Spec => []OneSession
<1>1. TypeOK /\ BufferInv /\ [Next]_vars => BufferInv'
  BY BufferStep
<1>2. BufferInv => OneSession
  BY DEF BufferInv
<1> QED BY BufferInit, <1>1, <1>2, TypeCorrect, PTL DEF Spec

-----------------------------------------------------------------------------
(* What is published                                                       *)

\* A message as sent passes the E2E gate under every setting of the flags
\* and has an RDI header, so it is published.
LEMMA WholeIsPublished ==
  ASSUME NEW m \in Messages, NEW b \in BOOLEAN, ProcessPayload(b, Whole(m))
  PROVE  out' = Out(b, "published", Whole(m))
<1> DEFINE p == Whole(m)
<1>1. Size[m] \in 2 .. MaxCells /\ 0 \in CellIndex /\ MaxCells \in Nat
  BY TpConstants DEF CellIndex
<1>2. p.len = Size[m] /\ p.at[0] = <<m, 0>>
  BY <1>1 DEF Whole, Prefix, Payload, CellIndex
<1>3. CrcOk(p) /\ MetadataOk(p) /\ p.len >= 2 /\ p.len >= 1
  BY <1>1, <1>2 DEF CrcOk, MetadataOk
<1>4. consume_e2e_header(p) /\ ParseOk(p)
  BY <1>3 DEF consume_e2e_header, ParseOk
<1> QED BY <1>4 DEF ProcessPayload

\* The payload of a final segment is the message when all cells are in place.
LEMMA CompleteIsWhole ==
  ASSUME NEW m \in Messages, NEW t \in Tp, t.total_size = Size[m],
         \A i \in CellIndex : i < Size[m] => t.buffer[i] = <<m, i>>
  PROVE  TpPayload(t) = Whole(m)
BY DEF TpPayload, Whole, Prefix, Payload

\* The step that takes the final segment of a complete message publishes it.
LEMMA WholeStep ==
  TypeOK /\ BufferInv /\ [Next]_vars /\ WholeMessagePublished
    => WholeMessagePublished'
<1> SUFFICES ASSUME TypeOK, BufferInv, [Next]_vars, WholeMessagePublished
             PROVE  WholeMessagePublished'
  OBVIOUS
<1>0. ASSUME out' = Idle PROVE WholeMessagePublished'
  BY <1>0, NothingType DEF WholeMessagePublished
<1>1. ASSUME NEW h \in Headers, NEW m \in Messages,
             NEW offset \in 0 .. Size[m] - 1, NEW n \in 0 .. Size[m] - offset,
             process_rdi_datagram(h, m, offset, n)
      PROVE  WholeMessagePublished'
  <2>1. CASE Ignore(h)
    BY <1>0, <2>1 DEF Ignore
  <2>2. CASE FeedSegment(h, Segment(m, offset, n))
    <3>1. CASE n = 0
      BY <1>0, <2>2, <3>1, FeedEmptyStep
    <3>2. CASE n # 0
      <4> DEFINE f == Feed(tp, Segment(m, offset, n))
      <4>1. n \in 1 .. Size[m] - offset
        BY <3>2
      <4>2. FeedEffect(m, offset, n) /\ BufferInv'
        BY <2>2, <4>1, FeedStep, BufferFeed
      <4> SUFFICES ASSUME run'.final,
                          \A i \in CellIndex : i < Size[run'.msg] => i \in run'.cells
                   PROVE  out'.ret = "published" /\ out'.pub = Whole(run'.msg)
        BY DEF WholeMessagePublished
      <4>3. run'.msg = m /\ offset + n = Size[m]
        BY <4>2 DEF FeedEffect
      <4>4. /\ f \in Tp /\ FeedReturns(tp, Segment(m, offset, n))
            /\ f.total_size = Size[m]
        BY <4>1, <4>3, FeedFacts DEF TypeOK
      <4>5. tp' = Reset(f) /\ ProcessPayload(TRUE, TpPayload(f))
        BY <2>2, <4>4 DEF FeedSegment
      <4>6. \A i \in CellIndex : i < Size[m] => f.buffer[i] = <<m, i>>
        <5>1. f.buffer = tp'.buffer
          BY <4>4, <4>5, ResetFacts
        <5> QED BY <4>2, <4>3, <5>1 DEF BufferInv, RunInBuffer
      <4>7. TpPayload(f) = Whole(m)
        BY <4>4, <4>6, CompleteIsWhole
      <4>8. out' = Out(TRUE, "published", Whole(m))
        BY <4>5, <4>7, WholeIsPublished
      <4> QED BY <4>3, <4>8 DEF Out
    <3> QED BY <3>1, <3>2
  <2>3. CASE WholeDatagram(h, Prefix(m, n))
    <3>1. \E r \in Returns, p \in {Nothing, Prefix(m, n)} : out' = Out(FALSE, r, p)
      BY <2>3 DEF WholeDatagram, ProcessPayload, Returns
    <3>2. ~out'.is_tp
      BY <3>1 DEF Out
    <3> QED BY <3>2 DEF WholeMessagePublished
  <2> QED BY <1>1, <2>1, <2>2, <2>3 DEF process_rdi_datagram
<1>2. ASSUME NEW v \in BOOLEAN, NEW s \in BOOLEAN, SetE2e(v, s)
      PROVE  WholeMessagePublished'
  BY <1>0, <1>2 DEF SetE2e
<1>3. CASE Tick
  BY <1>0, <1>3 DEF Tick
<1>4. CASE UNCHANGED vars
  BY <1>4 DEF vars, WholeMessagePublished
<1> QED BY <1>1, <1>2, <1>3, <1>4 DEF Next

\* A message all of whose segments arrive, final one last and none of another
\* message between them, is published intact, after any history of losses,
\* session changes and time-outs and under every E2E setting.
THEOREM WholeMessagesArePublished == Spec => []WholeMessagePublished
<1>1. TypeOK /\ BufferInv /\ [Next]_vars => BufferInv'
  BY BufferStep
<1>2. Init => WholeMessagePublished
  BY NothingType DEF Init, WholeMessagePublished
<1>3. TypeOK /\ BufferInv /\ [Next]_vars /\ WholeMessagePublished
        => WholeMessagePublished'
  BY WholeStep
<1> QED BY BufferInit, <1>1, <1>2, <1>3, TypeCorrect, PTL DEF Spec

\* The ways a call can end, as far as out, the statistics and the flags go.
LEMMA CallEnds ==
  ASSUME TypeOK, NEW h \in Headers, NEW m \in Messages,
         NEW offset \in 0 .. Size[m] - 1, NEW n \in 0 .. Size[m] - offset,
         process_rdi_datagram(h, m, offset, n)
  PROVE  /\ UNCHANGED <<validate_e2e, e2e_strict>>
         /\ \/ UNCHANGED stats /\ out'.ret # "published"
            \/ \E p \in PayloadOf : /\ consume_e2e_header(p) /\ deliver_rdi_frame(p)
                                    /\ out'.pub = p
<1>1. ASSUME NEW b \in BOOLEAN, NEW p \in PayloadOf, ProcessPayload(b, p)
      PROVE  \/ UNCHANGED stats /\ out'.ret # "published"
             \/ \E q \in PayloadOf : /\ consume_e2e_header(q) /\ deliver_rdi_frame(q)
                                     /\ out'.pub = q
  BY <1>1 DEF ProcessPayload, Out
<1>2. Idle.ret # "published" /\ Out(TRUE, "partial", Nothing).ret # "published"
  BY DEF Idle, Out
<1>3. CASE Ignore(h)
  BY <1>2, <1>3 DEF Ignore, process_rdi_datagram
<1>4. CASE FeedSegment(h, Segment(m, offset, n))
  <2> DEFINE f == Feed(tp, Segment(m, offset, n))
  <2>1. CASE FeedReturns(tp, Segment(m, offset, n))
    <3>1. n \in 1 .. Size[m] - offset
      BY <2>1 DEF FeedReturns, Segment
    <3>2. TpPayload(f) \in PayloadOf
      BY <3>1, FeedFacts, PayloadType DEF TypeOK, TpPayload, Tp
    <3> QED BY <1>1, <1>4, <2>1, <3>2 DEF FeedSegment, process_rdi_datagram
  <2>2. CASE ~FeedReturns(tp, Segment(m, offset, n))
    BY <1>2, <1>4, <2>2 DEF FeedSegment, process_rdi_datagram
  <2> QED BY <2>1, <2>2
<1>5. CASE WholeDatagram(h, Prefix(m, n))
  <2>1. [i \in CellIndex |-> <<m, i>>] \in [CellIndex -> Cell]
    BY DEF Cell
  <2>2. n \in 0 .. MaxCells
    BY SegmentFacts
  <2>3. Prefix(m, n) \in PayloadOf
    BY <2>1, <2>2, PayloadType DEF Prefix
  <2> QED BY <1>1, <1>5, <2>3 DEF WholeDatagram, process_rdi_datagram
<1> QED BY <1>3, <1>4, <1>5 DEF process_rdi_datagram

\* What the buffer holds at each place is what was written there last.
LatestInPlace ==
  \A i \in CellIndex :
    tp.buffer[i] = IF latest[i] = NoMsg THEN Zero ELSE <<latest[i], i>>

\* Neither resets, nor time-outs, nor changes of session touch the buffer.
LEMMA LatestStep == TypeOK /\ LatestInPlace /\ [Next]_vars => LatestInPlace'
<1> SUFFICES ASSUME TypeOK, LatestInPlace, [Next]_vars PROVE LatestInPlace'
  OBVIOUS
<1>0. ASSUME tp'.buffer = tp.buffer, latest' = latest PROVE LatestInPlace'
  BY <1>0 DEF LatestInPlace
<1>1. ASSUME NEW h \in Headers, NEW m \in Messages,
             NEW offset \in 0 .. Size[m] - 1, NEW n \in 0 .. Size[m] - offset,
             process_rdi_datagram(h, m, offset, n)
      PROVE  LatestInPlace'
  <2>1. CASE Ignore(h)
    BY <1>0, <2>1 DEF Ignore
  <2>2. CASE FeedSegment(h, Segment(m, offset, n))
    <3>1. CASE n = 0
      BY <1>0, <2>2, <3>1, FeedEmptyStep
    <3>2. CASE n # 0
      <4>1. FeedEffect(m, offset, n)
        BY <2>2, <3>2, FeedStep
      <4>2. m # NoMsg
        BY TpConstants
      <4> QED BY <4>1, <4>2 DEF FeedEffect, LatestInPlace
    <3> QED BY <3>1, <3>2
  <2>3. CASE WholeDatagram(h, Prefix(m, n))
    BY <1>0, <2>3 DEF WholeDatagram
  <2> QED BY <1>1, <2>1, <2>2, <2>3 DEF process_rdi_datagram
<1>2. ASSUME NEW v \in BOOLEAN, NEW s \in BOOLEAN, SetE2e(v, s)
      PROVE  LatestInPlace'
  BY <1>0, <1>2 DEF SetE2e
<1>3. CASE Tick
  BY <1>0, <1>3 DEF Tick, TypeOK, Tp
<1>4. CASE UNCHANGED vars
  BY <1>0, <1>4 DEF vars
<1> QED BY <1>1, <1>2, <1>3, <1>4 DEF Next

\* A payload that ends with the last cell of m is a message as sent only if it
\* is m, in each of its cells.
LEMMA WholeIsUnique ==
  ASSUME NEW m \in Messages, NEW l \in Messages, NEW p, p = Whole(l),
         p.at[Size[m] - 1] = <<m, Size[m] - 1>>
  PROVE  l = m /\ \A i \in CellIndex : i < Size[m] => p.at[i] = <<m, i>>
<1>1. /\ Size[l] \in 2 .. MaxCells /\ Size[m] \in 2 .. MaxCells /\ MaxCells \in Nat
      /\ Size[m] - 1 \in CellIndex /\ NoMsg # m
  BY TpConstants DEF CellIndex
<1>2. \A i \in CellIndex : p.at[i] = IF i < Size[l] THEN <<l, i>> ELSE Zero
  BY DEF Whole, Prefix, Payload
<1>3. <<m, Size[m] - 1>> = IF Size[m] - 1 < Size[l] THEN <<l, Size[m] - 1>> ELSE Zero
  BY <1>1, <1>2
<1>4. l = m
  BY <1>1, <1>3 DEF Zero
<1> QED BY <1>2, <1>4

\* The call that takes the final segment: the payload handed over is the message
\* exactly if the latest writer of each of its places is the message.
LEMMA FinalPayload ==
  ASSUME TypeOK, LatestInPlace', NEW m \in Messages, NEW f \in Tp,
         f.buffer = tp'.buffer, f.total_size = Size[m],
         tp'.buffer[Size[m] - 1] = <<m, Size[m] - 1>>
  PROVE  /\ (\A i \in CellIndex : i < Size[m] => latest'[i] = m)
              => TpPayload(f) = Whole(m)
         /\ CrcOk(TpPayload(f)) => \A i \in CellIndex : i < Size[m] => latest'[i] = m
<1> DEFINE p == TpPayload(f)
<1>1. m # NoMsg /\ Size[m] \in 2 .. MaxCells /\ MaxCells \in Nat
  BY TpConstants
<1>2. \A i \in CellIndex :
        f.buffer[i] = IF latest'[i] = NoMsg THEN Zero ELSE <<latest'[i], i>>
  BY DEF LatestInPlace
<1>3. ASSUME \A i \in CellIndex : i < Size[m] => latest'[i] = m
      PROVE  p = Whole(m)
  BY <1>1, <1>2, <1>3, CompleteIsWhole
<1>4. ASSUME CrcOk(p), NEW i \in CellIndex, i < Size[m]
      PROVE  latest'[i] = m
  <2>1. PICK l \in Messages : p = Whole(l)
    BY <1>4 DEF CrcOk
  <2>2. \A j \in CellIndex : j < Size[m] => p.at[j] = f.buffer[j]
    BY DEF TpPayload, Payload
  <2>3. p.at[Size[m] - 1] = <<m, Size[m] - 1>>
    BY <1>1, <2>2 DEF CellIndex
  <2>4. p.at[i] = <<m, i>>
    BY <1>4, <2>1, <2>3, WholeIsUnique
  <2>5. <<m, i>> = IF latest'[i] = NoMsg THEN Zero ELSE <<latest'[i], i>>
    BY <1>2, <1>4, <2>2, <2>4
  <2> QED BY <1>1, <2>5 DEF Zero
<1> QED BY <1>3, <1>4

\* With both flags on, the gate lets a payload through exactly if its CRC matches.
LEMMA StrictGate ==
  ASSUME validate_e2e, e2e_strict, NEW b \in BOOLEAN, NEW p, ProcessPayload(b, p),
         ~CrcOk(p)
  PROVE  out'.ret = "dropped"
BY DEF ProcessPayload, consume_e2e_header, Out

\* The step that takes a final segment publishes or drops as it should.
LEMMA StrictStep ==
  TypeOK /\ LatestInPlace /\ [Next]_vars /\ StrictMeansComplete
    => StrictMeansComplete'
<1> SUFFICES ASSUME TypeOK, LatestInPlace, [Next]_vars, StrictMeansComplete
             PROVE  StrictMeansComplete'
  OBVIOUS
<1>0. ASSUME out' = Idle PROVE StrictMeansComplete'
  BY <1>0, NothingType DEF StrictMeansComplete
<1>1. ASSUME NEW h \in Headers, NEW m \in Messages,
             NEW offset \in 0 .. Size[m] - 1, NEW n \in 0 .. Size[m] - offset,
             process_rdi_datagram(h, m, offset, n)
      PROVE  StrictMeansComplete'
  <2>1. CASE Ignore(h)
    BY <1>0, <2>1 DEF Ignore
  <2>2. CASE FeedSegment(h, Segment(m, offset, n))
    <3>1. CASE n = 0
      BY <1>0, <2>2, <3>1, FeedEmptyStep
    <3>2. CASE n # 0
      <4> DEFINE f == Feed(tp, Segment(m, offset, n))
      <4>1. n \in 1 .. Size[m] - offset /\ offset \in Nat /\ Size[m] \in 2 .. MaxCells
        BY <3>2, SegmentFacts
      <4>2. FeedEffect(m, offset, n) /\ LatestInPlace'
        BY <2>2, <4>1, FeedStep, LatestStep
      <4>3. CASE offset + n # Size[m]
        <5>1. ~FeedReturns(tp, Segment(m, offset, n))
          BY <4>1, <4>3, FeedFacts DEF TypeOK
        <5>2. out' \in {Idle, Out(TRUE, "partial", Nothing)}
          BY <2>2, <5>1 DEF FeedSegment
        <5>3. Out(TRUE, "partial", Nothing).ret = "partial"
          BY DEF Out
        <5> QED BY <1>0, <5>2, <5>3 DEF StrictMeansComplete
      <4>4. CASE offset + n = Size[m]
        <5>1. /\ f \in Tp /\ FeedReturns(tp, Segment(m, offset, n))
              /\ f.total_size = Size[m]
          BY <4>1, <4>4, FeedFacts DEF TypeOK
        <5>2. tp' = Reset(f) /\ ProcessPayload(TRUE, TpPayload(f))
          BY <2>2, <5>1 DEF FeedSegment
        <5>3. f.buffer = tp'.buffer /\ run'.msg = m
          BY <4>2, <5>1, <5>2, ResetFacts DEF FeedEffect
        <5>4. tp'.buffer[Size[m] - 1] = <<m, Size[m] - 1>>
          <6>1. Size[m] - 1 \in CellIndex
            BY <4>1, TpConstants DEF CellIndex
          <6>2. offset <= Size[m] - 1 /\ Size[m] - 1 < offset + n
            BY <4>1, <4>4
          <6>3. \A i \in CellIndex : offset <= i /\ i < offset + n
                                    => tp'.buffer[i] = <<m, i>>
            BY <4>2 DEF FeedEffect
          <6> QED BY <6>1, <6>2, <6>3
        <5>5. UNCHANGED <<validate_e2e, e2e_strict>>
          BY <1>1 DEF process_rdi_datagram
        <5>6. CASE \A i \in CellIndex : i < Size[m] => latest'[i] = m
          <6>1. TpPayload(f) = Whole(m)
            BY <4>2, <5>1, <5>3, <5>4, <5>6, FinalPayload
          <6>2. out' = Out(TRUE, "published", Whole(m))
            BY <5>2, <6>1, WholeIsPublished
          <6> QED BY <5>3, <5>6, <6>2 DEF Out, StrictMeansComplete
        <5>7. CASE ~\A i \in CellIndex : i < Size[m] => latest'[i] = m
          <6>1. ~CrcOk(TpPayload(f))
            BY <4>2, <5>1, <5>3, <5>4, <5>7, FinalPayload
          <6>2. validate_e2e /\ e2e_strict => out'.ret = "dropped"
            BY <5>2, <6>1, StrictGate
          <6> QED BY <5>3, <5>5, <5>7, <6>2 DEF StrictMeansComplete
        <5> QED BY <5>6, <5>7
      <4> QED BY <4>3, <4>4
    <3> QED BY <3>1, <3>2
  <2>3. CASE WholeDatagram(h, Prefix(m, n))
    <3>1. \E r \in Returns, p \in {Nothing, Prefix(m, n)} : out' = Out(FALSE, r, p)
      BY <2>3 DEF WholeDatagram, ProcessPayload, Returns
    <3>2. ~out'.is_tp
      BY <3>1 DEF Out
    <3> QED BY <3>2 DEF StrictMeansComplete
  <2> QED BY <1>1, <2>1, <2>2, <2>3 DEF process_rdi_datagram
<1>2. ASSUME NEW v \in BOOLEAN, NEW s \in BOOLEAN, SetE2e(v, s)
      PROVE  StrictMeansComplete'
  BY <1>0, <1>2 DEF SetE2e
<1>3. CASE Tick
  BY <1>0, <1>3 DEF Tick
<1>4. CASE UNCHANGED vars
  BY <1>4 DEF vars, StrictMeansComplete
<1> QED BY <1>1, <1>2, <1>3, <1>4 DEF Next

\* In strict mode the final segment's call publishes its message exactly if the
\* message is complete in the buffer: the latest segment at each of its places
\* was its own.  Neither a hole nor a leftover of any earlier message gets out.
THEOREM StrictMeansCompleteHolds == Spec => []StrictMeansComplete
<1>1. Init => LatestInPlace
  BY DEF Init, LatestInPlace, TpInit
<1>2. Init => StrictMeansComplete
  BY NothingType DEF Init, StrictMeansComplete
<1> QED BY <1>1, <1>2, LatestStep, StrictStep, TypeCorrect, PTL DEF Spec

-----------------------------------------------------------------------------
(* The loss statistics                                                     *)

\* One delivered frame: the sum of the counts grows by the counter's advance.
LEMMA AccountingArithmetic ==
  ASSUME NEW total \in UInt, NEW lost \in UInt, NEW last \in UInt,
         NEW first \in UInt, NEW c \in UInt,
         UAdd(total, lost) = UAdd(USub(last, first), 1)
  PROVE  UAdd(UAdd(total, 1), UAdd(lost, USub(c, UAdd(last, 1))))
           = UAdd(USub(c, first), 1)
BY RdiConstants DEF UAdd, USub, UInt

\* deliver_rdi_frame keeps total_packets_ + lost_packets_ equal, modulo 2^32,
\* to the number of message counters from the first frame to the last.
THEOREM LossAccountingHolds == Spec => []LossAccounting
<1> DEFINE Inv == LossAccounting /\ (first_rdi => total_packets = 0 /\ lost_packets = 0)
<1>1. Init => Inv
  BY DEF Init, LossAccounting
<1>2. TypeOK /\ Inv /\ [Next]_vars => Inv'
  <2> SUFFICES ASSUME TypeOK, Inv, [Next]_vars PROVE Inv'
    OBVIOUS
  <2>0. ASSUME UNCHANGED stats PROVE Inv'
    BY <2>0 DEF LossAccounting, stats
  <2>1. ASSUME NEW h \in Headers, NEW m \in Messages,
               NEW offset \in 0 .. Size[m] - 1, NEW n \in 0 .. Size[m] - offset,
               process_rdi_datagram(h, m, offset, n)
        PROVE  Inv'
    <3>1. ASSUME NEW p \in PayloadOf, deliver_rdi_frame(p)
          PROVE  Inv'
      <4>0. 1 \in CellIndex
        BY SegmentFacts, TpConstants DEF CellIndex
      <4>1. MessageCounter(p) \in UInt
        BY <4>0, CounterType
      <4>2. CASE first_rdi
        BY <3>1, <4>1, <4>2, RdiConstants
           DEF deliver_rdi_frame, LossAccounting, UAdd, USub, UInt
      <4>3. CASE ~first_rdi
        BY <3>1, <4>1, <4>3, AccountingArithmetic
           DEF deliver_rdi_frame, LossAccounting, TypeOK
      <4> QED BY <4>2, <4>3
    <3> QED BY <2>0, <2>1, <3>1, CallEnds
  <2>2. ASSUME NEW v \in BOOLEAN, NEW s \in BOOLEAN, SetE2e(v, s)
        PROVE  Inv'
    BY <2>0, <2>2 DEF SetE2e
  <2>3. CASE Tick
    BY <2>0, <2>3 DEF Tick
  <2>4. CASE UNCHANGED vars
    BY <2>0, <2>4 DEF vars
  <2> QED BY <2>1, <2>2, <2>3, <2>4 DEF Next
<1>3. Inv => LossAccounting
  OBVIOUS
<1> QED BY <1>1, <1>2, <1>3, TypeCorrect, PTL DEF Spec
=============================================================================
