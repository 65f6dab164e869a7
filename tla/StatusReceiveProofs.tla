------------------------- MODULE StatusReceiveProofs -------------------------
(* Proofs about the SHI and SPI receiver threads, for every width of the   *)
(* CRC and of a byte, every set of datagrams and any room for entries.     *)
EXTENDS StatusReceive, SequenceTheorems, TLAPS

-----------------------------------------------------------------------------
(* What a CRC computes is an induction over the data, which no prover here *)
(* can do.  What the proofs need of it is stated here, for the datagrams   *)
(* that the sensor sends.  TLC computes it: were one of these false of its *)
(* instance, IntactPublished, StrictStatusIntact or TypeOK would be, too.  *)

\* The register ends with the remainder that the sensor computed.
CrcOfDefinition == \A d \in Datagrams : e2e_validate(Payload(d)) # "kCrcMismatch"

\* A burst no longer than the CRC is detected.
CrcDetectsBursts ==
  \A d \in Datagrams :
    \A p \in 0 .. B * (Len(Payload(d)) - kE2eOffsetLength) - W, e \in 1 .. 2 ^ W - 1 :
      e2e_validate(Corrupted(Payload(d), p, e)) = "kCrcMismatch"

\* What arrives consists of bytes, and 0 is one: to the provers 2 ^ B is no number.
BytesReceived == 0 \in Byte /\ \A d \in Datagrams : Received(d) \subseteq Seq(Byte)

-----------------------------------------------------------------------------
(* Payloads                                                                *)

\* Where the fields of a payload are, as it is sent.
LEMMA PayloadFacts ==
  ASSUME NEW d \in Datagrams
  PROVE  LET n == kE2eOffsetLength
             P == Payload(d)
         IN  /\ n \in Nat /\ kE2eHeaderSize = n + 3 /\ Len(d.iso) \in Nat
             /\ P = [i \in 1 .. n + 3 + Len(d.iso) |-> P[i]]
             /\ Len(P) = n + 3 + Len(d.iso)
             /\ P[n + 1] = Len(d.iso) /\ P[n + 3] = d.data_id
             /\ From(P, kE2eHeaderSize) = d.iso
<1> DEFINE n == kE2eOffsetLength
           iso == d.iso
           head == <<Len(iso), 0, d.data_id>>
           protected == head \o iso
           crc == pack_be(ReferenceCrc(protected))
           S == {crc[i] : i \in 1 .. n} \cup Byte \cup {Len(iso), 0, d.data_id}
           P == crc \o protected
<1>1. n \in Nat
  BY E2eConstants DEF kE2eOffsetLength
<1>2. iso \in Seq(Byte) /\ Len(iso) \in Nat
  BY StatusConstants
<1>3. crc \in Seq(S) /\ Len(crc) = n
  <2>1. crc = [i \in 1 .. n |-> crc[i]]
    BY DEF pack_be
  <2> HIDE DEF crc, n
  <2>2. \A i \in 1 .. n : crc[i] \in S
    OBVIOUS
  <2> HIDE DEF S
  <2>3. [i \in 1 .. n |-> crc[i]] \in Seq(S) /\ Len([i \in 1 .. n |-> crc[i]]) = n
    BY <1>1, <2>2
  <2> QED BY <2>1, <2>3
<1>4. head \in Seq(S) /\ Len(head) = 3 /\ iso \in Seq(S)
  <2>1. Len(iso) \in S /\ 0 \in S /\ d.data_id \in S /\ Byte \subseteq S
    OBVIOUS
  <2> HIDE DEF S, iso
  <2>2. head \in Seq(S) /\ Len(head) = 3
    BY <2>1
  <2>3. iso \in Seq(S)
    BY <1>2, <2>1, SeqMonotonic
  <2> QED BY <2>2, <2>3
<1> HIDE DEF S
<1>5. /\ protected \in Seq(S) /\ Len(protected) = 3 + Len(iso)
      /\ protected[1] = Len(iso) /\ protected[3] = d.data_id
      /\ \A i \in 1 .. Len(iso) : protected[3 + i] = iso[i]
  <2> DEFINE m == Len(iso)
  <2>1. head[1] = m /\ head[3] = d.data_id
    OBVIOUS
  <2>2. m \in Nat
    BY <1>2
  <2> HIDE DEF head, iso
  <2>3. /\ protected \in Seq(S) /\ Len(protected) = 3 + m
        /\ \A i \in 1 .. 3 + m : protected[i] = IF i <= 3 THEN head[i] ELSE iso[i - 3]
    <3> DEFINE h == Len(head)
    <3>1. /\ protected \in Seq(S) /\ Len(protected) = h + m
          /\ \A i \in 1 .. h + m : protected[i] = IF i <= h THEN head[i] ELSE iso[i - h]
      BY <1>4, ConcatProperties
    <3> HIDE DEF h, protected, m
    <3>2. h = 3
      BY <1>4 DEF h
    <3> QED BY <3>1, <3>2
  <2> HIDE DEF protected, m
  <2>4. \A i \in 1 .. m : protected[3 + i] = iso[i]
    BY <2>2, <2>3
  <2>5. protected[1] = m /\ protected[3] = d.data_id
    BY <2>1, <2>2, <2>3
  <2> QED BY <2>3, <2>4, <2>5 DEF m
<1> HIDE DEF crc, protected, n
<1>6. /\ P \in Seq(S) /\ Len(P) = n + 3 + Len(iso)
      /\ P[n + 1] = Len(iso) /\ P[n + 3] = d.data_id
      /\ \A i \in 1 .. Len(iso) : P[n + 3 + i] = iso[i]
  <2> DEFINE m == Len(iso)
  <2> HIDE DEF iso
  <2>1. m \in Nat
    BY <1>2
  <2>2. /\ P \in Seq(S) /\ Len(P) = n + (3 + m)
        /\ \A i \in 1 .. n + (3 + m) :
             P[i] = IF i <= n THEN crc[i] ELSE protected[i - n]
    <3> DEFINE c == Len(crc)
               r == Len(protected)
    <3>1. crc \in Seq(S) /\ protected \in Seq(S)
      BY <1>3, <1>5
    <3>2. /\ P \in Seq(S) /\ Len(P) = c + r
          /\ \A i \in 1 .. c + r : P[i] = IF i <= c THEN crc[i] ELSE protected[i - c]
      BY <3>1, ConcatProperties
    <3>3. c = n /\ r = 3 + m
      BY <1>3, <1>5
    <3> HIDE DEF c, r, P, m
    <3> QED BY <3>2, <3>3
  <2> HIDE DEF P, m
  <2>3. P[n + 1] = protected[1] /\ P[n + 3] = protected[3]
    BY <1>1, <2>1, <2>2
  <2>4. \A i \in 1 .. m : P[n + 3 + i] = protected[3 + i]
    BY <1>1, <2>1, <2>2
  <2>5. Len(P) = n + 3 + m
    BY <1>1, <2>1, <2>2
  <2> QED BY <1>5, <2>2, <2>3, <2>4, <2>5 DEF m
<1>7. Payload(d) = P
  BY DEF Payload, P, crc, protected
<1> HIDE DEF P, iso
<1>8. P = [i \in 1 .. n + 3 + Len(iso) |-> P[i]]
  BY <1>6, LenProperties
<1>9. SubSeq(P, n + 4, Len(P)) = iso
  <2> DEFINE T == SubSeq(P, n + 4, Len(P))
             m == Len(iso)
  <2>1. m \in Nat /\ Len(P) = n + 3 + m
    BY <1>2, <1>6
  <2>2. \A i \in n + 4 .. Len(P) : P[i] \in S
    BY <1>1, <1>6, <2>1
  <2>3. n + 4 \in Int /\ Len(P) \in Int
    BY <1>1, <2>1
  <2>4. /\ T \in Seq(S) /\ Len(T) = (IF n + 4 <= Len(P) THEN Len(P) - (n + 4) + 1 ELSE 0)
        /\ \A i \in 1 .. Len(P) - (n + 4) + 1 : T[i] = P[n + 4 + i - 1]
    BY <2>2, <2>3, SubSeqProperties
  <2> HIDE DEF T, m
  <2>5. Len(T) = m
    BY <1>1, <2>1, <2>4
  <2>6. ASSUME NEW i \in 1 .. m PROVE T[i] = iso[i]
    <3>1. n + 4 + i - 1 = n + 3 + i /\ i \in 1 .. Len(P) - (n + 4) + 1
      BY <1>1, <2>1
    <3> QED BY <1>6, <2>4, <3>1 DEF m
  <2>7. T = iso
    BY <1>4, <2>4, <2>5, <2>6, SeqEqual DEF m
  <2> QED BY <2>7 DEF T
<1>10. kE2eHeaderSize = n + 3 /\ (n + 3) + 1 = n + 4
  BY <1>1 DEF kE2eHeaderSize, n
<1> QED BY <1>1, <1>2, <1>6, <1>7, <1>8, <1>9, <1>10 DEF n, iso, From

-----------------------------------------------------------------------------
(* The gate                                                                *)

\* What the handler makes of a datagram, one disjunct per way through it.
LEMMA Outcomes ==
  ASSUME NEW d, NEW buf, process_datagram(d, buf)
  PROVE  LET iso == From(buf, kE2eHeaderSize)
         IN  /\ UNCHANGED <<stream, validate_e2e, e2e_strict>>
             /\ out'.of = d /\ out'.buf = buf
             /\ \/ /\ out'.ret = "published" /\ out'.pub = Published(iso)
                   /\ out'.warned = Warns(~first /\ ~Follows(last_counter, iso[1]))
                   /\ since_warning' = IF out'.warned THEN 0 ELSE since_warning
                   /\ AcceptsHeader(d) /\ consume_e2e_header(buf) /\ ParseOk(iso)
                   /\ first' = FALSE /\ last_counter' = iso[1]
                   /\ shown' = iso[1] /\ before' = shown
                \/ /\ out'.ret \in {"ignored", "dropped", "parse_failed"}
                   /\ out'.pub = NoMessage /\ out'.warned = FALSE
                   /\ ~(AcceptsHeader(d) /\ consume_e2e_header(buf) /\ ParseOk(iso))
                   /\ UNCHANGED <<first, last_counter, since_warning, shown, before>>
<1> DEFINE iso == From(buf, kE2eHeaderSize)
           pub == Published(iso)
           warned == Warns(~first /\ ~Follows(last_counter, iso[1]))
<1>1. UNCHANGED <<stream, validate_e2e, e2e_strict>>
  BY DEF process_datagram
<1>2. CASE Publish(d, buf, iso) /\ AcceptsHeader(d) /\ consume_e2e_header(buf) /\ ParseOk(iso)
  <2>1. /\ out' = Out("published", d, buf, pub, warned)
        /\ since_warning' = IF warned THEN 0 ELSE since_warning
        /\ first' = FALSE /\ last_counter' = iso[1] /\ shown' = iso[1] /\ before' = shown
    BY <1>2 DEF Publish, Counter
  <2>2. /\ out'.of = d /\ out'.buf = buf /\ out'.ret = "published" /\ out'.pub = pub
        /\ out'.warned = warned
    <3> HIDE DEF pub, warned
    <3> QED BY <2>1 DEF Out
  <2> QED BY <1>1, <1>2, <2>1, <2>2
<1>3. CASE /\ \E ret \in {"ignored", "dropped", "parse_failed"} : NoPublish(ret, d, buf)
           /\ ~(AcceptsHeader(d) /\ consume_e2e_header(buf) /\ ParseOk(iso))
  <2>1. PICK ret \in {"ignored", "dropped", "parse_failed"} : NoPublish(ret, d, buf)
    BY <1>3
  <2>2. /\ out' = Out(ret, d, buf, NoMessage, FALSE)
        /\ UNCHANGED <<first, last_counter, since_warning, shown, before>>
    BY <2>1 DEF NoPublish
  <2>3. /\ out'.of = d /\ out'.buf = buf /\ out'.ret = ret /\ out'.pub = NoMessage
        /\ out'.warned = FALSE
    BY <2>2 DEF Out
  <2> QED BY <1>1, <1>3, <2>2, <2>3
<1> QED BY <1>2, <1>3 DEF process_datagram

\* In strict mode a payload that was cut short or damaged, or is the other
\* stream's, does not pass: its length, its CRC or its id is wrong.
LEMMA StrictGate ==
  ASSUME CrcDetectsBursts, NEW d \in Datagrams, NEW buf \in Received(d),
         AcceptsHeader(d), validate_e2e, e2e_strict, consume_e2e_header(buf)
  PROVE  IsOfStream(d) /\ buf = Payload(d)
<1> DEFINE n == kE2eOffsetLength
           P == Payload(d)
           m == Len(d.iso)
<1>1. /\ n \in Nat /\ kE2eHeaderSize = n + 3 /\ m \in Nat /\ Len(P) = n + 3 + m
      /\ P = [i \in 1 .. n + 3 + m |-> P[i]] /\ P[n + 1] = m /\ P[n + 3] = d.data_id
  BY PayloadFacts
<1>2. /\ Len(buf) >= kE2eHeaderSize /\ e2e_validate(buf) # "kCrcMismatch"
      /\ buf[n + 1] = Len(buf) - kE2eHeaderSize
      /\ buf[n + 3] = DataId[stream]
  <2>1. Len(buf) >= kE2eHeaderSize /\ e2e_validate(buf) # "kCrcMismatch" /\ MetadataOk(buf)
    BY DEF consume_e2e_header
  <2>2. n + 2 + 1 = n + 3
    BY <1>1
  <2> QED BY <2>1, <2>2 DEF MetadataOk, e2e_parse, At
<1> HIDE DEF P, m, n
<1>3. CASE buf = P
  <2>1. d.data_id = DataId[stream]
    BY <1>1, <1>2, <1>3
  <2> QED BY <1>3, <2>1 DEF IsOfStream, AcceptsHeader, P
<1>4. CASE \E k \in 0 .. Len(P) - 1 : buf = SubSeq(P, 1, k)
  <2>1. PICK k \in 0 .. Len(P) - 1 : buf = SubSeq(P, 1, k)
    BY <1>4
  <2>2. k \in Nat /\ k < n + 3 + m
    BY <1>1, <2>1
  <2>3. Len(buf) = k /\ \A i \in 1 .. k : buf[i] = P[i]
    <3> DEFINE S == {P[i] : i \in 1 .. k}
    <3>1. \A i \in 1 .. k : P[i] \in S
      OBVIOUS
    <3> HIDE DEF S
    <3>2. 1 \in Int /\ k \in Int
      BY <2>2
    <3>3. /\ Len(SubSeq(P, 1, k)) = (IF 1 <= k THEN k - 1 + 1 ELSE 0)
          /\ \A i \in 1 .. k - 1 + 1 : SubSeq(P, 1, k)[i] = P[1 + i - 1]
      BY <3>1, <3>2, SubSeqProperties
    <3>4. k - 1 + 1 = k /\ (IF 1 <= k THEN k - 1 + 1 ELSE 0) = k
          /\ \A i \in 1 .. k : 1 + i - 1 = i
      BY <2>2
    <3> QED BY <2>1, <3>3, <3>4
  <2>4. k >= n + 3 /\ n + 1 \in 1 .. k
    BY <1>1, <1>2, <2>2, <2>3
  <2>5. m = k - (n + 3)
    BY <1>1, <1>2, <2>3, <2>4
  <2> QED BY <1>1, <2>2, <2>4, <2>5
<1>5. CASE \E p \in 0 .. B * (Len(P) - n) - W, e \in 1 .. 2 ^ W - 1 : buf = Corrupted(P, p, e)
  BY <1>2, <1>5 DEF CrcDetectsBursts, P, n
<1> QED BY <1>3, <1>4, <1>5 DEF Received, P, n

\* A payload as the sensor sent it passes, whatever the flags are.
LEMMA IntactGate ==
  ASSUME CrcOfDefinition, NEW d \in Datagrams, IsOfStream(d), stream \in {"shi", "spi"}
  PROVE  /\ AcceptsHeader(d) /\ consume_e2e_header(Payload(d))
         /\ ParseOk(From(Payload(d), kE2eHeaderSize))
         /\ Shows(Published(From(Payload(d), kE2eHeaderSize)), d.iso)
<1> DEFINE n == kE2eOffsetLength
           P == Payload(d)
           iso == d.iso
           m == Len(iso)
<1>1. /\ n \in Nat /\ kE2eHeaderSize = n + 3 /\ m \in Nat /\ Len(P) = n + 3 + m
      /\ P[n + 1] = m /\ P[n + 3] = d.data_id /\ From(P, kE2eHeaderSize) = iso
  BY PayloadFacts
<1>2. WellFormed(iso, stream)
  BY SensorConstants DEF IsOfStream
<1>3. e2e_validate(P) # "kCrcMismatch"
  BY DEF CrcOfDefinition
<1>4. iso \in Seq(Byte) /\ MaxEntries \in Nat
  BY StatusConstants
<1> HIDE DEF P, iso, n
<1>5. consume_e2e_header(P)
  <2>1. Len(P) >= kE2eHeaderSize /\ P[n + 1] = Len(P) - kE2eHeaderSize
    BY <1>1
  <2>2. n + 2 + 1 = n + 3
    BY <1>1
  <2>3. MetadataOk(P)
    BY <1>1, <2>1, <2>2 DEF MetadataOk, e2e_parse, At, IsOfStream, n
  <2> QED BY <1>3, <2>1, <2>3 DEF consume_e2e_header
<1>6. Declared(iso) \in Nat
  <2>1. CASE m >= 2
    <3>1. 2 \in 1 .. m
      BY <1>1, <2>1
    <3>2. iso[2] \in Byte
      BY <1>4, <3>1
    <3> QED BY <2>1, <3>2 DEF Declared, Counted, Byte
  <2>2. CASE ~(m >= 2)
    BY <2>2 DEF Declared, Counted
  <2> QED BY <2>1, <2>2
<1>7. ParseOk(iso)
  BY <1>1, <1>2 DEF ParseOk, WellFormed, Counted, Declared
<1>8. Shows(Published(iso), iso)
  <2> DEFINE e == Entries(iso)
             slots == IF stream = "shi" THEN MaxEntries ELSE e
             pub == Published(iso)
  <2>1. e \in Nat /\ e <= MaxEntries /\ e <= Declared(iso) /\ e \in {Declared(iso), MaxEntries}
    BY <1>4, <1>6 DEF Entries
  <2> HIDE DEF e
  <2>2. slots \in Nat /\ e <= slots
    BY <1>4, <2>1
  <2> HIDE DEF slots
  <2>3. /\ pub.counter = iso[1] /\ pub.num = e
        /\ pub.entries = [k \in 1 .. slots |-> IF k <= e THEN iso[2 + k] ELSE 0]
    BY DEF Published, slots, e
  <2> HIDE DEF pub
  <2>4. Len(pub.entries) = slots /\ DOMAIN pub.entries = 1 .. slots
    BY <2>2, <2>3
  <2>5. \A k \in DOMAIN pub.entries :
          pub.entries[k] = IF k <= pub.num THEN iso[2 + k] ELSE 0
    BY <2>3, <2>4
  <2>6. IF m >= 2 THEN pub.num \in {iso[2], MaxEntries} /\ pub.num <= iso[2]
                  ELSE pub.num = 0
    <3>1. CASE m >= 2
      BY <2>1, <2>3, <3>1 DEF Declared, Counted
    <3>2. CASE ~(m >= 2)
      <4>1. Declared(iso) = 0
        BY <3>2 DEF Declared, Counted
      <4> QED BY <2>1, <2>3, <3>2, <4>1
    <3> QED BY <3>1, <3>2
  <2>7. pub.num <= Len(pub.entries)
    BY <2>2, <2>3, <2>4
  <2> QED BY <2>3, <2>5, <2>6, <2>7 DEF Shows, pub
<1> QED BY <1>1, <1>5, <1>7, <1>8 DEF AcceptsHeader, IsOfStream, P, iso

-----------------------------------------------------------------------------
(* The theorems                                                            *)

\* The driver's counter is that of the message published last.
CounterInv ==
  /\ since_warning \in Nat
  /\ first => shown = NoCounter
  /\ ~first => shown = last_counter
  /\ out = Idle => before = NoCounter
  /\ GapsReported

\* Only gaps are reported, and each one unless another was less than 5 s before,
\* whatever else the thread received.
THEOREM GapsAreReported == Spec => []GapsReported
<1>1. Init => CounterInv
  BY StatusConstants DEF Init, CounterInv, GapsReported
<1>2. CounterInv /\ [Next]_vars => CounterInv'
  <2> SUFFICES ASSUME CounterInv, [Next]_vars PROVE CounterInv'
    OBVIOUS
  <2>1. ASSUME NEW d \in Datagrams, NEW buf \in Received(d), process_datagram(d, buf)
        PROVE  CounterInv'
    <3> DEFINE iso == From(buf, kE2eHeaderSize)
    <3>1. \/ /\ out'.ret = "published"
             /\ out'.warned = Warns(~first /\ ~Follows(last_counter, iso[1]))
             /\ since_warning' = IF out'.warned THEN 0 ELSE since_warning
             /\ first' = FALSE /\ last_counter' = iso[1]
             /\ shown' = iso[1] /\ before' = shown
          \/ /\ out'.ret \in {"ignored", "dropped", "parse_failed"}
             /\ UNCHANGED <<first, last_counter, since_warning, shown, before>>
      BY <2>1, Outcomes
    <3>2. out' # Idle
      <4>1. Idle.ret = "idle"
        BY DEF Idle
      <4> QED BY <3>1, <4>1
    <3> HIDE DEF iso
    <3>3. (first => shown = NoCounter)' /\ (~first => shown = last_counter)'
      BY <3>1 DEF CounterInv
    <3>4. ASSUME out'.ret = "published", before' # NoCounter
          PROVE  /\ out'.warned => ~Follows(before', shown')
                 /\ ~Follows(before', shown') => out'.warned \/ since_warning' < Throttle
      <4>1. /\ out'.warned = Warns(~first /\ ~Follows(last_counter, iso[1]))
            /\ since_warning' = IF out'.warned THEN 0 ELSE since_warning
        BY <3>1, <3>4
      <4>2. ~first /\ before' = last_counter /\ shown' = iso[1]
        BY <3>1, <3>4 DEF CounterInv
      <4>3. since_warning \in Nat /\ Throttle \in Nat
        BY StatusConstants DEF CounterInv
      <4>4. CASE out'.warned
        BY <4>1, <4>2, <4>4 DEF Warns
      <4>5. CASE ~out'.warned
        <5>1. since_warning' = since_warning
          BY <4>1, <4>5
        <5>2. ASSUME ~Follows(before', shown') PROVE since_warning < Throttle
          <6>1. ~(since_warning >= Throttle)
            BY <4>1, <4>2, <4>5, <5>2 DEF Warns
          <6> QED BY <4>3, <6>1
        <5> QED BY <4>5, <5>1, <5>2
      <4> QED BY <4>4, <4>5
    <3>5. since_warning' \in Nat
      BY <3>1 DEF CounterInv
    <3> QED BY <3>2, <3>3, <3>4, <3>5 DEF CounterInv, GapsReported
  <2>2. CASE Return
    BY <2>2 DEF Return, CounterInv, GapsReported
  <2>3. ASSUME NEW v \in BOOLEAN, NEW s \in BOOLEAN, SetE2e(v, s) PROVE CounterInv'
    BY <2>3 DEF SetE2e, CounterInv, GapsReported
  <2>4. CASE Tick
    BY <2>4 DEF Tick, CounterInv, GapsReported
  <2>5. CASE UNCHANGED vars
    BY <2>5 DEF vars, CounterInv, GapsReported
  <2> QED BY <2>1, <2>2, <2>3, <2>4, <2>5 DEF Next
<1>3. CounterInv => GapsReported
  BY DEF CounterInv
<1> QED BY <1>1, <1>2, <1>3, PTL DEF Spec

\* With a CRC that detects bursts up to its width, strict mode publishes only
\* what the sensor sent on the stream, whenever the flags are changed.
THEOREM StrictPublishesWhatWasSent == CrcDetectsBursts => (Spec => []StrictStatusIntact)
<1> SUFFICES ASSUME CrcDetectsBursts PROVE Spec => []StrictStatusIntact
  OBVIOUS
<1>1. Init => StrictStatusIntact
  BY DEF Init, StrictStatusIntact
<1>2. StrictStatusIntact /\ [Next]_vars => StrictStatusIntact'
  <2> SUFFICES ASSUME StrictStatusIntact, [Next]_vars PROVE StrictStatusIntact'
    OBVIOUS
  <2>1. ASSUME NEW d \in Datagrams, NEW buf \in Received(d), process_datagram(d, buf)
        PROVE  StrictStatusIntact'
    <3> SUFFICES ASSUME validate_e2e, e2e_strict, out'.ret = "published"
                 PROVE  (IsOfStream(out.of) /\ out.buf = Payload(out.of))'
      BY <2>1 DEF StrictStatusIntact, process_datagram
    <3>1. out'.of = d /\ out'.buf = buf /\ AcceptsHeader(d) /\ consume_e2e_header(buf)
          /\ stream' = stream
      <4>1. out'.ret \notin {"ignored", "dropped", "parse_failed"}
        OBVIOUS
      <4> QED BY <2>1, <4>1, Outcomes, Zenon
    <3>2. IsOfStream(d) /\ buf = Payload(d)
      BY <3>1, StrictGate
    <3> QED BY <3>1, <3>2 DEF IsOfStream
  <2>2. CASE Return
    BY <2>2 DEF Return, StrictStatusIntact
  <2>3. ASSUME NEW v \in BOOLEAN, NEW s \in BOOLEAN, SetE2e(v, s) PROVE StrictStatusIntact'
    BY <2>3 DEF SetE2e, StrictStatusIntact
  <2>4. CASE Tick
    BY <2>4 DEF Tick, StrictStatusIntact
  <2>5. CASE UNCHANGED vars
    BY <2>5 DEF vars, StrictStatusIntact, IsOfStream
  <2> QED BY <2>1, <2>2, <2>3, <2>4, <2>5 DEF Next
<1> QED BY <1>1, <1>2, PTL DEF Spec

\* With a register that ends with the sensor's remainder, every message of the
\* stream that arrives as it was sent is published, with its content.
THEOREM IntactIsPublished == CrcOfDefinition => (Spec => []IntactPublished)
<1> DEFINE Inv == stream \in {"shi", "spi"} /\ IntactPublished
<1> SUFFICES ASSUME CrcOfDefinition PROVE Spec => []IntactPublished
  OBVIOUS
<1>1. Init => Inv
  BY DEF Init, IntactPublished
<1>2. Inv /\ [Next]_vars => Inv'
  <2> SUFFICES ASSUME Inv, [Next]_vars PROVE Inv'
    OBVIOUS
  <2>1. ASSUME NEW d \in Datagrams, NEW buf \in Received(d), process_datagram(d, buf)
        PROVE  Inv'
    <3>1. out'.of = d /\ out'.buf = buf /\ stream' = stream
      BY <2>1, Outcomes
    <3>2. ASSUME IsOfStream(d), buf = Payload(d)
          PROVE  out'.ret = "published" /\ Shows(out'.pub, d.iso)
      <4>1. /\ AcceptsHeader(d) /\ consume_e2e_header(buf)
            /\ ParseOk(From(buf, kE2eHeaderSize))
            /\ Shows(Published(From(buf, kE2eHeaderSize)), d.iso)
        BY <3>2, IntactGate
      <4>2. out'.ret = "published" /\ out'.pub = Published(From(buf, kE2eHeaderSize))
        BY <2>1, <4>1, Outcomes
      <4> QED BY <4>1, <4>2
    <3>3. IsOfStream(out.of)' => IsOfStream(d)
      BY <3>1 DEF IsOfStream
    <3>4. IntactPublished'
      <4> SUFFICES ASSUME (IsOfStream(out.of) /\ out.buf = Payload(out.of))'
                   PROVE  (out.ret = "published" /\ Shows(out.pub, out.of.iso))'
        BY DEF IntactPublished
      <4> QED BY <3>1, <3>2, <3>3
    <3> QED BY <3>1, <3>4
  <2>2. CASE Return
    BY <2>2 DEF Return, IntactPublished
  <2>3. ASSUME NEW v \in BOOLEAN, NEW s \in BOOLEAN, SetE2e(v, s) PROVE Inv'
    BY <2>3 DEF SetE2e, IntactPublished
  <2>4. CASE Tick
    BY <2>4 DEF Tick, IntactPublished
  <2>5. CASE UNCHANGED vars
    BY <2>5 DEF vars, IntactPublished, IsOfStream
  <2> QED BY <2>1, <2>2, <2>3, <2>4, <2>5 DEF Next
<1>3. Inv => IntactPublished
  OBVIOUS
<1> QED BY <1>1, <1>2, <1>3, PTL DEF Spec

\* Type correctness, as long as what arrives consists of bytes: no published
\* array is larger than the message has room for.
THEOREM StatusTypes == BytesReceived => (Spec => []TypeOK)
<1> SUFFICES ASSUME BytesReceived PROVE Spec => []TypeOK
  OBVIOUS
<1>1. Init => TypeOK
  BY StatusConstants DEF Init, TypeOK, BytesReceived
<1>2. TypeOK /\ [Next]_vars => TypeOK'
  <2> SUFFICES ASSUME TypeOK, [Next]_vars PROVE TypeOK'
    OBVIOUS
  <2>1. ASSUME NEW d \in Datagrams, NEW buf \in Received(d), process_datagram(d, buf)
        PROVE  TypeOK'
    <3> DEFINE iso == From(buf, kE2eHeaderSize)
    <3>1. /\ buf \in Seq(Byte) /\ 0 \in Byte /\ MaxEntries \in Nat
          /\ kE2eHeaderSize \in Nat
      BY PayloadFacts, StatusConstants DEF BytesReceived
    <3>2. iso \in Seq(Byte)
      BY <3>1 DEF From
    <3>3. /\ UNCHANGED <<stream, validate_e2e, e2e_strict>> /\ out'.buf = buf
          /\ \/ /\ out'.ret = "published" /\ out'.pub = Published(iso)
                /\ out'.warned = Warns(~first /\ ~Follows(last_counter, iso[1]))
                /\ since_warning' = IF out'.warned THEN 0 ELSE since_warning
                /\ AcceptsHeader(d) /\ consume_e2e_header(buf) /\ ParseOk(iso)
                /\ first' = FALSE /\ last_counter' = iso[1]
                /\ shown' = iso[1] /\ before' = shown
             \/ /\ out'.ret \in {"ignored", "dropped", "parse_failed"}
                /\ out'.pub = NoMessage /\ out'.warned = FALSE
                /\ ~(AcceptsHeader(d) /\ consume_e2e_header(buf) /\ ParseOk(iso))
                /\ UNCHANGED <<first, last_counter, since_warning, shown, before>>
      BY <2>1, Outcomes
    <3> HIDE DEF iso
    <3>4. CASE out'.ret = "published" /\ out'.pub = Published(iso) /\ ParseOk(iso)
      <4> DEFINE e == Entries(iso)
                 slots == IF stream = "shi" THEN MaxEntries ELSE e
                 pub == Published(iso)
                 m == Len(iso)
      <4>1. m \in Nat /\ m >= 1 /\ iso[1] \in Byte
        BY <3>2, <3>4 DEF ParseOk, Counted
      <4>2. Declared(iso) \in Nat /\ (Declared(iso) > 0 => 2 + Declared(iso) <= m)
        <5>1. CASE m >= 2
          <6>1. 2 \in 1 .. m
            BY <4>1, <5>1
          <6>2. iso[2] \in Byte
            BY <3>2, <6>1
          <6> QED BY <3>4, <5>1, <6>2 DEF ParseOk, Declared, Counted, Byte
        <5>2. CASE ~(m >= 2)
          BY <5>2 DEF Declared, Counted
        <5> QED BY <5>1, <5>2
      <4>3. e \in Nat /\ e <= MaxEntries /\ e <= Declared(iso)
        BY <3>1, <4>2 DEF Entries
      <4> HIDE DEF e
      <4>4. slots \in Nat /\ slots <= MaxEntries
        BY <3>1, <4>3
      <4>5. \A k \in 1 .. slots : k <= e => iso[2 + k] \in Byte
        <5> SUFFICES ASSUME NEW k \in 1 .. slots, k <= e PROVE iso[2 + k] \in Byte
          OBVIOUS
        <5>1. 2 + k \in 1 .. m
          BY <4>1, <4>2, <4>3, <4>4
        <5> QED BY <3>2, <5>1
      <4> HIDE DEF slots
      <4>6. /\ pub.counter = iso[1] /\ pub.num = e
            /\ pub.entries = [k \in 1 .. slots |-> IF k <= e THEN iso[2 + k] ELSE 0]
        BY DEF Published, slots, e
      <4> HIDE DEF pub, m
      <4>7. pub.counter \in Byte /\ pub.num \in 0 .. MaxEntries
        BY <3>1, <4>1, <4>3, <4>6
      <4>8. \A k \in DOMAIN pub.entries : k <= MaxEntries /\ pub.entries[k] \in Byte
        BY <3>1, <4>3, <4>4, <4>5, <4>6
      <4>9. out'.pub = pub /\ out'.ret = "published"
        BY <3>4 DEF pub
      <4>10. out'.warned \in BOOLEAN /\ first' \in BOOLEAN /\ last_counter' \in Byte
             /\ shown' \in Byte \cup {NoCounter} /\ before' \in Byte \cup {NoCounter}
        BY <3>3, <4>1, <4>9 DEF TypeOK, Warns
      <4>12. since_warning' \in 0 .. Throttle
        BY <3>3, <4>9, StatusConstants DEF TypeOK
      <4>11. out'.buf \in Seq(Byte)
        BY <3>1, <3>3
      <4> QED BY <3>3, <4>7, <4>8, <4>9, <4>10, <4>11, <4>12 DEF TypeOK
    <3>5. CASE /\ out'.ret \in {"ignored", "dropped", "parse_failed"} /\ out'.pub = NoMessage
               /\ out'.warned = FALSE
               /\ UNCHANGED <<first, last_counter, since_warning, shown, before>>
      <4>1. out'.pub.counter \in Byte /\ out'.pub.num \in 0 .. MaxEntries
        BY <3>1, <3>5 DEF NoMessage
      <4>2. \A k \in DOMAIN out'.pub.entries :
              k <= MaxEntries /\ out'.pub.entries[k] \in Byte
        BY <3>5 DEF NoMessage
      <4>3. out'.buf \in Seq(Byte) /\ out'.warned \in BOOLEAN
        BY <3>1, <3>3, <3>5
      <4> QED BY <3>3, <3>5, <4>1, <4>2, <4>3 DEF TypeOK
    <3> QED BY <3>3, <3>4, <3>5
  <2>2. CASE Return
    BY <2>2 DEF Return, TypeOK
  <2>3. ASSUME NEW v \in BOOLEAN, NEW s \in BOOLEAN, SetE2e(v, s) PROVE TypeOK'
    BY <2>3 DEF SetE2e, TypeOK
  <2>4. CASE Tick
    BY <2>4, StatusConstants DEF Tick, TypeOK
  <2>5. CASE UNCHANGED vars
    BY <2>5 DEF vars, TypeOK
  <2> QED BY <2>1, <2>2, <2>3, <2>4, <2>5 DEF Next
<1> QED BY <1>1, <1>2, PTL DEF Spec
=============================================================================
