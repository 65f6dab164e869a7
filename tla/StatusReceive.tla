--------------------------- MODULE StatusReceive ----------------------------
(***************************************************************************)
(* The SHI and SPI receiver threads once a datagram is in their buffer:    *)
(* process_shi_datagram and process_spi_datagram, the E2E gate with the    *)
(* CRC of E2e, Parse, and on_shi_message and on_spi_message with the gap   *)
(* detection.  The threads share nothing but the two E2E flags; a          *)
(* behaviour follows one of them.                                          *)
(*                                                                         *)
(* A payload has one message_counter and one array, which stands for the   *)
(* three that either message has; their lengths are the subject of         *)
(* PayloadParsers.  The transform that on_spi_message also sends repeats   *)
(* the message's pose; its frame id is a subject of ParamUpdate.           *)
(*                                                                         *)
(* Datagrams are lost, repeated and reordered, and one that arrives may    *)
(* have been cut, as recv does with what its buffer does not hold, or be   *)
(* corrupted by a burst no longer than the CRC.                            *)
(*                                                                         *)
(* A gap is reported by RCLCPP_WARN_THROTTLE: not more than once in 5 s at *)
(* its place in the code, of which each thread has its own.                *)
(***************************************************************************)
EXTENDS E2e

CONSTANTS
  Datagrams,   \* what the sensor sends: [valid, method, data_id, iso]
  DataId,      \* DataId[stream]: kE2eDataIdShii, kE2eDataIdSpi
  MaxEntries,  \* entries the message has room for
  Throttle     \* the 5000 ms between two warnings, in clock ticks

ASSUME StatusConstants ==
  /\ \A d \in Datagrams : d.valid \in BOOLEAN /\ d.data_id \in Byte /\ d.iso \in Seq(Byte)
  /\ DataId \in [{"shi", "spi"} -> Byte]
  /\ MaxEntries \in Nat
  /\ Throttle \in Nat \ {0}

\* The parts that the sensor's messages have: a counter, and an array of the
\* length its count byte says, which SPI can do without.
WellFormed(iso, s) ==
  /\ Len(iso) >= (IF s = "shi" THEN 2 ELSE 1)
  /\ Len(iso) >= 2 => 2 + iso[2] <= Len(iso)

ASSUME SensorConstants ==
  /\ \A d \in Datagrams : Len(d.iso) \in Byte
  /\ \A d \in Datagrams, s \in {"shi", "spi"} :
       d.valid /\ d.method = s /\ d.data_id = DataId[s] => WellFormed(d.iso, s)

VARIABLES
  stream,            \* the thread: "shi" or "spi"
  validate_e2e, e2e_strict,
  first, last_counter,   \* first_shi_, last_shi_counter_, or those of SPI
  since_warning,     \* time since the warning of a gap was last logged, up
                     \* to Throttle, which also stands for never
  out,               \* what the last call of the handler did, and its input
  shown, before      \* history: the counters of the message published last
                     \* and of the one before it, or NoCounter

vars == <<stream, validate_e2e, e2e_strict, first, last_counter, since_warning,
          out, shown, before>>

NoCounter == -1
NoMessage == [counter |-> 0, num |-> 0, entries |-> <<>>]
Idle      == [ret |-> "idle"]

Out(ret, d, buf, pub, warned) ==
  [ret |-> ret, of |-> d, buf |-> buf, pub |-> pub, warned |-> warned]

Init ==
  /\ stream \in {"shi", "spi"}
  /\ validate_e2e \in BOOLEAN /\ e2e_strict \in BOOLEAN
  /\ first = TRUE /\ last_counter = 0 /\ since_warning = Throttle
  /\ out = Idle /\ shown = NoCounter /\ before = NoCounter

-----------------------------------------------------------------------------
(* The sensor and the network                                              *)

pack_be(n) == [i \in 1 .. kE2eOffsetLength |->
                (n \div 2 ^ (B * (kE2eOffsetLength - i))) % 2 ^ B]

\* The payload as the sensor sends it; the E2E counter is read for the log
\* only.
Payload(d) ==
  LET protected == <<Len(d.iso), 0, d.data_id>> \o d.iso
  IN  pack_be(ReferenceCrc(protected)) \o protected

\* The bits of pattern are flipped, from bit p of the protected part on.
Corrupted(buf, p, pattern) ==
  LET mask(i) == ((pattern * 2 ^ p) \div 2 ^ (B * (i - 1))) % 2 ^ B
  IN  [j \in DOMAIN buf |-> IF j <= kE2eOffsetLength THEN buf[j]
                            ELSE Xor[buf[j], mask(j - kE2eOffsetLength)]]

Received(d) ==
  LET buf  == Payload(d)
      bits == B * (Len(buf) - kE2eOffsetLength)
  IN  {buf} \cup {SubSeq(buf, 1, k) : k \in 0 .. Len(buf) - 1}
            \cup {Corrupted(buf, p, e) : p \in 0 .. bits - W, e \in 1 .. 2 ^ W - 1}

-----------------------------------------------------------------------------
(* process_shi_datagram and process_spi_datagram                           *)

MetadataOk(buf) ==
  /\ e2e_parse(buf).length = Len(buf) - kE2eHeaderSize
  /\ e2e_parse(buf).data_id = DataId[stream]

\* Mutant of consume_e2e_header: a CRC mismatch is only ever logged.
consume_logging_crc(buf) ==
  Len(buf) >= kE2eHeaderSize /\ (~MetadataOk(buf) => ~e2e_strict)

consume_e2e_header(buf) ==
  /\ Len(buf) >= kE2eHeaderSize
  /\ validate_e2e /\ e2e_validate(buf) = "kCrcMismatch" => ~e2e_strict
  /\ ~MetadataOk(buf) => ~e2e_strict

\* message_counter and the array's count byte, of which SPI can do without.
Counted(iso) == Len(iso) >= 2
Declared(iso) == IF Counted(iso) THEN iso[2] ELSE 0

ParseOk(iso) ==
  /\ IF stream = "shi" THEN Counted(iso) ELSE Len(iso) >= 1
  /\ Counted(iso) => 2 + Declared(iso) <= Len(iso)

\* Mutant of Entries: the declared count is taken.
EntriesDeclared(iso) == Declared(iso)

\* num_valid_... and num_...
Entries(iso) == IF Declared(iso) <= MaxEntries THEN Declared(iso) ELSE MaxEntries

\* on_shi_message publishes every slot there is, those that Parse left 0 too;
\* on_spi_message resizes its arrays to the count.
Published(iso) ==
  LET n == Entries(iso)
  IN  [counter |-> iso[1], num |-> n,
       entries |-> [k \in 1 .. (IF stream = "shi" THEN MaxEntries ELSE n) |->
                     IF k <= n THEN iso[2 + k] ELSE 0]]

Follows(c, d) == d = (c + 1) % 2 ^ B

\* Mutant of Counter: only the first message's counter is kept.
CounterOfFirst(gap, c) == last_counter' = IF first THEN c ELSE last_counter

Counter(gap, c) == last_counter' = c

\* RCLCPP_WARN_THROTTLE, called when there is a gap.
Warns(gap) == gap /\ since_warning >= Throttle

\* The rest of on_shi_message and on_spi_message.
Publish(d, buf, iso) ==
  LET gap == ~first /\ ~Follows(last_counter, iso[1])
  IN  /\ out' = Out("published", d, buf, Published(iso), Warns(gap))
      /\ since_warning' = IF Warns(gap) THEN 0 ELSE since_warning
      /\ first' = FALSE /\ Counter(gap, iso[1])
      /\ shown' = iso[1] /\ before' = shown

NoPublish(ret, d, buf) ==
  /\ out' = Out(ret, d, buf, NoMessage, FALSE)
  /\ UNCHANGED <<first, last_counter, since_warning, shown, before>>

\* The early returns for a header that is foreign or of another event.
AcceptsHeader(d) == d.valid /\ d.method = stream

process_datagram(d, buf) ==
  LET iso == From(buf, kE2eHeaderSize)
  IN  /\ out = Idle
      /\ \/ ~AcceptsHeader(d) /\ NoPublish("ignored", d, buf)
         \/ /\ AcceptsHeader(d) /\ ~consume_e2e_header(buf)
            /\ NoPublish("dropped", d, buf)
         \/ /\ AcceptsHeader(d) /\ consume_e2e_header(buf) /\ ~ParseOk(iso)
            /\ NoPublish("parse_failed", d, buf)
         \/ /\ AcceptsHeader(d) /\ consume_e2e_header(buf) /\ ParseOk(iso)
            /\ Publish(d, buf, iso)
      /\ UNCHANGED <<stream, validate_e2e, e2e_strict>>

\* Back in the loop of the thread, the buffer free for the next datagram.
Return ==
  /\ out # Idle /\ out' = Idle
  /\ before' = NoCounter
  /\ UNCHANGED <<stream, validate_e2e, e2e_strict, first, last_counter, since_warning, shown>>

\* on_parameter_change, for the two flags.
SetE2e(v, s) ==
  /\ out = Idle
  /\ validate_e2e' = v /\ e2e_strict' = s
  /\ UNCHANGED <<stream, first, last_counter, since_warning, out, shown, before>>

\* The node's clock, while the thread waits for a datagram.
Tick ==
  /\ out = Idle /\ since_warning < Throttle
  /\ since_warning' = since_warning + 1
  /\ UNCHANGED <<stream, validate_e2e, e2e_strict, first, last_counter, out, shown,
                 before>>

Next ==
  \/ \E d \in Datagrams : \E buf \in Received(d) : process_datagram(d, buf)
  \/ Return
  \/ \E v, s \in BOOLEAN : SetE2e(v, s)
  \/ Tick

Spec == Init /\ [][Next]_vars

-----------------------------------------------------------------------------
(* Properties                                                              *)

\* Type correctness.  The bounds on a published message are those of the
\* arrays it is copied from.
TypeOK ==
  /\ stream \in {"shi", "spi"}
  /\ validate_e2e \in BOOLEAN /\ e2e_strict \in BOOLEAN
  /\ first \in BOOLEAN /\ last_counter \in Byte /\ since_warning \in 0 .. Throttle
  /\ shown \in Byte \cup {NoCounter} /\ before \in Byte \cup {NoCounter}
  /\ \/ out = Idle
     \/ /\ out.ret \in {"ignored", "dropped", "parse_failed", "published"}
        /\ out.warned \in BOOLEAN /\ out.buf \in Seq(Byte)
        /\ out.pub.counter \in Byte /\ out.pub.num \in 0 .. MaxEntries
        /\ \A k \in DOMAIN out.pub.entries :
             k <= MaxEntries /\ out.pub.entries[k] \in Byte

IsOfStream(d) == d.valid /\ d.method = stream /\ d.data_id = DataId[stream]

\* The content of a message: its counter and its entries as far as there is
\* room, then zeros where the published message has a fixed size.
Shows(pub, iso) ==
  /\ pub.counter = iso[1]
  /\ \A k \in DOMAIN pub.entries :
       pub.entries[k] = IF k <= pub.num THEN iso[2 + k] ELSE 0
  /\ pub.num <= Len(pub.entries)
  /\ IF Len(iso) >= 2 THEN pub.num \in {iso[2], MaxEntries} /\ pub.num <= iso[2]
                      ELSE pub.num = 0

\* Every message the sensor sends on the stream and that arrives as it was
\* sent is published, with its content, whatever the flags are: the register
\* of e2e_crc64_xz ends with the remainder that the sensor computed, the
\* fields are read where they are, and the gap detection never holds it back.
IntactPublished ==
  out # Idle =>
    (IsOfStream(out.of) /\ out.buf = Payload(out.of)
       => out.ret = "published" /\ Shows(out.pub, out.of.iso))

\* With validate_e2e and e2e_strict on, nothing else is published: no message
\* with a burst of errors up to the width of the CRC, none that the buffer
\* cut short, and none that belongs to the other stream.
StrictStatusIntact ==
  out # Idle =>
    (validate_e2e /\ e2e_strict /\ out.ret = "published"
       => IsOfStream(out.of) /\ out.buf = Payload(out.of))

\* Whatever was dropped, refused or reported since the message published before:
\* only a message whose counter does not follow that one's, wrap-around included,
\* is reported, and it is, unless a gap was reported less than 5 s before.
GapsReported ==
  out # Idle =>
    (out.ret = "published" /\ before # NoCounter
       => /\ out.warned => ~Follows(before, shown)
          /\ ~Follows(before, shown) => out.warned \/ since_warning < Throttle)
=============================================================================
