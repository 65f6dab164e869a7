# AFI920 ROS 2 driver: a TLA+ verification project

The driver (`src/src/afi920_driver`) receives the streams of an AFI920 imaging
radar over UDP or TCP, takes SOME/IP messages apart, checks their end-to-end
(E2E) protection and publishes ROS 2 messages. These modules model the parts of
it that keep state or that run concurrently. TLC checks them on small instances;
TLAPS proves every invariant of those checks, and that the TCP client implements its
abstract specification, for every instance (the modules `...Proofs` and
`TcpFramingRefinement`).

File names below are relative to `src/src/afi920_driver/`.

## 1. The system

| Part | State it keeps | Operations | Used by |
|---|---|---|---|
| SOME/IP checks and TP reassembler (`src/someip_parser.cpp`) | `buffer_`, `total_size_`, `in_progress_`, `session_id_`, start time | `Feed`, `Reset`, `IsTimedOut`, `GetPayload` | RDI thread |
| E2E (`src/e2e.cpp`) | none | `e2e_parse`, `e2e_crc64_xz`, `e2e_validate` | all receiver threads |
| RDI/SHI/SPI parsers (`src/*_parser.cpp`) | none | `Parse` | receiver threads |
| Node, datagram path (`src/afi920_node.cpp`) | loss statistics, message counters | `process_*_datagram`, `consume_e2e_header`, `deliver_rdi_frame` | receiver threads |
| Node, publishing | `frame_id_`, filter fields, `config_mutex_` | `on_rdi_frame`, `on_shi_message`, `on_spi_message` | receiver threads |
| Node, parameters | the same fields, `validate_e2e_`, `e2e_strict_` | `on_parameter_change` | executor thread |
| Point cloud builder (`src/pointcloud_builder.cpp`) | `config_` | `update_config`, `build`, `build_detection_array` | RDI thread, executor |
| Receivers (`src/tcp_stream_client.cpp`, `src/udp_receiver.cpp`) | `socket_fd_`, `open_`, `running_`, reconnect delay | `Connect`, `Receive`, `Close`, `IsOpen` | receiver threads, destructor |
| Node, start and stop | `running_`, three threads | constructor, destructor | main thread |
| Configuration client (`src/config_client.cpp`) | none beyond one call | `configure_streams` | constructor |

Up to three receiver threads (RDI, SHI, SPI) run next to the executor thread,
which runs `on_parameter_change`, and the thread that constructs and destroys the
node. They share the node's fields, partly under `config_mutex_`; the two E2E
flags as atomics; and each receiver's `socket_fd_`, a plain `int` that the
destructor's `Close` changes while the thread uses it.

What makes each part correct:

* reassembly: a message that arrives completely is delivered, whatever happened
  to the ones before it; segments of different sessions are not mixed;
* E2E: in strict mode nothing but what the sensor sent is published, and what
  arrives as it was sent is never refused;
* statistics: each gap is counted once, across counter wrap-around;
* connections: a thread uses its own socket only, loses none and reconnects;
* framing: `Receive` returns one complete message (`transport/stream_receiver.hpp:22`),
  in order and once, or gives up the connection;
* shutdown: the destructor returns, whatever the threads are doing;
* parameters: every change takes effect and no message mixes two configurations;
* parsers and builder: no read past the payload, no write past the cloud, and
  nothing lost that was received;
* configuration: the call ends, and its return code says what the sensor did.

`PROJECT.json` lists under `hazards` what of this is hard to test, line by line.

## 2. Modules

| Module | Models |
|---|---|
| `SomeipTp` | header checks and `SomeipTpReassembler`, as operators on a record |
| `RdiReceive` | the RDI thread's handling of one datagram, composed with `SomeipTp` |
| `RdiReceiveProofs` | theorems about `RdiReceive` |
| `StreamLifecycle` | receivers, threads, constructor and destructor |
| `StreamLifecycleProofs` | theorems about it |
| `TcpFraming` | `TcpStreamClient::Receive`, `recv_exact` and `try_reconnect` on the bytes of the stream |
| `FrameChannel` | the message channel that `TcpFraming` implements: the abstract specification |
| `TcpFramingProofs` | theorems about `TcpFraming`, and lemmas about streams of cells |
| `TcpFramingRefinement` | the theorem that the steps of `TcpFraming` are steps of `FrameChannel` |
| `E2e` | `e2e.cpp` as operators, and the CRC's definition to compare it with |
| `StatusReceive` | the SHI and SPI threads' handling of one datagram, composed with `E2e` |
| `StatusReceiveProofs` | theorems about `StatusReceive` |
| `ParamUpdate` | `on_parameter_change` against the three threads |
| `ParamUpdateProofs` | theorems about it |
| `PayloadParsers` | the three `Parse` methods: cursor, length checks, counts |
| `MessageBuild` | `PointCloudBuilder` on a parsed RDI frame, composed with `PayloadParsers` |
| `MessageBuildProofs` | theorems about both |
| `ConfigClient` | `detect_local_ip` and `configure_streams` against the sensor |
| `ConfigClientProofs` | theorems about it |
| `MC...` | the instances for TLC |

### SomeipTp and RdiReceive

A payload is counted in cells, and cell *i* of message *m* is the pair `<<m, i>>`;
`<<NoMsg, 0>>` is a byte nobody wrote (`resize` fills with zeros). So a published
payload shows where each part came from. Cell 0 holds the E2E header and cell 1
the RDI header. The network (`Next`) may deliver any slice of any message at any
time, with any of the headers in `Headers`: this covers loss, repetition,
reordering and mixing without modelling a queue. A segment's `more_segments` flag
and offset are what an honest sender puts there.

`process_rdi_datagram` is one action whose disjuncts are the ways through the
function: `Ignore` (early returns), `FeedSegment` (TP), `WholeDatagram`; both
end in `ProcessPayload`, with the gate `consume_e2e_header`, the parser's length check and
`deliver_rdi_frame`, and in the trailing `Reset` of the TP path. `out` records
what the call did and what it handed to `on_rdi_frame`. `got`, `run`, `latest` and
`first_counter` are history variables: they observe and guard nothing. `latest` is
the message whose segment was the last to bring anything to a place, kept from the
segments alone and not from the buffer.

The CRC is ideal: it matches exactly when the payload is a message as sent; what
the real one detects is the subject of `StatusReceive`. That in strict mode nothing but
messages as sent is published is therefore no property here. `StrictMeansComplete` asks which
messages: those, and only those, of which every place was last written by the message
itself, whatever the reassembler resets, keeps or overwrites on the way. An
E2E header made of bytes nobody wrote has length 0 and data id 0, so it fails the
metadata check. Counters wrap at `CounterMod`, 2^32 in the code.

### StreamLifecycle

A step is one access to a variable another thread may use. `pc[s]` is where the
thread of stream `s` is in its loop, `Receive`, `recv_exact`, `try_reconnect` and
`Connect`; `main` and `at` are where the constructor or destructor is. `sock` is
the process's descriptor table: `close` frees a number, and `socket` of any
thread may get it next, which is how a stale `socket_fd_` would do harm. `reading`
is the connection a blocked `recv` is on: on Linux `close` from another thread
does not end it. `have` and `part` keep how far `recv_exact` is, without the bytes.
A stream whose first `Connect` fails never gets a thread (degraded mode,
`src/afi920_node.cpp:128`).

### TcpFraming and FrameChannel

`TcpFraming` keeps what `StreamLifecycle` leaves out: the bytes. Messages are
numbered in the order of sending, `sent[n]` is the length field of message *n*, and
the stream is a sequence of cells `<<n, j>>`, the *j*-th of message *n*. The first
`H` cells are the half header that `Receive` reads first (8 bytes in the code); the
last of them holds the length field. `Recv(k)` is one turn of the loop in
`recv_exact`: `recv` returns any number of the cells that are there, up to what is
wanted. `hdr`, `length`, `received` are locals of the code; `buf` is the thread's
buffer, which keeps what earlier messages left in it. `LengthIn` says what `Receive`
makes of the cell where it expects a length: any length, if it is another cell; this
only happens when the client has lost its place in the stream, which is what the
mutants do. The sensor may end the connection at any cell (`PeerEnds`), with the rest of
the stream lost, and goes on sending on a connection the client has given up
until `try_reconnect` closes it.

`FrameChannel` is the promise of `StreamReceiver::Receive`: messages that were sent
on a connection are `pending` and come out whole, in order, each once (`Deliver`);
the end of the connection takes the incomplete ones (`Break`); the client gives a connection
up only after it has ended and everything complete has come out, or for a message that does not fit
(`GiveUp`). The refinement mapping (`Channel` in `TcpFraming`): `link` is `open_`
and the sensor's side together; a message is pending when its last cell is on the
wire or in what the current call has read. A `Recv` step is then a stuttering step,
`Process` is `Deliver`, `Oversize` and `RecvFails` are `GiveUp`, and `PeerEnds` is
`Break` or, on a connection already given up, nothing.

### E2e and StatusReceive

`e2e_crc64_xz_update` is the code's shift register on integers, with the width of the
register (64) and of a byte (8) as parameters `W` and `B`. `ReferenceCrc` is
the definition of a reflected CRC with all-ones start and end values: long division
of the message as a polynomial over GF(2). The sensor (`Payload`) uses the
definition, the driver the register, so that a message is accepted only if
the two agree. The CRC field is big-endian in front of the bytes it protects
(`unpack_be`); length, counter and data id have one byte each. `Xor` is a recursive
function rather than the `^^` of the community module `Bitwise`, which TLAPS cannot
reason about. `SensorConstants` says what the sensor's messages look like: SHI has
its array, SPI may do without, and a count byte counts what is there.

`StatusReceive` follows one of the two threads. `process_datagram` has one disjunct
per way through `process_shi_datagram` and `process_spi_datagram`. An array stands for
the three of each message: `on_shi_message` publishes all its slots and relies on
`Parse` having cleared those that it does not fill, `on_spi_message` resizes to the
count. SPI accepts a payload without its array, SHI does not. `Received` is the fault
model: a datagram arrives as sent, cut to any length, or with any burst of
flipped bits no longer than the CRC; not arriving, arriving twice and out of order
come from `Next`, which picks any datagram at any time. A burst that
reaches from the CRC field into the bytes behind it is not assumed to be detected: the
field's byte order does not continue the order in which the register takes the
bits. A gap is reported by `RCLCPP_WARN_THROTTLE`, at most once in 5 s at each of the two
places (`src/afi920_node.cpp:646`, `:735`): `Warns` is that macro, whose text is external,
`since_warning` its memory, which counts up to `Throttle` (and begins there, the first
call always logging), and `Tick` the clock. A gap that falls into the 5 s after another is
not reported, which `GapsReported` says. `shown` and `before` are history variables. The publishers `pub_shi_`
and `pub_spi_` exist whenever their thread does (`src/afi920_node.cpp:46`, `:156`),
so the early return for a missing one is never taken.

### ParamUpdate

The callback's steps are: initialise the locals from the fields (`CbBegins`),
store each flag as the loop meets it (`CbStores`), take the lock, assign
`frame_id_` (two steps, with `Torn` in between for a reader without the lock),
assign the rest and call `update_config`. The RDI thread loads the flags one at a
time, builds cloud and array under the lock and the marker outside of it. SPI and
SHI take the lock for one read each. The four numeric filter parameters are
handled alike and are one value. `intended`, `asked`, `before` and `inforce` are
history variables: what the calls so far asked for, and which flag settings were
asked for since the current frame entered the gate.

### PayloadParsers and MessageBuild

A payload is its length; a count is chosen when it is read, which happens once.
`at` is the part `Parse` has reached, or how it ended. `Array` stands for the
pattern that six parts of the SHI and SPI payloads share: count byte, test that
all declared elements are there, copy of as many as the message holds from each of
the parallel arrays, skip of all. `high`, the end of the highest byte read, and
`declared`, the counts the payload gives, are history variables. `Place` and `ArrayEnd` say
where an array is by the layout of the message, computed from the sizes of all parts
and the counts declared before it and not from the cursor; `EntriesBacked` compares them with
the payload's length and with what was read. `MessageBuild` takes the frame from there: `CountOne` and
`FillOne` are turns of the two loops of `build`, `ArrayOne` of the loop of
`build_detection_array`, which runs when `publish_detections` is set. A detection is
where its fields lie relative to the config, not-a-number included: such a
distance passes `passes_filter`, both comparisons being false, and goes into a
cloud that says `is_dense`.

The SHI and SPI paths do not look at the TP flag, so a TP segment (type 0x22) is
parsed as a whole message.

### ConfigClient

A step is one system call. Transfers are counted in chunks and may stop or fail
at each call. The sensor is external: `SensorReplies` picks any answer (response or
not, header code, size of the body, return code and its place in the body) once the
request is complete, also after the call has given up. What has not arrived of the
body is zero bytes, which is why `JsonError` asks whether `code_at` was received.
The node only logs the return value.

## 3. Runs

| Run | Instance | Result |
|---|---|---|
| `rdi_tp` | 3 messages of 3, 2 and 3 cells, the first and third with the same session id; 5 headers; time-out after 1 tick; counters of 3 values | `TypeOK`, `WholeMessagePublished`, `RunInBuffer`, `OneSession`, `StrictMeansComplete`, `LossAccounting` hold |
| `rdi_fresh` | as `rdi_tp` | `BeginsFresh` violated |
| `lifecycle` | 2 streams, 3 descriptors, UDP and TCP, delay cap reached after one failure | `ShutdownCompletes`, `Reconnects`, `TypeOK`, `OwnSocketOnly`, `NoDescriptorLeak` hold |
| `receive_returns` | the same without fairness of a TCP peer | `ReceiveReturns` violated |
| `tcp_framing` | 3 messages, headers of 2 cells, a buffer of 4, lengths 0 to 3 | `TypeOK`, `WholeFrames`, `InStep`, `ImplementsChannel` hold |
| `status` | 10 datagrams, 3-bit bytes, a 6-bit CRC (x^6 + x + 1), room for 1 entry, a throttle of 1 tick | `TypeOK`, `IntactPublished`, `StrictStatusIntact`, `GapsReported` hold |
| `params` | 2 frame ids, 2 filters, calls that set one or two parameters | `TypeOK`, `UpdatesTakeEffect`, `OneConfigPerFrame`, `LockedReadsWhole`, `GateNeverTooLax` hold |
| `param_gate`, `param_marker` | the same | `GateNeverTooStrict`, `OneFrameIdPerFrame` violated |
| `messages` | datagrams of 0 to 230 bytes, counts 0 to 3 and the largest, capacities 2 | `TypeOK`, `NeverReadsPastEnd`, `EntriesBacked`, `AllDetectionsTaken`, `FillInBounds`, `SameDetections` hold |
| `config` | request and header of 2 chunks, body of 0, 1, 3 and 4 with at most 3 read | `TypeOK`, `SocketClosed`, `SuccessIsApplied`, `RefusalIsReal`, `CallReturns` hold |
| `config_failure` | the same | `FailureReported` violated |

Why the bounds are enough. In `rdi_tp` three cells give every kind of segment
(first, middle, final, overlapping, whole); two sizes let a kept buffer be longer
than the message; a reused session id and a time-out after one tick give both
early resets and the case that neither fires. The three counters make a whole
turn, in any order and any number of times. In `tcp_framing` a message can be
empty, short, just fitting or too large; three of them give every pair in a row with
a third that shows whether the client is still in step; header and body can each be
read in parts and be cut. In `status` the bursts reach across all bytes of every
message, a count can be below, at and above the room there is, and counters
of 3 bits wrap around; with one tick a second gap comes within the throttle's time or after it;
a CRC of two bytes lets the byte order of its field matter. In `lifecycle` two streams and one spare descriptor let a number
pass from one stream to the other; two chunks per read let every read be partial;
a third stream adds no new kind of interleaving. Node destruction ends the
behaviour, so deadlock is not checked there. In `params` two values per parameter
tell old from new, and calls of two parameters include the pair of flags and a
flag together with the config; frame ids and filters are symmetric. In `messages`
the element sizes are the real ones, every length occurs up to a message with one
element too many in every array, and counts are below, at and above the
capacities; what the small capacities leave open the proofs settle. In `config`
every transfer can be cut at its start, in the middle and before its end; the
call ends, so deadlock is not checked.

### What the violated properties show

* `BeginsFresh`. `Reset` keeps `buffer_`. With `validate_e2e` on and `e2e_strict`
  off (the defaults) a message begun in one session and cut off is completed by
  the final segment of another, and the mixture is published with a warning only.
  The comment at `src/someip_parser.cpp:60` says the reassembly begins fresh. For
  the same reason neither the session check nor the time-out changes what a
  completed reassembly delivers; they change only what is kept as `session_id_`.
* `ReceiveReturns`. A connected TCP peer that sends nothing keeps `recv` blocked
  for ever (keepalive detects a dead peer, not a silent one), `Close` does not wake
  it, and the destructor waits in `join`. `stream_receiver.hpp:23` promises a
  return on timeout. `UdpReceiver::Close` is documented as waking a pending
  `Receive` (`udp_receiver.hpp:46`); there the receive timeout of 1 s ends it.
* `GateNeverTooStrict`. From `validate_e2e = false, e2e_strict = true` to `true,
  false` in one call: between the two stores both are on, and a frame is dropped
  that neither setting drops. The opposite does not happen (`GateNeverTooLax`).
* `OneFrameIdPerFrame`. The marker reads `frame_id_` after the lock was released.
* `FailureReported`. The result of receiving the body is ignored ("best-effort
  drain") and a body over 1 MiB is skipped. If the part with `return_code` is
  missing, the call returns 0 although the sensor refused. `SuccessIsApplied` is
  what remains true: success is right whenever that part arrived.

One comment of the tests contradicts the code and `EntriesBacked`: of a payload that
ends inside its FOV segments, `test/test_spi_parser.cpp:148` says that the clamped count
is stored and not corrected. `Parse` returns -1 (`src/spi_parser.cpp:66`) before it
stores the count, which is still 0 from the `memset`; the test's assertion is under
`if (rc == 0)` and is not reached, so the test passes. A parser that did what the
comment says would violate `EntriesBacked`.

Observed and not listed as findings: a thread that is in its reconnect delay when
`Close` is called connects again afterwards (`try_reconnect` tests `running_` before the
delay only), and the receiver's destructor closes that socket; the comment at
`src/tcp_stream_client.cpp:163` speaks of draining a message that is too large where the code
gives up the connection, which is what keeps the stream in step; a gap before the final segment is accepted
(a test of `test/test_someip_parser.cpp` documents it); a repeated final segment
publishes the frame again; `someip_validate` masks the type with `0x1F` and so
accepts 0x42 or 0x62 besides the two types its comment names; if the destructor is
suspended between `close(socket_fd_)` and `socket_fd_ = -1` for a whole reconnect
of the thread, the new descriptor is lost until the process ends.

### Fairness

`SilentPeerSpec`: weak fairness of the main thread's steps and of each receiver
thread's own steps (threads are scheduled, sleeps and `select` have time limits)
and of the return of a UDP `recv`, which has a receive timeout. Beginning the
destructor is never forced. `FairSpec`, for `lifecycle`, adds what is the peer's part: a TCP
`recv` returns eventually (the radar sends every 50 ms or so, and keepalive ends a
dead connection after 8 s), and a thread that asks again and again is given a
socket and accepted (strong fairness of `GetsSocket` and `ConnectOk`).
`receive_returns` shows that the first of these cannot be left out.

`TcpFraming!Spec`: weak fairness of the receiver thread's steps. A `recv` on a live and
silent connection is no step, and nothing is assumed of the sensor, which may refuse
every connection. This is enough for both fairness conditions of `FrameChannel`: a complete
message comes out, and an ended connection is noticed.

`ConfigClient!Spec`: weak fairness of the call's own steps. `SO_SNDTIMEO` and
`SO_RCVTIMEO` are set before `connect` (`src/config_client.cpp:196`) and end each
system call; nothing is assumed of the sensor.

## 4. Proofs

`RdiReceiveProofs` proves, for any set of messages, sizes, sessions, headers and
counter range that satisfy the assumptions `TpConstants` and `RdiConstants`:
`TypeCorrect`, `RunInBufferHolds`, `OneSessionHolds`, `WholeMessagesArePublished`,
`StrictMeansCompleteHolds`, `LossAccountingHolds`.

The argument. Lemmas first say what `Reset`, `Begin`, `CopyIn` and `Feed` do to a
well-typed record: `Feed` keeps every cell it does not write and puts the
segment's cells in place. Typing follows action by action. `RunInBuffer` is
inductive together with the typing: a segment of the current message extends the
run and keeps what is there, one of another message starts a run of its own, and
no other action touches buffer or run. `OneSession` needs `got` to be exactly the
cells written since `Begin`; a restart makes it the segment's own cells.
`WholeMessagePublished` is about the step that takes the final segment: the run
covers the message and the run is in the buffer (the invariant, after the copy),
so the payload is `Whole(m)`, for which CRC and metadata match, so neither flag
can drop it. `StrictMeansComplete` rests on `LatestInPlace`: what the buffer holds at each
place is what was brought there last. The last cell of the payload is the final
segment's, so the only message the payload can be is that segment's (`WholeIsUnique`), and it is
that message exactly if the latest writer of every place is (`FinalPayload`); CRC and
metadata do the rest. `LossAccounting` is modular arithmetic: each delivery adds one plus
the gap, which is the distance of the counters.

`MessageBuildProofs` proves all six properties of the run `messages` for any datagram
sizes, counts and capacities that are natural numbers (`ParserConstants`): `TypeCorrect`,
`NeverReadsPastEndHolds`, `EntriesBackedHolds`, `AllDetectionsTakenHolds`,
`FillInBoundsHolds`, `SameDetectionsHolds`.

The argument. `NeverReadsPastEnd` alone is not inductive: that a read stays inside
depends on the cursor, and that entries are backed depends on where they lie.
`ParserInv` says where the cursor is at each part of a payload, in terms of the counts
declared so far (`Cursor`), that the arrays not passed yet have no entries (`Passed`), and
where the entries of the others lie (`AllBacked`, which is `EntriesBacked` with the layout
written out). An array begins where the layout puts it because the cursor was
moved over all declared elements of the arrays in front of it, kept or not; it stays
backed because later counts do not move it. `ArrayHasEffect` reduces the six shapes of arrays to one
statement about cursor, count and `high`, and each array is then linear arithmetic.
`BuildInv` says what each loop has done after `i - 1` turns: `cloud_size`,
or the length of `points`, is the number of passing detections met, and `points` and
`arr` list them in order. Filling stays in bounds because the detections before `i`
are a subset of all. That the array equals the points needs one more part, that it
is always a prefix of them: the next detection it takes is then the next point
(`PrefixStep`), since the points are increasing and contain every passing detection.

`StreamLifecycleProofs`, for any number of streams, descriptors, chunks and delays
(`LifecycleConstants`): `StreamTypes`, `ThreadsUseOwnSockets`, `DescriptorsNotLeaked`,
from `DescriptorsAgree`. `OwnSocketOnly` is not inductive: what a thread uses is the
number in `socket_fd`, and that this number is still its own depends on every place that
closes one. `DescriptorInv` says it for the time before the destructor begins: a number
in `socket_fd[s]` belongs to `s` (`OwnNumbers`), except between the thread's own `close`
and its store of -1, when any stream may be given that number; a thread that has a new socket
and has not stored it has -1 in `socket_fd` and is the only holder of that number
(`Holds`, `Constructing`); and every number of `s` is in one of these two places
(`NoLeak`). `socket` hands out free numbers only, so a thread cannot disturb another.

`TcpFramingProofs`, for any size of the half header, the buffer and the messages
(`FramingConstants`) and any number of messages: `FramingTypes`, `FramesAreWhole`,
`CallsStartInStep`, from `FramingInvariant`. Neither `WholeFrames` nor `InStep` says anything of a
call in progress. The invariant looks at the cells the call has taken (in `hdr`
or `buf`) and those on the wire as one `Stream`: while the connection is open it consists
of messages in the order of sending, begins with the first cell of one, and may be cut
off at its end only if the sensor's end is gone (`StreamInv`); once the header is read,
`length` is that of the first message (`Places`). `InOrder` says this of any two cells, not of
neighbours: then no induction is needed to conclude that the first cells are one whole
message. The work is in lemmas about streams: sending extends one (`Extend`), the loss
of the end cuts one (`Cut`), and taking a whole message off the front leaves one (`Drop`).
`recv`, in whatever pieces, and the copy of the header do not change the stream at all;
so `recv_exact` is correct because it only moves the boundary between its two parts. A call that
gives up leaves the stream in the middle of a message, and closes the connection, after
which the invariant asks for nothing.

`TcpFramingRefinement` proves `StreamIsChannel`: the initial state and every step of
`TcpFraming` are those of `FrameChannel` under the refinement mapping; this is
`ImplementsChannel` without its fairness. `Ends` are the messages whose last cell is in the
stream, and they are the channel's pending messages (`PendingEnds`). The lemmas about
streams get a second half: sending adds one end (`SentEnds`), a cut takes those from some
message on (`CutEnds`), and delivery takes the first (`DropEnds`). `GiveUp` is the hard step.
`ShortOfMessage`: a call that waits for more has no whole message, so nothing is
lost when `recv` fails. `RefusedMessage`: a message that is too large is the next
one and ends in the stream, or was cut off and has nothing behind it.

`StatusReceiveProofs`: `GapsAreReported` for any datagrams, counter range and CRC (the
driver's `last_counter` is that of the message published last, and `first` is only set
before there was one; a gap that is not reported was found while `since_warning` was below
`Throttle`). The other three rest on what a CRC does, which is stated as a
hypothesis about the sensor's datagrams and not proved: `StrictPublishesWhatWasSent` on
`CrcDetectsBursts`, `IntactIsPublished` on `CrcOfDefinition`, `StatusTypes` on
`BytesReceived`. TLC computes all three in the run `status`: each of the properties
fails there if the hypothesis does. What is proved is the rest: that a payload cut short
anywhere fails the length check without any help from the CRC, that the id check keeps
the other stream's messages out, that the fields are read where they were put
(`PayloadFacts`), and that `Parse` and publishing keep the content.

`ParamUpdateProofs`, for any frame ids, filters and calls: `ParamTypes`,
`UpdatesApply`, `FramesOfOneConfig`, `ReadsUnderLockAreWhole`, `GateHolds`, from
`ParamInvariant`. `MutexInv` ties the mutex to the program counters, so that only one of the
two critical sections is under way; `FieldsInv` says that fields and builder are
those of the last call until the current one has the lock, and that `frame_id` is `Torn` only in
between; `FlagsInv` that each flag has the value asked for, or the one before where its
store is still to come. `GateHolds` needs the step from flags one at a time to
settings: `LoadedFlag` says that a loaded flag agrees with the settings before the
call or with those it asks for, and both are in `inforce` while a frame is in the
gate (`GateInv`). Either `validate_e2e` was off in one of them or `e2e_strict` was, as the loads
found it; that setting would have let the frame pass, too.

`ConfigClientProofs`, for requests, answers and limits of any size (`ConfigConstants`):
`ConfigClientTypes`, `CallClosesSocket`, `SuccessIsSensors`, `RefusalIsSensors`, from
`ConfigClientInvariant`. The socket is held exactly between `socket()` and a `close(fd)`
(`SocketHeld`); the body is read of an answer only, within the size it announces
(`BodyIsAnswered`); `applied` is what the answer says (`AppliedByAnswer`); and one of the
four return codes that speak for the sensor is the verdict on that answer, as far as it
arrived (`CodeOfAnswer`). The last two give both properties.

Only model-checked, because it is out of the provers' reach: liveness
(`ShutdownCompletes`, `Reconnects`, `CallReturns`, and the fairness of `ImplementsChannel`,
which needs `ENABLED`); and what the operators of `E2e` compute, `unpack_be` and the two
definitions of the CRC, which are recursive functions over the data. The five violated
properties of section 3 are counterexamples and need no proof.

## 5. Not modelled, and the plan

Not modelled: floating-point geometry and the quaternion of the transform, fields that are
copied one to one, logging but for the report of a gap, Windows branches, `EINTR` (the loop of `recv_exact` repeats
the call), socket options, launch files and tools, which configure or watch the driver from
outside, and the interface headers but for the layouts the parsers use.

Next, in this order:

1. The hypothesis `BytesReceived` reduced to the few facts about `2 ^ B`, `%` and `Xor`
   that it rests on, and the byte order of the CRC field: that `unpack_be` undoes `pack_be`.
2. An abstract specification of the reassembler, a message that grows from its first
   segment and is handed over or given up, with the proof that `RdiReceive` implements it in
   strict mode.
3. Descriptors after the destructor has begun: which of the properties of
   `StreamLifecycle` survive until the last `join`.
