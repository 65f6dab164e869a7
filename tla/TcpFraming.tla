----------------------------- MODULE TcpFraming -----------------------------
(***************************************************************************)
(* TcpStreamClient::Receive, recv_exact and try_reconnect as one receiver  *)
(* thread calls them in its loop: a byte stream is cut into SOME/IP        *)
(* messages by their length fields, in a buffer that all messages share.   *)
(*                                                                         *)
(* The stream is a sequence of cells; cell <<n, j>> is the j-th of message *)
(* n and its H-th cell holds the length field.  recv returns any number of *)
(* the cells that are there.  The sensor's end may close or be cut off at  *)
(* any cell, and sends on a connection the client has already given up.    *)
(* Close, with its running_, and the descriptor are in StreamLifecycle.    *)
(***************************************************************************)
EXTENDS Naturals, Sequences

CONSTANTS H, Lengths, BufSize,
          MaxSends   \* bound on the messages the sensor sends

ASSUME FramingConstants ==
  /\ H \in Nat \ {0} /\ Lengths \subseteq Nat /\ BufSize \in Nat
  /\ H <= BufSize /\ MaxSends \in Nat

VARIABLES
  sent,      \* sent[n]: the length field of the n-th message sent
  wire,      \* cells of the connection that recv has not returned yet
  conn,      \* "none", "up", or "ended" by the sensor
  open,      \* open_
  at,        \* where the thread is: "loop", "header", "body", "connect"
  received,  \* recv_exact's received
  hdr,       \* Receive's local hdr
  length,    \* Receive's local length
  buf,       \* the thread's buffer
  frames     \* history: what was handed to process_*_datagram

vars == <<sent, wire, conn, open, at, received, hdr, length, buf, frames>>

Zero    == <<0, 0>>
Cell    == Nat \X Nat
Message(n) == [j \in 1 .. H + sent[n] |-> <<n, j>>]

\* After the constructor's Connect.
Init ==
  /\ sent = <<>> /\ wire = <<>> /\ conn = "up" /\ open = TRUE
  /\ at = "loop" /\ received = 0 /\ length = 0
  /\ hdr = [j \in 1 .. H |-> Zero] /\ buf = [j \in 1 .. BufSize |-> Zero]
  /\ frames = <<>>

-----------------------------------------------------------------------------
(* The sensor and the network                                              *)

net    == <<sent, wire, conn>>
client == <<open, at, received, hdr, length, buf, frames>>

Send(l) ==
  /\ conn = "up" /\ Len(sent) < MaxSends
  /\ sent' = Append(sent, l)
  /\ wire' = wire \o [j \in 1 .. H + l |-> <<Len(sent) + 1, j>>]
  /\ UNCHANGED <<conn, client>>

\* The sensor closes, dies, or keepalive gives up: the first k cells remain.
PeerEnds(k) ==
  /\ conn = "up" /\ conn' = "ended"
  /\ wire' = SubSeq(wire, 1, k)
  /\ UNCHANGED <<sent, client>>

-----------------------------------------------------------------------------
(* The thread                                                              *)

\* The loop calls Receive, which begins with the first recv_exact ...
Receive ==
  /\ at = "loop" /\ open
  /\ at' = "header" /\ received' = 0
  /\ UNCHANGED <<net, open, hdr, length, buf, frames>>

\* ... or with try_reconnect, which closes what there is.
try_reconnect ==
  /\ at = "loop" /\ ~open
  /\ conn' = "none" /\ wire' = <<>>
  /\ at' = "connect"
  /\ UNCHANGED <<sent, open, received, hdr, length, buf, frames>>

ConnectOk ==
  /\ at = "connect" /\ at' = "loop"
  /\ conn' = "up" /\ wire' = <<>> /\ open' = TRUE
  /\ UNCHANGED <<sent, received, hdr, length, buf, frames>>

ConnectFails ==
  /\ at = "connect" /\ at' = "loop"
  /\ UNCHANGED <<net, open, received, hdr, length, buf, frames>>

\* The number of cells the current recv_exact was asked for.
Wanted == IF at = "header" THEN H ELSE length

\* Mutant of Complete: recv_exact is happy with the first recv.
CompleteOnFirst == received > 0 \/ Wanted = 0

\* recv_exact's loop is over.
Complete == received >= Wanted

\* One turn of recv_exact's loop: recv returns k cells.
Recv(k) ==
  /\ at \in {"header", "body"} /\ ~Complete
  /\ k <= Wanted - received
  /\ LET chunk(j) == wire[j - received]
         new(j)   == j > received /\ j <= received + k
     IN  \/ /\ at = "header" /\ UNCHANGED buf
            /\ hdr' = [j \in 1 .. H |-> IF new(j) THEN chunk(j) ELSE hdr[j]]
         \/ /\ at = "body" /\ UNCHANGED hdr
            /\ buf' = [j \in 1 .. BufSize |-> IF new(j - H) /\ j > H
                                              THEN chunk(j - H) ELSE buf[j]]
  /\ wire' = SubSeq(wire, k + 1, Len(wire))
  /\ received' = received + k
  /\ UNCHANGED <<sent, conn, open, at, length, frames>>

\* Mutant of RecvFails: recv's 0 is taken for an interrupted call.
RecvRetries ==
  /\ at \in {"header", "body"} /\ ~Complete /\ wire = <<>> /\ conn = "ended"
  /\ UNCHANGED vars

\* recv returns 0 or an error; Receive returns -1.
RecvFails ==
  /\ at \in {"header", "body"} /\ ~Complete /\ wire = <<>> /\ conn = "ended"
  /\ open' = FALSE /\ at' = "loop"
  /\ UNCHANGED <<net, received, hdr, length, buf, frames>>

\* What Receive can read from the length field: any value, if the cell is
\* not a length field at all.
LengthIn(cell) == IF cell[2] = H THEN {sent[cell[1]]} ELSE Lengths

\* Mutant of TooLarge: the header is left out of the sum.
TooLargeBody(l) == l > BufSize

TooLarge(l) == H + l > BufSize

\* Mutant of Oversize: the message is refused and the stream kept.
OversizeKeepsStream ==
  /\ at = "header" /\ Complete
  /\ \E l \in LengthIn(hdr[H]) : TooLarge(l)
  /\ at' = "loop"
  /\ UNCHANGED <<net, open, received, hdr, length, buf, frames>>

Oversize ==
  /\ at = "header" /\ Complete
  /\ \E l \in LengthIn(hdr[H]) : TooLarge(l)
  /\ open' = FALSE /\ at' = "loop"
  /\ UNCHANGED <<net, received, hdr, length, buf, frames>>

\* The half header goes to the buffer; the second recv_exact begins.
HeaderRead ==
  /\ at = "header" /\ Complete
  /\ \E l \in LengthIn(hdr[H]) : ~TooLarge(l) /\ length' = l
  /\ buf' = [j \in 1 .. BufSize |-> IF j <= H THEN hdr[j] ELSE buf[j]]
  /\ at' = "body" /\ received' = 0
  /\ UNCHANGED <<net, open, hdr, frames>>

\* Receive returns the total, and the loop hands that much to its handler.
Process ==
  /\ at = "body" /\ Complete
  /\ frames' = Append(frames, SubSeq(buf, 1, H + length))
  /\ at' = "loop"
  /\ UNCHANGED <<net, open, received, hdr, length, buf>>

Thread ==
  \/ Receive \/ try_reconnect \/ ConnectOk \/ ConnectFails
  \/ \E k \in 1 .. Len(wire) : Recv(k)
  \/ RecvFails \/ Oversize \/ HeaderRead \/ Process

Next ==
  \/ \E l \in Lengths : Send(l)
  \/ \E k \in 0 .. Len(wire) : PeerEnds(k)
  \/ Thread

\* The receiver thread is scheduled.  Nothing is assumed of the sensor: it
\* may stay silent, and it may refuse every connection.
Spec == Init /\ [][Next]_vars /\ WF_vars(Thread)

-----------------------------------------------------------------------------
(* Properties                                                              *)

\* Type correctness.  The bound on length also says that the second recv_exact
\* is never asked for more than the buffer holds behind the half header.
TypeOK ==
  /\ sent \in Seq(Lengths) /\ wire \in Seq(Cell)
  /\ conn \in {"none", "up", "ended"} /\ open \in BOOLEAN
  /\ at \in {"loop", "header", "body", "connect"}
  /\ received \in 0 .. BufSize
  /\ length \in Lengths \cup {0} /\ H + length <= BufSize
  /\ hdr \in [1 .. H -> Cell] /\ buf \in [1 .. BufSize -> Cell]
  /\ frames \in Seq(Seq(Cell))

\* What Receive returns is one message of the sensor, all of it and nothing
\* else: however recv cuts the stream, whatever an earlier and longer message
\* left in the buffer, and after every reconnect.
WholeFrames ==
  \A i \in DOMAIN frames : \E n \in DOMAIN sent : frames[i] = Message(n)

\* A call of Receive that finds the stream open starts at the first cell of a
\* message.  There is no marker to search for in the stream, so a call that
\* gives up in the middle of a message has to give up the connection too.
InStep == at = "loop" /\ open /\ wire # <<>> => wire[1][2] = 1

\* The cells of the call in progress that recv has returned.
Taken ==
  IF at = "header" THEN {hdr[j] : j \in 1 .. received}
  ELSE IF at = "body" THEN {buf[j] : j \in 1 .. H + received} ELSE {}

\* Messages whose last cell is on the wire or in the hands of Receive.
Pending ==
  {n \in DOMAIN sent : <<n, H + sent[n]>> \in Taken \cup {wire[j] : j \in DOMAIN wire}}

Channel == INSTANCE FrameChannel WITH
  link    <- IF ~open THEN "down" ELSE IF conn = "up" THEN "up" ELSE "broken",
  pending <- IF open THEN Pending ELSE {}

\* TcpStreamClient implements the message channel its callers take it for:
\* whole messages in order, each once, those that were complete when the
\* sensor's end closed included; a connection is given up only when it has
\* ended or for a message that does not fit; and both happen eventually.
ImplementsChannel == Channel!Spec
=============================================================================
