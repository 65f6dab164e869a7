---------------------------- MODULE FrameChannel ----------------------------
(***************************************************************************)
(* What TcpStreamClient promises to the thread that calls Receive: the     *)
(* messages the sensor writes to one connection come out whole and in      *)
(* order, each one once.  When a connection ends, the messages that were   *)
(* complete still come out; a message too large for the thread's buffer    *)
(* costs the connection and what is behind it.  Nothing is carried over    *)
(* from one connection to the next.                                        *)
(*                                                                         *)
(* Messages are numbered in the order of sending.  A message is a header   *)
(* of H cells and the sent[n] cells that its length field announces.       *)
(***************************************************************************)
EXTENDS Naturals, Sequences

CONSTANTS
  H,          \* cells of the half header that Receive reads first: 8 bytes
  Lengths,    \* values of the SOME/IP length field
  BufSize     \* cells of the receiver thread's buffer

VARIABLES
  sent,      \* sent[n]: the length field of message n
  link,      \* the connection: "up", "broken" by the sensor's end, or "down"
  pending,   \* the messages that are still to come out
  frames     \* what came out

vars == <<sent, link, pending, frames>>

Message(n) == [j \in 1 .. H + sent[n] |-> <<n, j>>]
Fits(n)    == H + sent[n] <= BufSize

IsNext(n) == n \in pending /\ \A m \in pending : n <= m

Init == sent = <<>> /\ link = "up" /\ pending = {} /\ frames = <<>>

Send ==
  /\ \E l \in Lengths : sent' = Append(sent, l)
  /\ pending' = IF link = "up" THEN pending \cup {Len(sent) + 1} ELSE pending
  /\ UNCHANGED <<link, frames>>

Deliver ==
  /\ \E n \in pending :
       /\ IsNext(n) /\ Fits(n)
       /\ frames' = Append(frames, Message(n))
       /\ pending' = pending \ {n}
  /\ UNCHANGED <<sent, link>>

\* The sensor's end closes, dies or is cut off: the messages from n on are
\* not complete any more.
Break ==
  /\ link = "up" /\ link' = "broken"
  /\ \E n \in 1 .. Len(sent) + 1 : pending' = {m \in pending : m < n}
  /\ UNCHANGED <<sent, frames>>

\* The client gives the connection up, for one of two reasons only.
GiveUp ==
  /\ \/ link = "broken" /\ pending = {}
     \/ \E n \in pending : IsNext(n) /\ ~Fits(n)
  /\ link' = "down" /\ pending' = {}
  /\ UNCHANGED <<sent, frames>>

Reconnect ==
  /\ link = "down" /\ link' = "up"
  /\ UNCHANGED <<sent, pending, frames>>

Next == Send \/ Deliver \/ Break \/ GiveUp \/ Reconnect

\* What can come out does, and a connection that has ended is noticed.
Fairness == WF_vars(Deliver) /\ WF_vars(GiveUp)

Spec == Init /\ [][Next]_vars /\ Fairness
=============================================================================
