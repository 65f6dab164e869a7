---------------------------- MODULE MCRdiReceive ----------------------------
(* Instances of RdiReceive for TLC.  Message 0 is NoMsg.                   *)
EXTENDS RdiReceive

\* Two messages of different sessions and lengths; the third shares the
\* session of the first, as when the 16-bit session id comes round again.
\* Their message counters make one whole turn.
TpMessages == 1 .. 3
TpSize     == <<3, 2, 3>>
TpSession  == <<7, 8, 7>>
TpCounter  == <<0, 1, 2>>

Hdr(bytes, service, method, type) ==
  [bytes |-> bytes, service_id |-> service, method_id |-> method,
   message_type |-> type]

\* TP and plain notifications, and headers that are refused: another event, a
\* request, a TP header that is cut off.
MCHeaders ==
  { Hdr(20, kSomeipServiceId, kEventRdi, 34), Hdr(16, kSomeipServiceId, kEventRdi, 2),
    Hdr(16, kSomeipServiceId, 32771, 2), Hdr(16, kSomeipServiceId, kEventRdi, 0),
    Hdr(18, kSomeipServiceId, kEventRdi, 34) }
=============================================================================
