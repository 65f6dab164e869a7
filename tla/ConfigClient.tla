---------------------------- MODULE ConfigClient ----------------------------
(***************************************************************************)
(* configure_streams of config_client.cpp, as the node's constructor calls *)
(* it: one request to the sensor over TCP and its answer, with a time      *)
(* limit on every send() and recv().                                       *)
(*                                                                         *)
(* The sensor is external.  Its answer says in the SOME/IP header whether  *)
(* it is a response and with which return code, and in the JSON body, in   *)
(* the chunk r.code_at of r.body, whether the request was valid.  Data is  *)
(* counted in chunks; a transfer may take any number of calls, and may     *)
(* fail at each of them.                                                   *)
(***************************************************************************)
EXTENDS Integers

CONSTANTS
  RequestChunks,   \* the request
  HeaderChunks,    \* the header of the answer
  BodySizes,       \* sizes the answer's body can have
  MaxBody          \* 1 MiB: a larger body is not read

ASSUME ConfigConstants ==
  /\ RequestChunks \in Nat \ {0} /\ HeaderChunks \in Nat \ {0}
  /\ BodySizes \subseteq Nat /\ MaxBody \in Nat

VARIABLES
  pc,        \* where the call is
  fd,        \* the socket is open
  sent,      \* chunks sent
  got,       \* chunks received of the header, then of the body
  body_len,
  rc,        \* the return value; 1 before there is one
  reply,     \* the sensor's answer
  applied    \* the sensor took the new configuration over

vars == <<pc, fd, sent, got, body_len, rc, reply, applied>>

\* code = "none": a body without return_code.
Reply == {r \in [response : BOOLEAN, ok : BOOLEAN, body : BodySizes,
                 code_at : Nat, code : {"none", "ok", "error"}] :
            r.code_at < r.body \/ r.code = "none"}

\* Replies to choose from: the place of an absent code does not matter.
Replies == {r \in [response : BOOLEAN, ok : BOOLEAN, body : BodySizes,
                   code_at : 0 .. MaxBody, code : {"none", "ok", "error"}] :
              IF r.code = "none" THEN r.code_at = 0 ELSE r.code_at < r.body}

NoReply == [response |-> FALSE, ok |-> FALSE, body |-> 0, code_at |-> 0,
            code |-> "silence"]

Init ==
  /\ pc = "host" /\ fd = FALSE /\ sent = 0 /\ got = 0 /\ body_len = 0 /\ rc = 1
  /\ reply = NoReply /\ applied = FALSE

Answered == reply # NoReply

-----------------------------------------------------------------------------
(* The call                                                                *)

\* detect_local_ip, for host_ip "auto"; without an address there is no call.
DetectHost ==
  /\ pc = "host"
  /\ pc' \in {"socket", "skipped"}
  /\ UNCHANGED <<fd, sent, got, body_len, rc, reply, applied>>

Socket ==
  /\ pc = "socket"
  /\ \/ fd' = TRUE /\ pc' = "connect" /\ UNCHANGED rc
     \/ rc' = -1 /\ pc' = "returned" /\ UNCHANGED fd
  /\ UNCHANGED <<sent, got, body_len, reply, applied>>

\* close(fd); return code
Fails(code) ==
  /\ fd' = FALSE /\ rc' = code /\ pc' = "returned"
  /\ UNCHANGED <<sent, got, body_len, reply, applied>>

\* Mutant of SendFails: the early return leaves the socket open.
SendFailsOpen ==
  /\ pc = "send" /\ sent < RequestChunks
  /\ rc' = -4 /\ pc' = "returned"
  /\ UNCHANGED <<fd, sent, got, body_len, reply, applied>>

\* Mutant of HeaderFails: recv() without a time limit fails only when the
\* connection ends.
HeaderFailsAfterAnswer ==
  pc = "header" /\ Answered /\ got < HeaderChunks /\ Fails(-5)

\* An address that cannot be parsed, or no connection.
ConnectFails == pc = "connect" /\ (Fails(-2) \/ Fails(-3))
SendFails    == pc = "send" /\ sent < RequestChunks /\ Fails(-4)
HeaderFails  == pc = "header" /\ got < HeaderChunks /\ Fails(-5)

Connect ==
  /\ pc = "connect" /\ pc' = "send"
  /\ UNCHANGED <<fd, sent, got, body_len, rc, reply, applied>>

\* send_all
Send(k) ==
  /\ pc = "send" /\ sent + k <= RequestChunks
  /\ sent' = sent + k
  /\ pc' = IF sent' = RequestChunks THEN "header" ELSE "send"
  /\ UNCHANGED <<fd, got, body_len, rc, reply, applied>>

\* The sensor, which has the whole request by now; the call may have given up
\* before.  A request it refuses, by either code, changes nothing.
SensorReplies(r) ==
  /\ sent = RequestChunks /\ ~Answered
  /\ reply' = r
  /\ applied' = (r.response /\ r.ok /\ r.code # "error")
  /\ UNCHANGED <<pc, fd, sent, got, body_len, rc>>

\* Mutant of RecvHeader: the size of the body is not limited.
RecvHeaderUnlimited(k) ==
  /\ pc = "header" /\ Answered /\ got + k <= HeaderChunks
  /\ IF got + k < HeaderChunks
     THEN got' = got + k /\ UNCHANGED <<pc, body_len>>
     ELSE got' = 0 /\ pc' = "body" /\ body_len' = reply.body
  /\ UNCHANGED <<fd, sent, rc, reply, applied>>

RecvHeader(k) ==
  /\ pc = "header" /\ Answered /\ got + k <= HeaderChunks
  /\ IF got + k < HeaderChunks
     THEN got' = got + k /\ UNCHANGED <<pc, body_len>>
     ELSE /\ got' = 0 /\ pc' = "body"
          /\ body_len' = IF reply.body > MaxBody THEN 0 ELSE reply.body
  /\ UNCHANGED <<fd, sent, rc, reply, applied>>

RecvBody(k) ==
  /\ pc = "body" /\ got + k <= body_len
  /\ got' = got + k
  /\ UNCHANGED <<pc, fd, sent, body_len, rc, reply, applied>>

\* parse_json_return_code: what did not arrive is zero bytes.
JsonError == reply.code = "error" /\ reply.code_at < got

\* Mutant of ReturnCode: the body is not looked at.
ReturnCodeOfHeader ==
  IF ~reply.response THEN -6 ELSE IF ~reply.ok THEN -7 ELSE 0

\* Mutant of ReturnCode: a body that ends early counts as an error.
ReturnCodeStrict ==
  IF ~reply.response THEN -6 ELSE IF ~reply.ok THEN -7
  ELSE IF JsonError \/ got < body_len THEN -8 ELSE 0

ReturnCode ==
  IF ~reply.response THEN -6 ELSE IF ~reply.ok THEN -7
  ELSE IF JsonError THEN -8 ELSE 0

\* The body is complete, or recv() failed ("best-effort drain"): either way the
\* socket is closed and the answer judged.
BodyEnds == pc = "body" /\ Fails(ReturnCode)

Next ==
  \/ DetectHost \/ Socket \/ Connect \/ ConnectFails
  \/ (\E k \in 1 .. RequestChunks : Send(k)) \/ SendFails
  \/ (\E r \in Replies : SensorReplies(r))
  \/ (\E k \in 1 .. HeaderChunks : RecvHeader(k)) \/ HeaderFails
  \/ (\E k \in 1 .. MaxBody : RecvBody(k)) \/ BodyEnds

\* The call's own steps: every system call returns by its time limit.
Progress ==
  \/ DetectHost \/ Socket \/ Connect \/ ConnectFails
  \/ (\E k \in 1 .. RequestChunks : Send(k)) \/ SendFails
  \/ (\E k \in 1 .. HeaderChunks : RecvHeader(k)) \/ HeaderFails
  \/ (\E k \in 1 .. MaxBody : RecvBody(k)) \/ BodyEnds

Spec == Init /\ [][Next]_vars /\ WF_vars(Progress)

-----------------------------------------------------------------------------
(* Properties                                                              *)

TypeOK ==
  /\ pc \in {"host", "socket", "connect", "send", "header", "body", "returned",
             "skipped"}
  /\ fd \in BOOLEAN /\ sent \in 0 .. RequestChunks
  /\ got \in Nat /\ body_len \in 0 .. MaxBody
  /\ rc \in -8 .. 1 /\ applied \in BOOLEAN /\ reply \in Reply \cup {NoReply}

\* On every one of its return paths configure_streams has closed its socket,
\* and until then it holds it.
SocketClosed ==
  /\ pc \in {"returned", "skipped"} => ~fd
  /\ pc \in {"connect", "send", "header", "body"} => fd

\* Success is reported only for a configuration that the sensor took over, as
\* long as the part of the body with the return code arrived.
SuccessIsApplied ==
  rc = 0 => applied \/ reply.code_at >= got

\* A refusal (-6, -7, -8) is reported only if the sensor refused, however the
\* connection broke: a cut answer is never taken for a refusal.
RefusalIsReal == rc \in {-6, -7, -8} => Answered /\ ~applied

\* The constructor does not hang in configure_streams.
CallReturns == <>(pc \in {"returned", "skipped"})

\* "Config API reports validation failures in JSON return_code even when the
\* SOME/IP header rc is OK." (config_client.cpp:232): a failure it reports is
\* not returned as success.
FailureReported == rc = 0 => reply.code # "error"
=============================================================================
