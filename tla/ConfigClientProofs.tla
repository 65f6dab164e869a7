------------------------- MODULE ConfigClientProofs -------------------------
(* Proofs about configure_streams, for all constants ConfigClient allows.  *)
EXTENDS ConfigClient, TLAPS

\* The socket is open exactly between socket() and the close(fd) of a return.
SocketHeld == fd <=> pc \in {"connect", "send", "header", "body"}

\* The body is read only of an answer, and never beyond its announced size.
BodyIsAnswered == pc = "body" => Answered /\ got <= body_len

\* The sensor's side of the call.
AppliedByAnswer == applied <=> reply.response /\ reply.ok /\ reply.code # "error"

\* A return code that speaks for the sensor is the one of the answer that came,
\* judged by what arrived of its body.
CodeOfAnswer == rc \in {0, -6, -7, -8} => Answered /\ pc = "returned" /\ rc = ReturnCode

IInv == TypeOK /\ SocketHeld /\ BodyIsAnswered /\ AppliedByAnswer /\ CodeOfAnswer

\* The replies TLC chooses from are replies, and none of them is silence.
LEMMA ReplyFacts ==
  ASSUME NEW r \in Replies
  PROVE  r \in Reply /\ r # NoReply /\ r.body \in Nat
<1>1. r \in Reply
  BY ConfigConstants DEF Replies, Reply
<1>2. r.body \in Nat
  BY ConfigConstants DEF Replies
<1>3. r.code # "silence" /\ NoReply.code = "silence"
  BY DEF Replies, NoReply
<1>4. r # NoReply
  BY <1>3
<1> QED BY <1>1, <1>2, <1>4

\* The call begins without a socket, an answer or a return code.
LEMMA InitIInv == Init => IInv
<1>1. Init => TypeOK
  <2>1. Init => fd \in BOOLEAN /\ applied \in BOOLEAN
    BY DEF Init
  <2>2. Init => rc \in -8 .. 1 /\ sent \in 0 .. RequestChunks /\ got \in Nat /\ body_len \in 0 .. MaxBody
    BY ConfigConstants DEF Init
  <2>3. Init => reply \in Reply \cup {NoReply} /\ pc = "host"
    BY DEF Init
  <2> QED BY <2>1, <2>2, <2>3 DEF TypeOK
<1>2. Init => SocketHeld /\ BodyIsAnswered /\ CodeOfAnswer
  BY DEF Init, SocketHeld, BodyIsAnswered, CodeOfAnswer
<1>3. Init => AppliedByAnswer
  BY DEF Init, AppliedByAnswer, NoReply
<1> QED BY <1>1, <1>2, <1>3 DEF IInv

\* The return code is one of the four that judge an answer.
LEMMA ReturnCodeFacts == ReturnCode \in {0, -6, -7, -8}
BY DEF ReturnCode

\* An early return keeps the invariant, if a code that speaks for the sensor is
\* the one of its answer.
LEMMA FailsIInv ==
  ASSUME IInv, NEW code \in -8 .. 0, Fails(code),
         code \in {0, -6, -7, -8} => Answered /\ code = ReturnCode
  PROVE  IInv'
<1>1. fd' \in BOOLEAN /\ SocketHeld'
  BY DEF Fails, SocketHeld
<1>2. TypeOK'
  <2>1. applied' \in BOOLEAN /\ (reply \in Reply \cup {NoReply})' /\ pc' = "returned"
    BY DEF Fails, IInv, TypeOK
  <2>2. (rc \in -8 .. 1 /\ sent \in 0 .. RequestChunks /\ got \in Nat /\ body_len \in 0 .. MaxBody)'
    BY DEF Fails, IInv, TypeOK
  <2> QED BY <1>1, <2>1, <2>2 DEF TypeOK
<1>3. BodyIsAnswered' /\ AppliedByAnswer'
  BY DEF Fails, IInv, BodyIsAnswered, AppliedByAnswer
<1>4. CodeOfAnswer'
  BY DEF Fails, CodeOfAnswer, Answered, ReturnCode, JsonError
<1> QED BY <1>1, <1>2, <1>3, <1>4 DEF IInv

\* Every step of the call and of the sensor keeps the invariant.
LEMMA NextIInv == IInv /\ [Next]_vars => IInv'
<1> SUFFICES ASSUME IInv, [Next]_vars PROVE IInv'
  OBVIOUS
<1> USE ConfigConstants DEF IInv, SocketHeld, BodyIsAnswered, AppliedByAnswer,
        CodeOfAnswer, Answered, ReturnCode, JsonError
<1>1. CASE DetectHost
  BY <1>1 DEF DetectHost, TypeOK
<1>2. CASE Socket
  <2>1. rc' \in -8 .. 1 /\ SocketHeld' /\ CodeOfAnswer'
    BY <1>2 DEF Socket, TypeOK
  <2>2. fd' \in BOOLEAN
    BY <1>2 DEF Socket, TypeOK
  <2>3. TypeOK'
    BY <1>2, <2>1, <2>2 DEF Socket, TypeOK
  <2> QED BY <1>2, <2>1, <2>3 DEF Socket
<1>3. CASE Connect
  BY <1>3 DEF Connect, TypeOK
<1>4. CASE ConnectFails
  BY <1>4, FailsIInv DEF ConnectFails
<1>5. ASSUME NEW k \in 1 .. RequestChunks, Send(k) PROVE IInv'
  BY <1>5 DEF Send, TypeOK
<1>6. CASE SendFails
  BY <1>6, FailsIInv DEF SendFails
<1>7. ASSUME NEW r \in Replies, SensorReplies(r) PROVE IInv'
  BY <1>7, ReplyFacts DEF SensorReplies, TypeOK
<1>8. ASSUME NEW k \in 1 .. HeaderChunks, RecvHeader(k) PROVE IInv'
  <2>1. reply \in Reply /\ reply.body \in Nat
    BY <1>8 DEF RecvHeader, TypeOK, Reply
  <2> QED
    BY <1>8, <2>1 DEF RecvHeader, TypeOK
<1>9. CASE HeaderFails
  BY <1>9, FailsIInv DEF HeaderFails
<1>10. ASSUME NEW k \in 1 .. MaxBody, RecvBody(k) PROVE IInv'
  BY <1>10 DEF RecvBody, TypeOK
<1>11. CASE BodyEnds
  BY <1>11, ReturnCodeFacts, FailsIInv DEF BodyEnds
<1>12. CASE UNCHANGED vars
  BY <1>12 DEF vars, TypeOK
<1> QED
  BY <1>1, <1>2, <1>3, <1>4, <1>5, <1>6, <1>7, <1>8, <1>9, <1>10, <1>11, <1>12
     DEF Next

\* Every reachable state satisfies the inductive invariant.
THEOREM ConfigClientInvariant == Spec => []IInv
BY InitIInv, NextIInv, PTL DEF Spec

\* Type correctness of configure_streams, for requests, answers and body limits
\* of every size: in particular no more of a body is asked for than MaxBody.
THEOREM ConfigClientTypes == Spec => []TypeOK
<1>1. IInv => TypeOK
  BY DEF IInv
<1> QED BY <1>1, ConfigClientInvariant, PTL

\* However the call ends, its socket is closed by then and open until then.
THEOREM CallClosesSocket == Spec => []SocketClosed
<1>1. IInv => SocketClosed
  BY DEF IInv, SocketHeld, SocketClosed
<1> QED BY <1>1, ConfigClientInvariant, PTL

\* Success is the sensor's, unless its verdict was cut off with the body.
THEOREM SuccessIsSensors == Spec => []SuccessIsApplied
<1>1. IInv => SuccessIsApplied
  <2> SUFFICES ASSUME IInv, rc = 0, reply.code_at < got
               PROVE  applied
    <3>1. ASSUME IInv, rc = 0 PROVE reply.code_at \in Nat /\ got \in Nat
      BY <3>1 DEF IInv, TypeOK, CodeOfAnswer, Answered, Reply
    <3> QED BY <3>1 DEF SuccessIsApplied
  <2>1. reply.response /\ reply.ok /\ ~JsonError
    BY DEF IInv, CodeOfAnswer, ReturnCode
  <2> QED BY <2>1 DEF IInv, AppliedByAnswer, JsonError
<1> QED BY <1>1, ConfigClientInvariant, PTL

\* A refusal is the sensor's, never the effect of a broken connection.
THEOREM RefusalIsSensors == Spec => []RefusalIsReal
<1>1. IInv => RefusalIsReal
  <2> SUFFICES ASSUME IInv, rc \in {-6, -7, -8} PROVE Answered /\ ~applied
    BY DEF RefusalIsReal
  <2>1. Answered /\ rc = ReturnCode
    BY DEF IInv, CodeOfAnswer
  <2>2. ~reply.response \/ ~reply.ok \/ JsonError
    BY <2>1 DEF ReturnCode
  <2> QED BY <2>1, <2>2 DEF IInv, AppliedByAnswer, JsonError
<1> QED BY <1>1, ConfigClientInvariant, PTL
=============================================================================
