------------------------ MODULE StreamLifecycleProofs ------------------------
(* Proofs about the receivers' connections, for any number of streams and  *)
(* descriptors and all other constants StreamLifecycle allows.             *)
EXTENDS StreamLifecycle, TLAPS

\* -1 is no descriptor, and no stream owns an unused one.
LEMMA Distinct == NoFd \notin Fds /\ Free \notin Streams
BY LifecycleConstants DEF NoFd, Free, Streams

-----------------------------------------------------------------------------
(* Type correctness                                                        *)

\* The parts of TypeOK that a thread's step can change.
LEMMA ThreadTypes ==
  ASSUME TypeOK, NEW s \in Streams, LocalStep(s) \/ RecvReturns(s)
  PROVE  TypeOK'
<1> USE DEF TypeOK, Goto, params, client, thread, Labels
<1>1. CASE LoopTest(s)
  BY <1>1 DEF LoopTest
<1>2. CASE Receive(s)
  BY <1>2, LifecycleConstants DEF Receive
<1>3. CASE Recv(s)
  BY <1>3 DEF Recv
<1>4. CASE RecvFails(s)
  BY <1>4 DEF RecvFails
<1>5. ASSUME NEW k \in 1 .. ReadChunks, RecvData(s, k) PROVE TypeOK'
  BY <1>5, LifecycleConstants DEF RecvData
<1>6. CASE ReceiveFails(s)
  BY <1>6 DEF ReceiveFails
<1>7. CASE Process(s)
  BY <1>7 DEF Process
<1>8. CASE RcRunning(s)
  BY <1>8 DEF RcRunning
<1>9. CASE RcTest(s)
  BY <1>9 DEF RcTest
<1>10. CASE RcClose(s)
  BY <1>10 DEF RcClose, Closed
<1>11. CASE RcClear(s)
  BY <1>11 DEF RcClear
<1>12. CASE RcOpen(s)
  BY <1>12 DEF RcOpen
<1>13. CASE GetsSocket(s)
  BY <1>13 DEF GetsSocket
<1>14. CASE GetsNoSocket(s)
  BY <1>14, LifecycleConstants DEF GetsNoSocket, Backoff
<1>15. CASE ConnectFails(s)
  BY <1>15, LifecycleConstants DEF ConnectFails, Backoff, Closed
<1>16. CASE ConnectOk(s)
  BY <1>16 DEF ConnectOk
<1>17. CASE ConnectStores(s)
  BY <1>17 DEF ConnectStores
<1>18. CASE ConnectDone(s)
  BY <1>18, LifecycleConstants DEF ConnectDone
<1> QED
  BY <1>1, <1>2, <1>3, <1>4, <1>5, <1>6, <1>7, <1>8, <1>9, <1>10, <1>11, <1>12,
     <1>13, <1>14, <1>15, <1>16, <1>17, <1>18 DEF LocalStep, RecvReturns

\* The same for the steps of the constructor and the destructor.
LEMMA MainTypes ==
  ASSUME TypeOK, MainStep \/ DtorBegins
  PROVE  TypeOK'
<1> USE DEF TypeOK, params, client, thread, MainLabels, FirstOfClose
<1>1. CASE CtorConnect
  <2>1. (at \in 1 .. NStreams + 1)'
    BY <1>1, LifecycleConstants DEF CtorConnect, Streams
  <2>2. (open \in [Streams -> BOOLEAN])'
    BY <1>1 DEF CtorConnect, tcp
  <2>3. (sock \in [Fds -> Streams \cup {Free}] /\ socket_fd \in [Streams -> Fds \cup {NoFd}])'
    BY <1>1 DEF CtorConnect
  <2> QED BY <1>1, <2>1, <2>2, <2>3 DEF CtorConnect
<1>2. CASE CtorStart
  BY <1>2 DEF CtorStart, Labels
<1>3. CASE DtorBegins
  <2>1. (at \in 1 .. NStreams + 1)'
    BY <1>3, LifecycleConstants DEF DtorBegins
  <2> QED BY <1>3, <2>1 DEF DtorBegins
<1>4. CASE CloseRunning
  BY <1>4 DEF CloseRunning
<1>5. CASE CloseOpen
  BY <1>5 DEF CloseOpen
<1>6. CASE CloseTest
  BY <1>6, LifecycleConstants DEF CloseTest, CloseNext
<1>7. CASE CloseFd
  BY <1>7 DEF CloseFd, Closed
<1>8. CASE CloseClear
  <2>1. (at \in 1 .. NStreams + 1 /\ main \in MainLabels)'
    BY <1>8, LifecycleConstants DEF CloseClear, CloseNext
  <2> QED BY <1>8, <2>1 DEF CloseClear
<1>9. CASE Join
  BY <1>9, LifecycleConstants DEF Join
<1>10. CASE Destroy
  BY <1>10 DEF Destroy
<1> QED
  BY <1>1, <1>2, <1>3, <1>4, <1>5, <1>6, <1>7, <1>8, <1>9, <1>10 DEF MainStep

\* Type correctness, from the constructor to the end of the destructor: in
\* particular the reconnect delay stays between its limits, and no thread is
\* asked for more chunks than a message has.
THEOREM StreamTypes == Spec => []TypeOK
<1>1. Init => TypeOK
  <2>1. Init => at \in 1 .. NStreams + 1
    BY LifecycleConstants DEF Init
  <2>2. Init => have \in [Streams -> 0 .. ReadChunks - 1]
    BY LifecycleConstants DEF Init
  <2>3. Init => reconnect_delay \in [Streams -> kMinReconnectDelay .. kMaxReconnectDelay]
    BY LifecycleConstants DEF Init
  <2>4. Init => open \in [Streams -> BOOLEAN] /\ client_running \in [Streams -> BOOLEAN]
    BY DEF Init
  <2>5. Init => running \in BOOLEAN /\ part \in [Streams -> {"header", "body"}]
    BY DEF Init
  <2> QED BY <2>1, <2>2, <2>3, <2>4, <2>5 DEF Init, TypeOK, MainLabels, Labels
<1>2. TypeOK /\ [Next]_vars => TypeOK'
  <2>1. TypeOK /\ UNCHANGED vars => TypeOK'
    BY DEF TypeOK, vars, params, client, thread
  <2> QED BY <2>1, ThreadTypes, MainTypes DEF Next
<1> QED BY <1>1, <1>2, PTL DEF Spec

-----------------------------------------------------------------------------
(* Descriptors, until the destructor begins                                *)

Live == main \in {"connect", "up"}

\* The number in socket_fd_ is the stream's own, except for the moment between
\* the close() and the assignment of -1, when anybody may get it, but the stream
\* itself cannot have it again.
OwnNumbers(s) ==
  /\ reading[s] \in {s, Free}
  /\ socket_fd[s] # NoFd => (sock[socket_fd[s]] = s <=> pc[s] # "rc_clear")
  /\ new_fd[s] # NoFd => sock[new_fd[s]] = s

\* What a stream holds, by where its thread is.
Holds(s) ==
  /\ new_fd[s] # NoFd <=> pc[s] \in {"connecting", "store"}
  /\ pc[s] \in {"rc_open", "sleep", "connecting", "store"} => socket_fd[s] = NoFd
  /\ pc[s] \in {"recv", "blocked", "rc_close", "rc_clear", "opened"} =>
       socket_fd[s] # NoFd
  /\ open[s] => socket_fd[s] # NoFd
  /\ pc[s] \in {"rc_running", "rc_test", "rc_close", "rc_clear"} => ~open[s]

\* Receivers the constructor has not come to hold nothing, and no thread runs.
Constructing(s) ==
  main = "connect" => pc[s] = "none" /\ (s >= at => socket_fd[s] = NoFd)

NoLeak(f) == sock[f] # Free => socket_fd[sock[f]] = f \/ new_fd[sock[f]] = f

DescriptorInv ==
  Live => /\ \A s \in Streams : OwnNumbers(s) /\ Holds(s) /\ Constructing(s)
          /\ \A f \in Fds : NoLeak(f)

\* Nothing is open when the constructor begins.
LEMMA InitDescriptors == Init => DescriptorInv
BY LifecycleConstants, Distinct DEF Init, DescriptorInv, Live, OwnNumbers, Holds,
   Constructing, NoLeak

\* A step of one thread keeps the descriptors of all streams in order.
LEMMA ThreadDescriptors ==
  ASSUME TypeOK, DescriptorInv, NEW s \in Streams, LocalStep(s) \/ RecvReturns(s)
  PROVE  DescriptorInv'
<1> SUFFICES ASSUME Live PROVE DescriptorInv'
  BY DEF LocalStep, RecvReturns, DescriptorInv, Live, LoopTest, Receive, Recv,
     RecvFails, RecvData, ReceiveFails, Process, RcRunning, RcTest, RcClose,
     RcClear, RcOpen, GetsSocket, GetsNoSocket, ConnectFails, ConnectOk,
     ConnectStores, ConnectDone
<1> USE Distinct DEF TypeOK, DescriptorInv, OwnNumbers, Holds, Constructing, NoLeak,
        Goto, params, client, thread, Live
<1>1. CASE LoopTest(s)
  BY <1>1 DEF LoopTest
<1>2. CASE Receive(s)
  BY <1>2 DEF Receive
<1>3. CASE Recv(s)
  BY <1>3 DEF Recv
<1>4. CASE RecvFails(s)
  BY <1>4 DEF RecvFails
<1>5. ASSUME NEW k \in 1 .. ReadChunks, RecvData(s, k) PROVE DescriptorInv'
  BY <1>5 DEF RecvData
<1>6. CASE ReceiveFails(s)
  BY <1>6 DEF ReceiveFails
<1>7. CASE Process(s)
  BY <1>7 DEF Process
<1>8. CASE RcRunning(s)
  BY <1>8 DEF RcRunning
<1>9. CASE RcTest(s)
  BY <1>9 DEF RcTest
<1>10. CASE RcClose(s)
  BY <1>10 DEF RcClose, Closed
<1>11. CASE RcClear(s)
  BY <1>11 DEF RcClear
<1>12. CASE RcOpen(s)
  BY <1>12 DEF RcOpen
<1>13. CASE GetsSocket(s)
  BY <1>13 DEF GetsSocket
<1>14. CASE GetsNoSocket(s)
  BY <1>14 DEF GetsNoSocket
<1>15. CASE ConnectFails(s)
  BY <1>15 DEF ConnectFails, Closed
<1>16. CASE ConnectOk(s)
  BY <1>16 DEF ConnectOk
<1>17. CASE ConnectStores(s)
  BY <1>17 DEF ConnectStores
<1>18. CASE ConnectDone(s)
  BY <1>18 DEF ConnectDone
<1> QED
  BY <1>1, <1>2, <1>3, <1>4, <1>5, <1>6, <1>7, <1>8, <1>9, <1>10, <1>11, <1>12,
     <1>13, <1>14, <1>15, <1>16, <1>17, <1>18 DEF LocalStep, RecvReturns

\* So does a step of the constructor; the destructor's first step ends the
\* node's life.
LEMMA MainDescriptors ==
  ASSUME TypeOK, DescriptorInv, MainStep \/ DtorBegins
  PROVE  DescriptorInv'
<1> USE Distinct DEF TypeOK, DescriptorInv, params, client, thread, Live
<1>1. CASE CtorConnect
  <2>1. main = "connect" /\ at \in Streams /\ socket_fd[at] = NoFd
    BY <1>1, LifecycleConstants DEF CtorConnect, Constructing, Streams
  <2>2. \A s \in Streams : pc[s] = "none"
    BY <1>1 DEF CtorConnect, Constructing
  <2>3. \A s \in Streams : OwnNumbers(s)'
    BY <1>1, <2>1, <2>2 DEF CtorConnect, OwnNumbers, Holds
  <2>4. \A s \in Streams : Holds(s)'
    BY <1>1, <2>1, <2>2 DEF CtorConnect, Holds, tcp
  <2>5. \A s \in Streams : Constructing(s)'
    <3> SUFFICES ASSUME NEW s \in Streams, s >= at + 1
                 PROVE  socket_fd'[s] = NoFd
      BY <1>1, <2>2 DEF CtorConnect, Constructing
    <3>1. s # at /\ s >= at
      BY <2>1, LifecycleConstants DEF Streams
    <3>2. socket_fd[s] = NoFd
      BY <2>1, <3>1 DEF Constructing
    <3> QED BY <1>1, <2>1, <3>1, <3>2 DEF CtorConnect
  <2>6. \A f \in Fds : NoLeak(f)'
    <3>1. \A s \in Streams : new_fd[s] = NoFd
      BY <2>1, <2>2 DEF Holds
    <3>2. ASSUME NEW f \in Fds, sock[f] # Free
          PROVE  sock[f] \in Streams \ {at} /\ socket_fd[sock[f]] = f
      BY <2>1, <3>1, <3>2 DEF NoLeak
    <3>3. CASE UNCHANGED <<sock, socket_fd>>
      BY <3>2, <3>3 DEF NoLeak
    <3>4. ASSUME NEW g \in Fds, sock' = [sock EXCEPT ![g] = at],
                 socket_fd' = [socket_fd EXCEPT ![at] = g]
          PROVE  \A f \in Fds : NoLeak(f)'
      <4> SUFFICES ASSUME NEW f \in Fds, sock'[f] # Free PROVE socket_fd'[sock'[f]] = f
        BY DEF NoLeak
      <4>1. CASE f = g
        BY <2>1, <3>4, <4>1
      <4>2. CASE f # g
        BY <2>1, <3>2, <3>4, <4>2
      <4> QED BY <4>1, <4>2
    <3> QED BY <1>1, <3>3, <3>4 DEF CtorConnect
  <2> QED BY <2>3, <2>4, <2>5, <2>6
<1>2. CASE CtorStart
  BY <1>2 DEF CtorStart, IsOpen, OwnNumbers, Holds, Constructing, NoLeak
<1>3. CASE main' \notin {"connect", "up"}
  BY <1>3
<1> QED
  BY <1>1, <1>2, <1>3 DEF MainStep, DtorBegins, FirstOfClose, CloseNext,
     CloseRunning, CloseOpen, CloseTest, CloseFd, CloseClear, Join, Destroy

\* While the node lives, the descriptor table and the receivers agree.
THEOREM DescriptorsAgree == Spec => []DescriptorInv
<1>1. TypeOK /\ DescriptorInv /\ [Next]_vars => DescriptorInv'
  <2>1. DescriptorInv /\ UNCHANGED vars => DescriptorInv'
    BY DEF DescriptorInv, vars, params, client, thread, Live, OwnNumbers, Holds,
       Constructing, NoLeak
  <2> QED BY <2>1, ThreadDescriptors, MainDescriptors DEF Next
<1> QED BY <1>1, InitDescriptors, StreamTypes, PTL DEF Spec

\* A thread reads from, and closes, no connection but its own, through any number
\* of drops and reconnects and however descriptor numbers are reused.
THEOREM ThreadsUseOwnSockets == Spec => []OwnSocketOnly
<1>1. DescriptorInv => OwnSocketOnly
  BY DEF DescriptorInv, Live, OwnNumbers, Holds, OwnSocketOnly
<1> QED BY <1>1, DescriptorsAgree, PTL

\* Reconnecting never leaks a descriptor.
THEOREM DescriptorsNotLeaked == Spec => []NoDescriptorLeak
<1>1. DescriptorInv => NoDescriptorLeak
  BY DEF DescriptorInv, Live, NoLeak, NoDescriptorLeak
<1> QED BY <1>1, DescriptorsAgree, PTL
=============================================================================
