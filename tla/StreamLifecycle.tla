--------------------------- MODULE StreamLifecycle ---------------------------
(***************************************************************************)
(* The receivers' connections over the life of the node: the constructor   *)
(* connects them and starts the threads, the RDI/SHI/SPI threads receive   *)
(* and reconnect, and the destructor closes the receivers under the        *)
(* threads' feet and then joins them (afi920_node.cpp,                     *)
(* tcp_stream_client.cpp, udp_receiver.cpp).                               *)
(*                                                                         *)
(* A step is one access to a variable that another thread may use:         *)
(* running_, and running_, open_ and socket_fd_ of each client; socket_fd_ *)
(* is a plain int, read anew at every use, as the code does.  The process  *)
(* descriptor table is shared by all: close() frees a number and socket()  *)
(* of any thread may get it next.                                          *)
(*                                                                         *)
(* close() does not wake a thread that is blocked in recv() on Linux; the  *)
(* call goes on with the connection it started on.                         *)
(***************************************************************************)
EXTENDS Integers, FiniteSets

CONSTANTS
  NStreams,            \* RDI is stream 1, then SHI and SPI
  Fds,                 \* descriptor numbers the process can have
  ReadChunks,          \* bound: recv() calls that recv_exact needs at most
  kMinReconnectDelay,  \* 1000 ms
  kMaxReconnectDelay   \* 30000 ms

Streams == 1 .. NStreams
NoFd    == -1          \* socket_fd_ when there is no socket
Free    == 0           \* owner of an unused descriptor

ASSUME LifecycleConstants ==
  /\ NStreams \in Nat \ {0}
  /\ Fds \subseteq Nat
  /\ ReadChunks \in Nat \ {0}
  /\ kMinReconnectDelay \in Nat \ {0}
  /\ kMaxReconnectDelay \in Nat /\ kMinReconnectDelay <= kMaxReconnectDelay

VARIABLES
  transport_mode,      \* "tcp" or "udp"
  enabled,             \* streams the publish_* parameters ask for
  main, at,            \* where the node's own thread is, and at which stream
  running,             \* the node's running_
  client_running, open, socket_fd, reconnect_delay,   \* per receiver
  pc,                  \* where the stream's thread is
  have, part,          \* recv_exact: chunks read, of the header or the body
  reading,             \* owner of the connection recv() is blocked on
  new_fd,              \* Connect's local descriptor
  sock                 \* the descriptor table: owner of each number

params  == <<transport_mode, enabled>>
client  == <<client_running, open, socket_fd, reconnect_delay>>
thread  == <<pc, have, part, reading, new_fd>>
vars    == <<params, main, at, running, client, thread, sock>>

MainLabels == {"connect", "up", "close_running", "close_open", "close_test",
               "close_fd", "close_clear", "join", "destroy", "done"}
Labels == {"none", "loop", "enter", "recv", "blocked", "fail", "process",
           "rc_running", "rc_test", "rc_close", "rc_clear", "rc_open", "sleep",
           "connecting", "store", "opened", "exit"}

Init ==
  /\ transport_mode \in {"tcp", "udp"}
  /\ enabled \in {S \in SUBSET Streams : 1 \in S}
  /\ main = "connect" /\ at = 1 /\ running = FALSE
  /\ client_running = [s \in Streams |-> TRUE]
  /\ open = [s \in Streams |-> FALSE]
  /\ socket_fd = [s \in Streams |-> NoFd]
  /\ reconnect_delay = [s \in Streams |-> kMinReconnectDelay]
  /\ pc = [s \in Streams |-> "none"]
  /\ have = [s \in Streams |-> 0] /\ part = [s \in Streams |-> "header"]
  /\ reading = [s \in Streams |-> Free]
  /\ new_fd = [s \in Streams |-> NoFd]
  /\ sock = [f \in Fds |-> Free]

tcp == transport_mode = "tcp"

\* The descriptor table after close(f): EBADF when f is not open.
Closed(f) == [g \in Fds |-> IF g = f THEN Free ELSE sock[g]]

Goto(s, label) == pc' = [pc EXCEPT ![s] = label]

-----------------------------------------------------------------------------
(* The receiver threads                                                    *)

\* while (running_.load())
LoopTest(s) ==
  /\ pc[s] = "loop"
  /\ Goto(s, IF running THEN "enter" ELSE "exit")
  /\ UNCHANGED <<params, main, at, running, client, have, part, reading,
                 new_fd, sock>>

\* The first test of Receive: TCP looks at open_, UDP at socket_fd_.
Receive(s) ==
  /\ pc[s] = "enter"
  /\ Goto(s, IF tcp THEN IF open[s] THEN "recv" ELSE "rc_running"
                    ELSE IF socket_fd[s] # NoFd THEN "recv" ELSE "loop")
  /\ have' = [have EXCEPT ![s] = 0] /\ part' = [part EXCEPT ![s] = "header"]
  /\ UNCHANGED <<params, main, at, running, client, reading, new_fd, sock>>

\* recv(socket_fd_, ...) begins: on a connection, or with EBADF.
Recv(s) ==
  LET owner == IF socket_fd[s] = NoFd THEN Free ELSE sock[socket_fd[s]]
  IN  /\ pc[s] = "recv"
      /\ IF owner = Free THEN Goto(s, IF tcp THEN "fail" ELSE "loop")
                         ELSE Goto(s, "blocked")
      /\ reading' = [reading EXCEPT ![s] = owner]
      /\ UNCHANGED <<params, main, at, running, client, have, part, new_fd, sock>>

\* recv() returned data.  A full TCP header leads to the body, to the error
\* return for a message larger than the buffer, or to the end of the message
\* when its length field is 0.
RecvData(s, k) ==
  /\ pc[s] = "blocked"
  /\ IF ~tcp
     THEN k = 1 /\ Goto(s, "process") /\ UNCHANGED <<have, part>>
     ELSE /\ have[s] + k <= ReadChunks
          /\ \/ /\ have[s] + k < ReadChunks
                /\ have' = [have EXCEPT ![s] = @ + k]
                /\ Goto(s, "recv") /\ UNCHANGED part
             \/ /\ have[s] + k = ReadChunks /\ part[s] = "header"
                /\ have' = [have EXCEPT ![s] = 0]
                /\ part' = [part EXCEPT ![s] = "body"]
                /\ \E l \in {"recv", "process", "fail"} : Goto(s, l)
             \/ /\ have[s] + k = ReadChunks /\ part[s] = "body"
                /\ Goto(s, "process") /\ UNCHANGED <<have, part>>
  /\ reading' = [reading EXCEPT ![s] = Free]
  /\ UNCHANGED <<params, main, at, running, client, new_fd, sock>>

\* recv() failed or the peer closed the connection (keepalive included); a
\* UDP socket also returns on its SO_RCVTIMEO of 1 s.
RecvFails(s) ==
  /\ pc[s] = "blocked"
  /\ Goto(s, IF tcp THEN "fail" ELSE "loop")
  /\ reading' = [reading EXCEPT ![s] = Free]
  /\ UNCHANGED <<params, main, at, running, client, have, part, new_fd, sock>>

\* open_ = false; return -1
ReceiveFails(s) ==
  /\ pc[s] = "fail"
  /\ open' = [open EXCEPT ![s] = FALSE]
  /\ Goto(s, "loop")
  /\ UNCHANGED <<params, main, at, running, client_running, socket_fd,
                 reconnect_delay, have, part, reading, new_fd, sock>>

\* process_*_datagram (RdiReceive)
Process(s) ==
  /\ pc[s] = "process"
  /\ Goto(s, "loop")
  /\ UNCHANGED <<params, main, at, running, client, have, part, reading,
                 new_fd, sock>>

-----------------------------------------------------------------------------
(* TcpStreamClient::try_reconnect                                          *)

RcRunning(s) ==
  /\ pc[s] = "rc_running"
  /\ Goto(s, IF client_running[s] THEN "rc_test" ELSE "loop")
  /\ UNCHANGED <<params, main, at, running, client, have, part, reading,
                 new_fd, sock>>

RcTest(s) ==
  /\ pc[s] = "rc_test"
  /\ Goto(s, IF socket_fd[s] # NoFd THEN "rc_close" ELSE "rc_open")
  /\ UNCHANGED <<params, main, at, running, client, have, part, reading,
                 new_fd, sock>>

RcClose(s) ==
  /\ pc[s] = "rc_close"
  /\ sock' = Closed(socket_fd[s])
  /\ Goto(s, "rc_clear")
  /\ UNCHANGED <<params, main, at, running, client, have, part, reading, new_fd>>

\* Mutant of RcClear: socket_fd_ keeps the closed number.
RcClearForgets(s) ==
  /\ pc[s] = "rc_clear"
  /\ Goto(s, "rc_open")
  /\ UNCHANGED <<params, main, at, running, client, have, part, reading,
                 new_fd, sock>>

RcClear(s) ==
  /\ pc[s] = "rc_clear"
  /\ socket_fd' = [socket_fd EXCEPT ![s] = NoFd]
  /\ Goto(s, "rc_open")
  /\ UNCHANGED <<params, main, at, running, client_running, open,
                 reconnect_delay, have, part, reading, new_fd, sock>>

RcOpen(s) ==
  /\ pc[s] = "rc_open"
  /\ open' = [open EXCEPT ![s] = FALSE]
  /\ Goto(s, "sleep")
  /\ UNCHANGED <<params, main, at, running, client_running, socket_fd,
                 reconnect_delay, have, part, reading, new_fd, sock>>

\* Mutant of Backoff: the delay is doubled without the cap.
BackoffUncapped(s) ==
  reconnect_delay' = [reconnect_delay EXCEPT ![s] = 2 * @]

Backoff(s) ==
  LET twice == 2 * reconnect_delay[s]
  IN  reconnect_delay' = [reconnect_delay EXCEPT ![s] =
        IF twice < kMaxReconnectDelay THEN twice ELSE kMaxReconnectDelay]

\* The sleep is over and Connect begins: socket_fd_ is -1 here, so it only
\* asks for a socket.
GetsSocket(s) ==
  /\ pc[s] = "sleep"
  /\ \E f \in Fds : /\ sock[f] = Free
                    /\ sock' = [sock EXCEPT ![f] = s]
                    /\ new_fd' = [new_fd EXCEPT ![s] = f]
  /\ Goto(s, "connecting")
  /\ UNCHANGED <<params, main, at, running, client, have, part, reading>>

\* socket() fails: the rest of the process uses descriptors too.
GetsNoSocket(s) ==
  /\ pc[s] = "sleep"
  /\ Backoff(s) /\ Goto(s, "loop")
  /\ UNCHANGED <<params, main, at, running, client_running, open, socket_fd,
                 have, part, reading, new_fd, sock>>

\* Mutant of ConnectFails: the error return does not close new_fd.
ConnectFailsLeaks(s) ==
  /\ pc[s] = "connecting"
  /\ new_fd' = [new_fd EXCEPT ![s] = NoFd]
  /\ Backoff(s) /\ Goto(s, "loop")
  /\ UNCHANGED <<params, main, at, running, client_running, open, socket_fd,
                 have, part, reading, sock>>

\* Mutant of ConnectFails: the thread gives up.
ConnectFailsForGood(s) ==
  /\ pc[s] = "connecting"
  /\ sock' = Closed(new_fd[s])
  /\ new_fd' = [new_fd EXCEPT ![s] = NoFd]
  /\ Goto(s, "exit")
  /\ UNCHANGED <<params, main, at, running, client, have, part, reading>>

\* Refused, unreachable or not connected within connect_timeout_ms.
ConnectFails(s) ==
  /\ pc[s] = "connecting"
  /\ sock' = Closed(new_fd[s])
  /\ new_fd' = [new_fd EXCEPT ![s] = NoFd]
  /\ Backoff(s) /\ Goto(s, "loop")
  /\ UNCHANGED <<params, main, at, running, client_running, open, socket_fd,
                 have, part, reading>>

ConnectOk(s) ==
  /\ pc[s] = "connecting"
  /\ Goto(s, "store")
  /\ UNCHANGED <<params, main, at, running, client, have, part, reading,
                 new_fd, sock>>

\* socket_fd_ = new_fd; configure_socket()
ConnectStores(s) ==
  /\ pc[s] = "store"
  /\ socket_fd' = [socket_fd EXCEPT ![s] = new_fd[s]]
  /\ new_fd' = [new_fd EXCEPT ![s] = NoFd]
  /\ Goto(s, "opened")
  /\ UNCHANGED <<params, main, at, running, client_running, open,
                 reconnect_delay, have, part, reading, sock>>

\* open_ = true; reconnect_delay_ms_ = kMinReconnectDelay; return 0
ConnectDone(s) ==
  /\ pc[s] = "opened"
  /\ open' = [open EXCEPT ![s] = TRUE]
  /\ reconnect_delay' = [reconnect_delay EXCEPT ![s] = kMinReconnectDelay]
  /\ Goto(s, "loop")
  /\ UNCHANGED <<params, main, at, running, client_running, socket_fd, have,
                 part, reading, new_fd, sock>>

-----------------------------------------------------------------------------
(* The node's constructor and destructor                                   *)

\* Connect of receiver `at`, before any thread runs; a failure is only logged.
CtorConnect ==
  /\ main = "connect" /\ at \in Streams
  /\ at' = at + 1
  /\ \/ /\ at \in enabled
        /\ \E f \in Fds : /\ sock[f] = Free
                          /\ sock' = [sock EXCEPT ![f] = at]
                          /\ socket_fd' = [socket_fd EXCEPT ![at] = f]
                          /\ open' = [open EXCEPT ![at] = tcp]
     \/ UNCHANGED <<sock, socket_fd, open>>
  /\ UNCHANGED <<params, main, running, client_running, reconnect_delay, thread>>

IsOpen(s) == IF tcp THEN open[s] ELSE socket_fd[s] # NoFd

\* A thread for every receiver that is open; none, and running_ left false,
\* when all failed.
CtorStart ==
  /\ main = "connect" /\ at \notin Streams
  /\ running' = (\E s \in Streams : IsOpen(s))
  /\ pc' = [s \in Streams |-> IF IsOpen(s) THEN "loop" ELSE "none"]
  /\ main' = "up"
  /\ UNCHANGED <<params, at, client, have, part, reading, new_fd, sock>>

\* ~Afi920Node: Close each receiver in turn, ...
FirstOfClose == IF tcp THEN "close_running" ELSE "close_test"

\* Mutant of DtorBegins: running_ is left set.
DtorKeepsRunning ==
  /\ main = "up"
  /\ main' = FirstOfClose /\ at' = 1
  /\ UNCHANGED <<params, running, client, thread, sock>>

DtorBegins ==
  /\ main = "up"
  /\ running' = FALSE
  /\ main' = FirstOfClose /\ at' = 1
  /\ UNCHANGED <<params, client, thread, sock>>

CloseNext ==
  IF at < NStreams THEN main' = FirstOfClose /\ at' = at + 1
                   ELSE main' = "join" /\ at' = 1

CloseRunning ==
  /\ main = "close_running"
  /\ client_running' = [client_running EXCEPT ![at] = FALSE]
  /\ main' = "close_open"
  /\ UNCHANGED <<params, at, running, open, socket_fd, reconnect_delay,
                 thread, sock>>

CloseOpen ==
  /\ main = "close_open"
  /\ open' = [open EXCEPT ![at] = FALSE]
  /\ main' = "close_test"
  /\ UNCHANGED <<params, at, running, client_running, socket_fd,
                 reconnect_delay, thread, sock>>

CloseTest ==
  /\ main = "close_test"
  /\ IF socket_fd[at] # NoFd THEN main' = "close_fd" /\ UNCHANGED at
                             ELSE CloseNext
  /\ UNCHANGED <<params, running, client, thread, sock>>

CloseFd ==
  /\ main = "close_fd"
  /\ sock' = Closed(socket_fd[at])
  /\ main' = "close_clear"
  /\ UNCHANGED <<params, at, running, client, thread>>

CloseClear ==
  /\ main = "close_clear"
  /\ socket_fd' = [socket_fd EXCEPT ![at] = NoFd]
  /\ CloseNext
  /\ UNCHANGED <<params, running, client_running, open, reconnect_delay,
                 thread, sock>>

\* ... then join each thread in turn, ...
Join ==
  /\ main = "join" /\ pc[at] \in {"none", "exit"}
  /\ IF at < NStreams THEN at' = at + 1 /\ UNCHANGED main
                      ELSE main' = "destroy" /\ UNCHANGED at
  /\ UNCHANGED <<params, running, client, thread, sock>>

\* ... and the receivers' own destructors close what is open by then.
Destroy ==
  /\ main = "destroy"
  /\ sock' = [f \in Fds |-> IF \E s \in Streams : socket_fd[s] = f
                            THEN Free ELSE sock[f]]
  /\ socket_fd' = [s \in Streams |-> NoFd]
  /\ client_running' = [s \in Streams |-> client_running[s] /\ ~tcp]
  /\ open' = [s \in Streams |-> FALSE]
  /\ main' = "done"
  /\ UNCHANGED <<params, at, running, reconnect_delay, thread>>

-----------------------------------------------------------------------------
MainStep == \/ CtorConnect \/ CtorStart
            \/ CloseRunning \/ CloseOpen \/ CloseTest \/ CloseFd \/ CloseClear
            \/ Join \/ Destroy

\* What a thread does without the peer.
LocalStep(s) ==
  \/ LoopTest(s) \/ Receive(s) \/ Recv(s) \/ ReceiveFails(s) \/ Process(s)
  \/ RcRunning(s) \/ RcTest(s) \/ RcClose(s) \/ RcClear(s) \/ RcOpen(s)
  \/ GetsSocket(s) \/ GetsNoSocket(s) \/ ConnectFails(s) \/ ConnectOk(s)
  \/ ConnectStores(s) \/ ConnectDone(s)

RecvReturns(s) == RecvFails(s) \/ \E k \in 1 .. ReadChunks : RecvData(s, k)

Next == \/ MainStep \/ DtorBegins
        \/ \E s \in Streams : LocalStep(s) \/ RecvReturns(s)

Spec == Init /\ [][Next]_vars

\* Every thread keeps running; sleeps and connects end, by their time limits;
\* a UDP recv returns by its time limit.  DtorBegins is under no obligation.
SilentPeerSpec ==
  /\ Spec
  /\ WF_vars(MainStep)
  /\ \A s \in Streams : /\ WF_vars(LocalStep(s))
                        /\ WF_vars(~tcp /\ RecvReturns(s))

\* Besides: a TCP peer sends or drops the connection, now and then, and a
\* thread that asks again and again gets a socket and is accepted.
FairSpec ==
  /\ SilentPeerSpec
  /\ \A s \in Streams : /\ WF_vars(RecvReturns(s))
                        /\ SF_vars(GetsSocket(s)) /\ SF_vars(ConnectOk(s))

-----------------------------------------------------------------------------
(* Properties                                                              *)

TypeOK ==
  /\ transport_mode \in {"tcp", "udp"} /\ enabled \in SUBSET Streams
  /\ main \in MainLabels /\ at \in 1 .. NStreams + 1
  /\ running \in BOOLEAN
  /\ client_running \in [Streams -> BOOLEAN] /\ open \in [Streams -> BOOLEAN]
  /\ socket_fd \in [Streams -> Fds \cup {NoFd}]
  /\ reconnect_delay \in [Streams -> kMinReconnectDelay .. kMaxReconnectDelay]
  /\ pc \in [Streams -> Labels]
  /\ have \in [Streams -> 0 .. ReadChunks - 1]
  /\ part \in [Streams -> {"header", "body"}]
  /\ reading \in [Streams -> Streams \cup {Free}]
  /\ new_fd \in [Streams -> Fds \cup {NoFd}]
  /\ sock \in [Fds -> Streams \cup {Free}]

\* Until the destructor begins, and through any number of drops, reconnects
\* and reuses of descriptor numbers, a stream's thread reads from and closes
\* no connection but its own: socket_fd_ is never left naming a number that
\* another stream's socket() got.
OwnSocketOnly ==
  main = "up" => \A s \in Streams :
    /\ reading[s] \in {s, Free}
    /\ pc[s] \in {"recv", "rc_close"} => sock[socket_fd[s]] = s

\* Until the destructor begins, every descriptor in use is the one a receiver
\* holds or is about to store: reconnecting, however often it fails, leaks none.
NoDescriptorLeak ==
  main \in {"connect", "up"} => \A f \in Fds : sock[f] # Free =>
    socket_fd[sock[f]] = f \/ new_fd[sock[f]] = f

\* ~Afi920Node returns: Close and join never wait for each other, whatever
\* the threads are doing when the destructor begins.
ShutdownCompletes == (main = FirstOfClose) ~> (main = "done")

\* "Auto-reconnects on connection drop with exponential backoff"
\* (tcp_stream_client.hpp:19): a thread that finds itself without a connection
\* gets one, unless the node is destroyed first.
Reconnects ==
  \A s \in Streams :
    tcp /\ running /\ pc[s] # "none" /\ ~open[s] ~> open[s] \/ ~running

\* "Returns number of bytes received, 0 on timeout, negative on error"
\* (stream_receiver.hpp:23): every call of Receive returns.
ReceiveReturns ==
  \A s \in Streams : pc[s] = "blocked" ~> pc[s] = "loop"
=============================================================================
