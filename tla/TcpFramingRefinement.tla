------------------------ MODULE TcpFramingRefinement ------------------------
(* Every step of TcpStreamClient's receive loop is a step of the message   *)
(* channel of FrameChannel, or none of its business.                       *)
EXTENDS TcpFramingProofs

-----------------------------------------------------------------------------
(* The messages that end in a stream                                       *)

Ends(S, n, lens) ==
  {m \in 1 .. Len(lens) : \E p \in 1 .. n : S[p] = <<m, H + lens[m]>>}

\* A message that is sent behind a stream ends there, the others where they did.
LEMMA SentEnds ==
  ASSUME NEW n \in Nat, NEW S, NEW lens, Sizes(lens), NEW l \in Nat, NEW T,
         InOrder(S, n, lens), SentBehind(T, S, n, lens, l)
  PROVE  Ends(T, n + H + l, Append(lens, l)) = Ends(S, n, lens) \cup {Len(lens) + 1}
<1> DEFINE more == Append(lens, l)
           N == n + H + l
<1> USE HType
<1>1. /\ Len(more) = Len(lens) + 1 /\ more[Len(lens) + 1] = l /\ Len(lens) \in Nat
      /\ \A i \in 1 .. Len(lens) : more[i] = lens[i]
  BY DEF Sizes
<1> HIDE DEF more
<1>2. N \in Nat /\ \A p \in 1 .. n : p \in 1 .. N /\ T[p] = S[p]
  BY DEF SentBehind
<1>3. ASSUME NEW m \in 1 .. Len(more), NEW p \in 1 .. N, T[p] = <<m, H + more[m]>>
      PROVE  m \in Ends(S, n, lens) \cup {Len(lens) + 1}
  <2>1. CASE p <= n
    <3>1. p \in 1 .. n /\ S[p] = <<m, H + more[m]>> /\ OfMessages(S[p], lens)
      BY <1>2, <1>3, <2>1 DEF InOrder
    <3>2. m \in 1 .. Len(lens)
      BY <3>1 DEF OfMessages
    <3> QED BY <1>1, <3>1, <3>2 DEF Ends
  <2>2. CASE p > n
    <3>1. p \in n + 1 .. N
      BY <1>2, <2>2
    <3>2. T[p] = <<Len(lens) + 1, p - n>>
      BY <3>1 DEF SentBehind
    <3> QED BY <1>3, <3>2
  <2> QED BY <2>1, <2>2
<1>4. ASSUME NEW m \in Ends(S, n, lens)
      PROVE  m \in 1 .. Len(more) /\ \E p \in 1 .. N : T[p] = <<m, H + more[m]>>
  <2>1. m \in 1 .. Len(lens) /\ \E p \in 1 .. n : S[p] = <<m, H + lens[m]>>
    BY DEF Ends
  <2> QED BY <1>1, <1>2, <2>1
<1>5. T[N] = <<Len(lens) + 1, H + more[Len(lens) + 1]>> /\ N \in 1 .. N
  <2>1. N \in n + 1 .. N /\ N - n = H + l /\ N \in 1 .. N
    BY <1>2
  <2>2. T[N] = <<Len(lens) + 1, N - n>>
    BY <2>1 DEF SentBehind
  <2> QED BY <1>1, <2>1, <2>2
<1> HIDE DEF N
<1>6. Ends(T, N, more) = Ends(S, n, lens) \cup {Len(lens) + 1}
  <2>1. Ends(T, N, more) \subseteq Ends(S, n, lens) \cup {Len(lens) + 1}
    BY <1>3 DEF Ends
  <2>2. Ends(S, n, lens) \subseteq Ends(T, N, more)
    BY <1>4 DEF Ends
  <2>3. Len(lens) + 1 \in Ends(T, N, more)
    BY <1>1, <1>5 DEF Ends
  <2> QED BY <2>1, <2>2, <2>3
<1> QED BY <1>6 DEF N, more

\* When the end of a stream is lost, so are the messages from one on that ends there.
LEMMA CutEnds ==
  ASSUME NEW n \in Nat, NEW S, NEW lens, Sizes(lens), NEW m \in 0 .. n, NEW T,
         InOrder(S, n, lens), Behind(T, S, m, 0)
  PROVE  \E k \in 1 .. Len(lens) + 1 :
           Ends(T, m, lens) = {i \in Ends(S, n, lens) : i < k}
<1>1. \A p \in 1 .. m : p \in 1 .. n /\ T[p] = S[p]
  BY DEF Behind
<1>2. Len(lens) \in Nat
  BY DEF Sizes
<1>3. CASE m = n
  <2>1. Ends(T, m, lens) = Ends(S, n, lens)
    BY <1>1, <1>3 DEF Ends
  <2>2. \A i \in Ends(S, n, lens) : i < Len(lens) + 1
    BY <1>2 DEF Ends
  <2>3. Ends(T, m, lens) = {i \in Ends(S, n, lens) : i < Len(lens) + 1}
    BY <2>1, <2>2
  <2> QED BY <1>2, <2>3
<1>4. CASE m < n
  <2> DEFINE k == S[m + 1][1]
  <2>1. m + 1 \in 1 .. n /\ OfMessages(S[m + 1], lens) /\ k \in 1 .. Len(lens) /\ k \in Nat
    <3>1. m + 1 \in 1 .. n
      BY <1>4
    <3>2. OfMessages(S[m + 1], lens)
      BY <3>1 DEF InOrder
    <3> QED BY <3>1, <3>2, CellFacts DEF OfMessages
  <2>2. ASSUME NEW i \in 1 .. Len(lens), NEW p \in 1 .. n, S[p] = <<i, H + lens[i]>>
        PROVE  p <= m <=> i < k
    <3>1. S[p][1] = i /\ IsLast(S[p], lens) /\ i \in Nat
      BY <1>2, <2>2 DEF IsLast
    <3>2. CASE p <= m
      <4>1. p < m + 1
        BY <3>2
      <4>2. S[p][1] < k
        BY <2>1, <3>1, <4>1 DEF InOrder
      <4> QED BY <3>1, <3>2, <4>2
    <3>3. CASE ~(p <= m)
      <4>1. m + 1 <= p
        BY <3>3
      <4>2. k <= S[p][1]
        BY <2>1, <4>1 DEF InOrder
      <4>3. ~(i < k)
        BY <2>1, <3>1, <4>2
      <4> QED BY <3>3, <4>3
    <3> QED BY <3>2, <3>3
  <2>3. Ends(T, m, lens) = {i \in Ends(S, n, lens) : i < k}
    <3>1. ASSUME NEW i \in Ends(T, m, lens) PROVE i \in Ends(S, n, lens) /\ i < k
      <4>1. i \in 1 .. Len(lens)
        BY DEF Ends
      <4>2. PICK p \in 1 .. m : T[p] = <<i, H + lens[i]>>
        BY DEF Ends
      <4>3. p \in 1 .. n /\ S[p] = <<i, H + lens[i]>> /\ p <= m
        BY <1>1, <4>2
      <4> HIDE DEF k
      <4> QED BY <2>2, <4>1, <4>3 DEF Ends
    <3>2. ASSUME NEW i \in Ends(S, n, lens), i < k PROVE i \in Ends(T, m, lens)
      <4>1. i \in 1 .. Len(lens)
        BY DEF Ends
      <4>2. PICK p \in 1 .. n : S[p] = <<i, H + lens[i]>>
        BY DEF Ends
      <4>3. p <= m
        BY <2>2, <3>2, <4>1, <4>2
      <4>4. p \in 1 .. m /\ T[p] = S[p]
        BY <1>1, <4>3
      <4> QED BY <4>1, <4>2, <4>4 DEF Ends
    <3> HIDE DEF k
    <3> QED BY <3>1, <3>2
  <2>4. k \in 1 .. Len(lens) + 1
    BY <1>2, <2>1
  <2> HIDE DEF k
  <2> QED BY <2>3, <2>4
<1> QED BY <1>3, <1>4

\* When the first message is taken off, the others still end.
LEMMA DropEnds ==
  ASSUME NEW n \in Nat, NEW S, NEW lens, Sizes(lens), InOrder(S, n, lens),
         NEW e \in 1 .. n, NEW m \in 1 .. Len(lens), S[1][1] = m, S[e] = <<m, H + lens[m]>>,
         NEW T, Behind(T, S, n - e, e)
  PROVE  Ends(T, n - e, lens) = Ends(S, n, lens) \ {m}
<1>1. Len(lens) \in Nat /\ S[e][1] = m /\ IsLast(S[e], lens) /\ 1 \in 1 .. n
  BY DEF Sizes, IsLast
<1>2. ASSUME NEW i \in Ends(T, n - e, lens) PROVE i \in Ends(S, n, lens) \ {m}
  <2>1. i \in 1 .. Len(lens)
    BY DEF Ends
  <2>2. PICK p \in 1 .. n - e : T[p] = <<i, H + lens[i]>>
    BY DEF Ends
  <2>3. p + e \in 1 .. n /\ S[p + e] = <<i, H + lens[i]>> /\ e < p + e
    BY <2>2 DEF Behind
  <2>4. S[e][1] < S[p + e][1]
    BY <1>1, <2>3 DEF InOrder
  <2>5. i # m
    BY <1>1, <2>1, <2>3, <2>4
  <2> QED BY <2>1, <2>3, <2>5 DEF Ends
<1>3. ASSUME NEW i \in Ends(S, n, lens) \ {m} PROVE i \in Ends(T, n - e, lens)
  <2>1. i \in 1 .. Len(lens) /\ i # m
    BY DEF Ends
  <2>2. PICK p \in 1 .. n : S[p] = <<i, H + lens[i]>>
    BY DEF Ends
  <2>3. ~(p <= e)
    <3> SUFFICES ASSUME p <= e PROVE FALSE
      OBVIOUS
    <3>1. S[1][1] <= S[p][1] /\ S[p][1] <= S[e][1]
      BY <1>1 DEF InOrder
    <3>2. m <= i /\ i <= m
      BY <1>1, <2>2, <3>1
    <3> QED BY <1>1, <2>1, <3>2
  <2>4. p - e \in 1 .. n - e /\ (p - e) + e = p
    BY <2>3
  <2>5. T[p - e] = S[p]
    BY <2>4 DEF Behind
  <2> QED BY <2>1, <2>2, <2>4, <2>5 DEF Ends
<1> QED BY <1>2, <1>3

-----------------------------------------------------------------------------
(* The channel's state                                                     *)

Link   == IF ~open THEN "down" ELSE IF conn = "up" THEN "up" ELSE "broken"
ToCome == IF open THEN Pending ELSE {}

\* The channel's pending messages are the ones that end in the stream.
LEMMA PendingEnds == IInv => ToCome = IF open THEN Ends(Stream, Ahead, sent) ELSE {}
<1> SUFFICES ASSUME IInv PROVE ToCome = IF open THEN Ends(Stream, Ahead, sent) ELSE {}
  OBVIOUS
<1>1. /\ Done \in Nat /\ Ahead \in Nat /\ Len(wire) \in Nat /\ Ahead = Done + Len(wire)
      /\ received \in Nat
  BY Counts DEF IInv, Ahead
<1>2. Taken = {Got(p) : p \in 1 .. Done}
  BY <1>1 DEF Taken, Got, Done
<1>3. wire \in Seq(Cell) /\ sent \in Seq(Lengths)
  BY DEF IInv, TypeOK
<1>4. DOMAIN wire = 1 .. Len(wire) /\ DOMAIN sent = 1 .. Len(sent)
  BY <1>3
<1>5. \A c : c \in Taken \cup {wire[j] : j \in DOMAIN wire}
               <=> \E p \in 1 .. Ahead : Stream[p] = c
  <2>1. ASSUME NEW p \in 1 .. Done PROVE p \in 1 .. Ahead /\ Stream[p] = Got(p)
    BY <1>1 DEF Stream
  <2>2. ASSUME NEW j \in 1 .. Len(wire) PROVE j + Done \in 1 .. Ahead /\ Stream[j + Done] = wire[j]
    <3>1. j + Done \in 1 .. Ahead /\ ~(j + Done <= Done) /\ (j + Done) - Done = j
      BY <1>1
    <3> QED BY <3>1 DEF Stream
  <2>3. ASSUME NEW p \in 1 .. Ahead
        PROVE  \/ p \in 1 .. Done /\ Stream[p] = Got(p)
               \/ p - Done \in 1 .. Len(wire) /\ Stream[p] = wire[p - Done]
    <3>1. CASE p <= Done
      BY <1>1, <3>1 DEF Stream
    <3>2. CASE ~(p <= Done)
      BY <1>1, <3>2 DEF Stream
    <3> QED BY <3>1, <3>2
  <2> QED BY <1>2, <1>4, <2>1, <2>2, <2>3
<1>6. Pending = Ends(Stream, Ahead, sent)
  BY <1>4, <1>5 DEF Pending, Ends
<1> QED BY <1>6 DEF ToCome

\* The same after a step.
LEMMA PendingEndsNext ==
  (IInv => ToCome = IF open THEN Ends(Stream, Ahead, sent) ELSE {})'
BY PendingEnds, PTL

\* The first message of the stream is the next one to come out.
LEMMA FirstIsNext ==
  ASSUME IInv, open, NEW m \in Ends(Stream, Ahead, sent)
  PROVE  Stream[1][1] <= m
<1>1. InOrder(Stream, Ahead, sent) /\ Ahead \in Nat
  BY Counts DEF IInv, StreamInv
<1>2. PICK p \in 1 .. Ahead : Stream[p] = <<m, H + sent[m]>>
  BY DEF Ends
<1>3. 1 \in 1 .. Ahead /\ 1 <= p /\ Stream[p][1] = m
  BY <1>1, <1>2
<1> QED BY <1>1, <1>3 DEF InOrder

\* Steps between two states of the connection that the channel does not see.
LEMMA SameEnds ==
  ASSUME IInv, IInv', Stream' = Stream, Ahead' = Ahead, UNCHANGED <<sent, conn, open, frames>>
  PROVE  UNCHANGED <<sent, Link, ToCome, frames>>
<1>1. ToCome' = IF open' THEN Ends(Stream', Ahead', sent') ELSE {}
  BY PendingEndsNext
<1> QED BY <1>1, PendingEnds DEF Link, Ends

-----------------------------------------------------------------------------
(* The steps                                                               *)

\* A call that has not all of its cells has not taken a whole message.
LEMMA ShortOfMessage ==
  ASSUME IInv, at \in {"header", "body"}, ~Complete, wire = <<>>
  PROVE  Ends(Stream, Ahead, sent) = {}
<1>1. /\ Sizes(sent) /\ Done \in Nat /\ Ahead = Done + Len(wire)
      /\ received \in Nat /\ length \in Nat
  BY Counts DEF IInv, Ahead
<1>2. Ahead = Done
  BY <1>1
<1>3. SUFFICES ASSUME NEW m \in 1 .. Len(sent), NEW p \in 1 .. Done,
                      Stream[p] = <<m, H + sent[m]>>
               PROVE  FALSE
  BY <1>2, <1>3 DEF Ends
<1> DEFINE n == Got(1)[1]
<1>4. /\ sent[n] \in Nat /\ Stream[p] = <<n, p>> /\ (at = "body" => length = sent[n])
  BY <1>1, TakenFacts
<1> HIDE DEF n
<1>5. p = H + sent[n]
  BY <1>3, <1>4
<1>6. ~(received >= Wanted)
  BY DEF Complete
<1>7. CASE at = "header"
  <2>1. received < H /\ Done = received
    BY <1>1, <1>6, <1>7, HType DEF Wanted, Done
  <2> QED BY <1>1, <1>4, <1>5, <2>1, HType
<1>8. CASE at = "body"
  <2>1. received < sent[n] /\ Done = H + received
    BY <1>1, <1>4, <1>6, <1>8, HType DEF Wanted, Done
  <2> QED BY <1>1, <1>4, <1>5, <2>1, HType
<1> QED BY <1>7, <1>8

\* What a message that Receive refuses is to the channel: the next one, and too
\* large, or one that the sensor's end cut off, with nothing behind it.
LEMMA RefusedMessage ==
  ASSUME IInv, Oversize
  PROVE  LET n == Stream[1][1]
         IN  /\ n \in 1 .. Len(sent) /\ ~(H + sent[n] <= BufSize) /\ open
             /\ \/ n \in Ends(Stream, Ahead, sent)
                \/ conn # "up" /\ Ends(Stream, Ahead, sent) = {}
<1> DEFINE n == Stream[1][1]
           e == H + sent[n]
<1>1. /\ TypeOK /\ Places /\ StreamInv /\ at = "header" /\ received >= Wanted
  BY DEF IInv, Oversize, Complete
<1>2. /\ Sizes(sent) /\ Done \in Nat /\ Ahead \in Nat /\ Done <= Ahead
      /\ received \in Nat /\ BufSize \in Nat
  BY <1>1, Counts
<1>3. Done = H /\ Done > 0
  BY <1>1, <1>2, HType DEF Places, Wanted, Done
<1>4. /\ n \in 1 .. Len(sent) /\ sent[n] \in Nat /\ open /\ hdr[H] = <<n, H>>
      /\ Ahead > 0
  <2>1. H \in 1 .. Done /\ Got(H) = hdr[H]
    BY <1>1, <1>3, HType DEF Got
  <2>2. /\ Stream[1] = Got(1) /\ Got(1)[1] \in 1 .. Len(sent) /\ sent[Got(1)[1]] \in Nat
        /\ open /\ Got(H) = <<Got(1)[1], H>>
    BY <1>3, <2>1, TakenFacts
  <2> QED BY <1>2, <1>3, <2>1, <2>2
<1>5. ~(H + sent[n] <= BufSize)
  <2> HIDE DEF n
  <2>1. LengthIn(hdr[H]) = {sent[n]}
    BY <1>4 DEF LengthIn
  <2>2. H + sent[n] > BufSize
    BY <2>1 DEF Oversize, TooLarge
  <2> QED BY <1>2, <1>4, <2>2, HType
<1>6. /\ InOrder(Stream, Ahead, sent)
      /\ conn = "up" => Uncut(Stream, Ahead, sent)
  BY <1>1, <1>4 DEF StreamInv
<1>7. \A p \in 1 .. Ahead : p <= e => Stream[p] = <<n, p>>
  BY <1>2, <1>4, <1>6, First
<1>8. e \in Nat /\ e > 0
  BY <1>4, HType
<1>9. CASE e <= Ahead
  <2>1. e \in 1 .. Ahead /\ e <= e
    BY <1>2, <1>8, <1>9
  <2>2. Stream[e] = <<n, e>>
    BY <1>7, <2>1
  <2>3. n \in Ends(Stream, Ahead, sent)
    <3> HIDE DEF n
    <3> QED BY <1>4, <2>1, <2>2 DEF Ends, e
  <2> QED BY <1>4, <1>5, <2>3
<1>10. CASE ~(e <= Ahead)
  <2>1. 1 \in 1 .. Ahead /\ Stream[1][2] = 1
    BY <1>2, <1>4, <1>6 DEF InOrder
  <2>2. conn # "up"
    <3> SUFFICES ASSUME conn = "up" PROVE FALSE
      OBVIOUS
    <3>1. 1 + H + sent[n] <= Ahead + 1
      BY <1>6, <2>1 DEF Uncut
    <3> HIDE DEF n
    <3> QED BY <1>2, <1>4, <1>10, <3>1, HType DEF e
  <2>3. ASSUME NEW m \in 1 .. Len(sent), NEW p \in 1 .. Ahead,
               Stream[p] = <<m, H + sent[m]>>
        PROVE  FALSE
    <3>1. p <= e
      <4> HIDE DEF e
      <4> QED BY <1>2, <1>8, <1>10
    <3>2. Stream[p] = <<n, p>>
      BY <1>7, <3>1
    <3> HIDE DEF n
    <3>3. p = e
      BY <2>3, <3>2 DEF e
    <3> HIDE DEF e
    <3> QED BY <1>2, <1>8, <1>10, <3>3
  <2> QED BY <1>4, <1>5, <2>2, <2>3 DEF Ends
<1> QED BY <1>2, <1>8, <1>9, <1>10

\* Each step of the sensor and of the thread, seen by the channel.
LEMMA StepOfChannel ==
  ASSUME IInv, IInv', [Next]_vars
  PROVE  [Channel!Next]_(Channel!vars)
<1> DEFINE Seen == <<sent, Link, ToCome, frames>>
<1>1. /\ Sizes(sent) /\ Len(sent) \in Nat /\ Done \in Nat /\ Ahead \in Nat
      /\ TypeOK /\ Places /\ StreamInv
  BY Counts DEF IInv, Sizes
<1>2. ToCome = IF open THEN Ends(Stream, Ahead, sent) ELSE {}
  BY PendingEnds
<1>3. ToCome' = IF open' THEN Ends(Stream', Ahead', sent') ELSE {}
  BY PendingEndsNext
<1>4. open => InOrder(Stream, Ahead, sent)
  BY <1>1 DEF StreamInv
<1>5. UNCHANGED Seen => UNCHANGED Channel!vars
  BY DEF Channel!vars, Link, ToCome
<1>6. ASSUME NEW l \in Lengths, Send(l) PROVE Channel!Next
  <2>1. /\ sent' = Append(sent, l) /\ conn = "up" /\ Link' = Link
        /\ open' = open /\ frames' = frames
    BY <1>6 DEF Send, client, Link
  <2>2. Ahead' = Ahead + H + l /\ SentBehind(Stream', Stream, Ahead, sent, l) /\ l \in Nat
    BY <1>6, SendIInv, FramingConstants
  <2>3. open => Ends(Stream', Ahead', sent') = Ends(Stream, Ahead, sent) \cup {Len(sent) + 1}
    BY <1>1, <1>4, <2>1, <2>2, SentEnds
  <2>4. ToCome' = IF Link = "up" THEN ToCome \cup {Len(sent) + 1} ELSE ToCome
    BY <1>2, <1>3, <2>1, <2>3 DEF Link
  <2>5. Channel!Send
    BY <2>1, <2>4 DEF Channel!Send, Link, ToCome
  <2> QED BY <2>5 DEF Channel!Next
<1>7. ASSUME NEW k \in 0 .. Len(wire), PeerEnds(k) PROVE Channel!Next \/ UNCHANGED Seen
  <2>1. /\ conn = "up" /\ conn' = "ended" /\ UNCHANGED <<sent, open, frames>>
    BY <1>7 DEF PeerEnds, client
  <2>2. CASE open
    <3>1. Ahead' \in 0 .. Ahead /\ Behind(Stream', Stream, Ahead', 0)
      BY <1>7, PeerEndsIInv
    <3>2. \E n \in 1 .. Len(sent) + 1 :
            Ends(Stream', Ahead', sent) = {i \in Ends(Stream, Ahead, sent) : i < n}
      BY <1>1, <1>4, <2>2, <3>1, CutEnds
    <3>3. \E n \in 1 .. Len(sent) + 1 : ToCome' = {i \in ToCome : i < n}
      BY <1>2, <1>3, <2>1, <2>2, <3>2
    <3>4. Channel!Break
      BY <2>1, <2>2, <3>3 DEF Channel!Break, Link, ToCome
    <3> QED BY <3>4 DEF Channel!Next
  <2>3. CASE ~open
    BY <1>2, <1>3, <2>1, <2>3 DEF Link
  <2> QED BY <2>2, <2>3
<1>8. CASE Receive
  <2>1. Done = 0 /\ Done' = 0 /\ Ahead' = Ahead
    BY <1>8 DEF Done, Ahead, Receive, net
  <2>2. Stream' = Stream
    BY <1>8, <2>1 DEF Stream, Receive, net
  <2> QED BY <1>5, <1>8, <2>1, <2>2, SameEnds DEF Receive, net
<1>9. CASE try_reconnect \/ ConnectFails
  <2>1. ~open /\ UNCHANGED <<sent, open, frames>>
    BY <1>1, <1>9 DEF Places, try_reconnect, ConnectFails, net
  <2> QED BY <1>2, <1>3, <1>5, <2>1 DEF Link
<1>10. CASE ConnectOk
  <2>1. ~open /\ open' /\ conn' = "up" /\ UNCHANGED <<sent, frames>> /\ Ahead' = 0
    BY <1>1, <1>10 DEF Places, ConnectOk, Ahead, Done
  <2>2. ToCome = {} /\ ToCome' = {}
    BY <1>2, <1>3, <2>1 DEF Ends
  <2>3. Channel!Reconnect
    BY <2>1, <2>2 DEF Channel!Reconnect, Link, ToCome
  <2> QED BY <2>3 DEF Channel!Next
<1>11. ASSUME NEW k \in 1 .. Len(wire), Recv(k) PROVE UNCHANGED Seen
  <2>1. Stream' = Stream /\ Ahead' = Ahead
    BY <1>11, RecvIInv
  <2> QED BY <1>11, <2>1, SameEnds DEF Recv
<1>12. CASE RecvFails
  <2>1. open /\ ~open' /\ conn = "ended" /\ UNCHANGED <<sent, frames>>
    BY <1>1, <1>12 DEF Places, RecvFails, net
  <2>2. ToCome = {} /\ ToCome' = {}
    BY <1>2, <1>3, <1>12, <2>1, ShortOfMessage DEF RecvFails
  <2>3. Channel!GiveUp
    BY <2>1, <2>2 DEF Channel!GiveUp, Link, ToCome
  <2> QED BY <2>3 DEF Channel!Next
<1>13. CASE Oversize
  <2> DEFINE n == Stream[1][1]
  <2>1. ~open' /\ UNCHANGED <<sent, frames>> /\ ToCome' = {}
    BY <1>3, <1>13 DEF Oversize, net
  <2>2. /\ n \in 1 .. Len(sent) /\ ~(H + sent[n] <= BufSize) /\ open
        /\ n \in ToCome \/ (conn # "up" /\ ToCome = {})
    BY <1>2, <1>13, RefusedMessage
  <2>3. \A m \in ToCome : n <= m
    BY <1>2, <2>2, FirstIsNext
  <2> HIDE DEF n
  <2>4. \/ Link = "broken" /\ ToCome = {}
        \/ \E i \in ToCome : (\A m \in ToCome : i <= m) /\ ~(H + sent[i] <= BufSize)
    BY <2>2, <2>3 DEF Link
  <2>5. Channel!GiveUp
    BY <2>1, <2>4 DEF Channel!GiveUp, Channel!IsNext, Channel!Fits, Link, ToCome
  <2> QED BY <2>5 DEF Channel!Next
<1>14. CASE HeaderRead
  <2>1. Stream' = Stream /\ Ahead' = Ahead
    BY <1>14, HeaderReadIInv
  <2> QED BY <1>5, <1>14, <2>1, SameEnds DEF HeaderRead, net
<1>15. CASE Process
  <2> DEFINE n == Stream[1][1]
  <2>1. UNCHANGED <<sent, conn, open>> /\ at = "body" /\ Complete
    BY <1>15 DEF Process, net
  <2>2. /\ n \in 1 .. Len(sent) /\ H + sent[n] <= BufSize /\ open
        /\ Stream[Done] = <<n, H + sent[n]>> /\ frames' = Append(frames, Message(n))
    <3>1. Done > 0
      BY <2>1, MessageRead
    <3>2. Stream[1] = Got(1)
      BY <3>1, TakenFacts
    <3> QED BY <1>15, <2>1, <3>2, MessageRead DEF Process
  <2>3. /\ Done \in 1 .. Ahead /\ Ahead' = Ahead - Done
        /\ Behind(Stream', Stream, Ahead', Done)
    BY <1>15, ProcessIInv
  <2>4. Ends(Stream', Ahead', sent) = Ends(Stream, Ahead, sent) \ {n}
    BY <1>1, <1>4, <2>2, <2>3, DropEnds
  <2>5. ToCome' = ToCome \ {n} /\ n \in ToCome
    BY <1>2, <1>3, <2>1, <2>2, <2>3, <2>4 DEF Ends
  <2>6. \A m \in ToCome : n <= m
    BY <1>2, <2>2, FirstIsNext
  <2> HIDE DEF n
  <2>7. Channel!IsNext(n) /\ Channel!Fits(n) /\ Channel!Message(n) = Message(n)
    BY <2>2, <2>5, <2>6 DEF Channel!IsNext, Channel!Fits, Channel!Message, Message, ToCome
  <2>8. Channel!Deliver
    BY <2>1, <2>2, <2>5, <2>7 DEF Channel!Deliver, Link, ToCome
  <2> QED BY <2>8 DEF Channel!Next
<1>16. CASE UNCHANGED vars
  <2>1. UNCHANGED Seen
    BY <1>16 DEF vars, Link, ToCome, Pending, Taken
  <2> QED BY <1>5, <2>1
<1> HIDE DEF Seen
<1> QED
  BY <1>5, <1>6, <1>7, <1>8, <1>9, <1>10, <1>11, <1>12, <1>13, <1>14, <1>15, <1>16
  DEF Next, Thread

\* However recv cuts the stream, the client is a message channel: whole messages
\* in order, each once, those that were complete when the sensor's end closed
\* included, and a connection is given up only when it has ended or for a message
\* that does not fit.
THEOREM StreamIsChannel == Spec => Channel!Init /\ [][Channel!Next]_(Channel!vars)
<1>1. Init => Channel!Init
  BY DEF Init, Channel!Init, Pending, Taken
<1>2. IInv /\ IInv' /\ [Next]_vars => [Channel!Next]_(Channel!vars)
  BY StepOfChannel
<1> QED BY <1>1, <1>2, FramingInvariant, PTL DEF Spec
=============================================================================
