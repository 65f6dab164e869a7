-------------------------- MODULE TcpFramingProofs --------------------------
(* Proofs about TcpStreamClient::Receive, for every size of the half       *)
(* header, of the buffer and of the messages, and any number of them.      *)
EXTENDS TcpFraming, Integers, TLAPS

-----------------------------------------------------------------------------
(* Streams of cells: n cells S[1], ..., S[n] of messages of lens[.] cells  *)
(* behind their half headers.                                              *)

\* Named, so that the provers see a sequence only where they need one.
Sizes(lens) == lens \in Seq(Nat)

OfMessages(c, lens) ==
  c \in Cell /\ c[1] \in 1 .. Len(lens) /\ c[2] \in 1 .. H + lens[c[1]]

IsLast(c, lens) == c[2] = H + lens[c[1]]

\* The cells come message by message, and the first is the first of its message;
\* the last may be anywhere in one.  Stated for any two cells, not for neighbours,
\* so that no induction is needed to look ahead.
InOrder(S, n, lens) ==
  /\ \A p \in 1 .. n : OfMessages(S[p], lens)
  /\ n > 0 => S[1][2] = 1
  /\ \A p, q \in 1 .. n :
       /\ p <= q => S[p][1] <= S[q][1]
       /\ p <= q /\ q + S[p][2] <= p + H + lens[S[p][1]] =>
            S[q][1] = S[p][1] /\ S[q][2] = S[p][2] + (q - p)
       /\ p < q /\ IsLast(S[p], lens) => S[p][1] < S[q][1]
  /\ \A p \in 1 .. n : p + 1 <= n /\ IsLast(S[p], lens) => S[p + 1][2] = 1

\* No message is cut off at the end.
Uncut(S, n, lens) == \A p \in 1 .. n : p + H + lens[S[p][1]] <= n + S[p][2]

\* T is S with a message of l cells behind its half header at the end.
SentBehind(T, S, n, lens, l) ==
  /\ \A p \in 1 .. n : T[p] = S[p]
  /\ \A p \in n + 1 .. n + H + l : T[p] = <<Len(lens) + 1, p - n>>

\* A half header has at least one cell.
LEMMA HType == H \in Nat /\ H > 0
BY FramingConstants

\* What SMT needs to know of a cell to calculate with it.
LEMMA CellFacts ==
  ASSUME NEW lens, Sizes(lens), NEW c, OfMessages(c, lens)
  PROVE  /\ c[1] \in Nat /\ c[2] \in Nat /\ lens[c[1]] \in Nat /\ c = <<c[1], c[2]>>
         /\ c[1] <= Len(lens) /\ c[2] > 0 /\ c[2] <= H + lens[c[1]]
BY HType DEF OfMessages, Cell, Sizes

\* A message is sent behind a stream that is not cut off.
LEMMA Extend ==
  ASSUME NEW n \in Nat, NEW S, NEW lens, Sizes(lens), NEW l \in Nat, NEW T,
         InOrder(S, n, lens), Uncut(S, n, lens), SentBehind(T, S, n, lens, l)
  PROVE  /\ InOrder(T, n + H + l, Append(lens, l))
         /\ Uncut(T, n + H + l, Append(lens, l))
<1> DEFINE m == Len(lens) + 1
           more == Append(lens, l)
           N == n + H + l
<1> USE HType
<1>1. /\ more[m] = l /\ m \in Nat /\ Len(more) = m /\ N \in Nat
      /\ \A i \in 1 .. Len(lens) : more[i] = lens[i]
  BY DEF Sizes
<1> HIDE DEF more
<1>2. ASSUME NEW p \in 1 .. n
      PROVE  /\ p \in 1 .. N /\ T[p] = S[p] /\ OfMessages(T[p], lens) /\ T[p] \in Cell
             /\ T[p][1] \in Nat /\ T[p][2] \in Nat /\ lens[T[p][1]] \in Nat
             /\ T[p][1] \in 1 .. Len(lens) /\ more[T[p][1]] = lens[T[p][1]]
             /\ T[p][2] > 0 /\ T[p][2] <= H + lens[T[p][1]]
             /\ p + H + lens[T[p][1]] <= n + T[p][2]
  <2>1. p \in 1 .. N /\ T[p] = S[p] /\ OfMessages(T[p], lens)
    BY <1>1 DEF InOrder, SentBehind
  <2>2. T[p] \in Cell /\ T[p][1] \in 1 .. Len(lens)
    BY <2>1 DEF OfMessages
  <2>3. p + H + lens[T[p][1]] <= n + T[p][2]
    BY <2>1 DEF Uncut
  <2>4. more[T[p][1]] = lens[T[p][1]]
    BY <1>1, <2>2
  <2> QED BY <2>1, <2>2, <2>3, <2>4, CellFacts
<1>3. ASSUME NEW p \in n + 1 .. N
      PROVE  /\ T[p] = <<m, p - n>> /\ T[p] \in Cell /\ T[p][1] = m /\ T[p][2] = p - n
             /\ p - n \in Nat /\ p - n > 0 /\ p - n <= H + l
  <2>1. p - n \in Nat /\ p - n > 0 /\ p - n <= H + l
    BY <1>1
  <2>2. T[p] = <<m, p - n>>
    BY <1>1 DEF SentBehind
  <2> QED BY <1>1, <2>1, <2>2 DEF Cell
<1>4. ASSUME NEW p \in 1 .. N PROVE OfMessages(T[p], more)
  <2>1. CASE p <= n
    <3>1. p \in 1 .. n
      BY <2>1
    <3>2. T[p][1] \in Nat /\ T[p][2] \in Nat /\ more[T[p][1]] \in Nat
      BY <1>2, <3>1
    <3>3. T[p][2] > 0 /\ T[p][2] <= H + more[T[p][1]]
      BY <1>2, <3>1
    <3>4. T[p][1] \in 1 .. Len(more)
      BY <1>1, <1>2, <3>1
    <3>5. T[p][2] \in 1 .. H + more[T[p][1]]
      BY HType, <3>2, <3>3
    <3> QED BY <1>2, <3>1, <3>4, <3>5 DEF OfMessages
  <2>2. CASE p > n
    <3>1. p \in n + 1 .. N
      BY <1>1, <2>2
    <3>2. T[p][1] \in 1 .. Len(more) /\ T[p][2] \in 1 .. H + more[T[p][1]]
      BY <1>1, <1>3, <3>1
    <3> QED BY <1>3, <3>1, <3>2 DEF OfMessages
  <2> QED BY <2>1, <2>2
<1>5. N > 0 => T[1][2] = 1
  <2>1. CASE n = 0
    BY <1>1, <1>3, <2>1
  <2>2. CASE n > 0
    BY <2>2 DEF InOrder, SentBehind
  <2> QED BY <2>1, <2>2
<1>6. ASSUME NEW p \in 1 .. N, NEW q \in 1 .. N
      PROVE  /\ p <= q => T[p][1] <= T[q][1]
             /\ p <= q /\ q + T[p][2] <= p + H + more[T[p][1]] =>
                  T[q][1] = T[p][1] /\ T[q][2] = T[p][2] + (q - p)
             /\ p < q /\ IsLast(T[p], more) => T[p][1] < T[q][1]
  <2>1. CASE p \in 1 .. n /\ q \in 1 .. n
    <3>1. T[p] = S[p] /\ T[q] = S[q] /\ more[T[p][1]] = lens[T[p][1]]
      BY <1>2, <2>1
    <3>2. IsLast(T[p], more) => IsLast(S[p], lens)
      BY <3>1 DEF IsLast
    <3> QED BY <2>1, <3>1, <3>2 DEF InOrder
  <2>2. CASE p \in 1 .. n /\ q \in n + 1 .. N
    <3>1. T[p][1] < m /\ T[q][1] = m /\ T[p][1] \in Nat
      BY <1>2, <1>3, <2>2
    <3>2. ~(q + T[p][2] <= p + H + more[T[p][1]])
      <4>1. T[p][2] \in Nat /\ more[T[p][1]] \in Nat
        BY <1>2, <2>2
      <4>2. p + H + more[T[p][1]] <= n + T[p][2]
        BY <1>2, <2>2
      <4>3. q \in Nat /\ q > n
        BY <2>2
      <4> QED BY <4>1, <4>2, <4>3, SMTT(60)
    <3> QED BY <1>1, <3>1, <3>2
  <2>3. CASE p \in n + 1 .. N /\ q \in n + 1 .. N
    <3>1. T[p][1] = m /\ T[q][1] = m /\ T[p][2] = p - n /\ T[q][2] = q - n
      BY <1>3, <2>3
    <3> QED BY <1>1, <3>1 DEF IsLast
  <2>4. CASE p \in n + 1 .. N /\ q \in 1 .. n
    BY <2>4
  <2> QED BY <1>1, <2>1, <2>2, <2>3, <2>4
<1>7. ASSUME NEW p \in 1 .. N, p + 1 <= N, IsLast(T[p], more)
      PROVE  T[p + 1][2] = 1
  <2>1. CASE p < n
    <3>1. p \in 1 .. n /\ p + 1 <= n /\ p + 1 \in 1 .. n
      BY <2>1
    <3>2. T[p] = S[p] /\ T[p + 1] = S[p + 1] /\ IsLast(S[p], lens)
      BY <1>2, <1>7, <3>1 DEF IsLast
    <3> QED BY <3>1, <3>2 DEF InOrder
  <2>2. CASE p = n
    BY <1>1, <1>3, <1>7, <2>2
  <2>3. CASE p > n
    <3>1. p \in n + 1 .. N
      BY <1>1, <2>3
    <3>2. p - n = H + l
      BY <1>1, <1>3, <1>7, <3>1 DEF IsLast
    <3> QED BY <1>7, <3>2
  <2> QED BY <2>1, <2>2, <2>3
<1>8. InOrder(T, N, more)
  BY <1>4, <1>5, <1>6, <1>7 DEF InOrder
<1>9. ASSUME NEW p \in 1 .. N PROVE p + H + more[T[p][1]] <= N + T[p][2]
  <2>1. CASE p \in 1 .. n
    <3>1. T[p][2] \in Nat /\ more[T[p][1]] \in Nat
      BY <1>2, <2>1
    <3>2. p + H + more[T[p][1]] <= n + T[p][2]
      BY <1>2, <2>1
    <3> QED BY <3>1, <3>2
  <2>2. CASE p \in n + 1 .. N
    <3>1. more[T[p][1]] = l /\ T[p][2] = p - n
      BY <1>1, <1>3, <2>2
    <3> QED BY <2>2, <3>1
  <2> QED BY <1>1, <2>1, <2>2
<1> QED BY <1>8, <1>9 DEF Uncut, more

\* T is what S is from the cell behind the e-th on.
Behind(T, S, k, e) == \A p \in 1 .. k : T[p] = S[p + e]

\* The end of a stream is lost.
LEMMA Cut ==
  ASSUME NEW n \in Nat, NEW S, NEW lens, Sizes(lens), NEW m \in 0 .. n, NEW T,
         InOrder(S, n, lens), Behind(T, S, m, 0)
  PROVE  InOrder(T, m, lens)
<1>1. \A p \in 1 .. m : p \in 1 .. n /\ T[p] = S[p]
  BY DEF Behind
<1>2. \A p \in 1 .. m : OfMessages(T[p], lens)
  BY <1>1 DEF InOrder
<1>3. m > 0 => T[1][2] = 1
  BY <1>1 DEF InOrder
<1>4. ASSUME NEW p \in 1 .. m, NEW q \in 1 .. m
      PROVE  /\ p <= q => T[p][1] <= T[q][1]
             /\ p <= q /\ q + T[p][2] <= p + H + lens[T[p][1]] =>
                  T[q][1] = T[p][1] /\ T[q][2] = T[p][2] + (q - p)
             /\ p < q /\ IsLast(T[p], lens) => T[p][1] < T[q][1]
  <2>1. p \in 1 .. n /\ q \in 1 .. n /\ T[p] = S[p] /\ T[q] = S[q]
    BY <1>1
  <2> QED BY <2>1 DEF InOrder
<1>5. ASSUME NEW p \in 1 .. m, p + 1 <= m, IsLast(T[p], lens)
      PROVE  T[p + 1][2] = 1
  <2>1. p \in 1 .. n /\ p + 1 <= n /\ T[p] = S[p] /\ T[p + 1] = S[p + 1]
    BY <1>1, <1>5
  <2> QED BY <1>5, <2>1 DEF InOrder
<1> QED BY <1>2, <1>3, <1>4, <1>5 DEF InOrder

\* Where the first message of a stream is, as far as the stream goes.
LEMMA First ==
  ASSUME NEW n \in Nat, NEW S, NEW lens, Sizes(lens), InOrder(S, n, lens), n > 0
  PROVE  /\ S[1][1] \in 1 .. Len(lens) /\ lens[S[1][1]] \in Nat
         /\ \A p \in 1 .. n : p <= H + lens[S[1][1]] => S[p] = <<S[1][1], p>>
         /\ \A p \in 1 .. n : p > H + lens[S[1][1]] => S[p][1] > S[1][1]
<1> DEFINE l == lens[S[1][1]]
           e == H + l
<1>1. OfMessages(S[1], lens) /\ S[1][2] = 1 /\ 1 \in 1 .. n
  BY DEF InOrder
<1>2. /\ S[1][1] \in 1 .. Len(lens) /\ S[1][1] \in Nat /\ lens[S[1][1]] \in Nat
      /\ e \in Nat /\ e > 0
  BY <1>1, CellFacts, HType DEF OfMessages
<1>3. ASSUME NEW p \in 1 .. n, p <= e
      PROVE  S[p] = <<S[1][1], p>>
  <2>1. 1 <= p /\ p + 1 <= 1 + H + l
    <3>1. l \in Nat
      BY <1>2
    <3> HIDE DEF l
    <3> QED BY <1>3, <3>1, HType
  <2>2. S[p][1] = S[1][1] /\ S[p][2] = S[1][2] + (p - 1)
    BY <1>1, <2>1 DEF InOrder
  <2>3. OfMessages(S[p], lens)
    BY DEF InOrder
  <2>4. S[p] = <<S[p][1], S[p][2]>>
    BY <2>3, CellFacts
  <2>5. S[p][2] = p
    BY <1>1, <2>2
  <2> QED BY <2>2, <2>4, <2>5
<1>4. ASSUME NEW p \in 1 .. n, p > e
      PROVE  S[p][1] > S[1][1]
  <2> HIDE DEF e
  <2>1. e \in 1 .. n /\ e < p
    BY <1>2, <1>4
  <2>2. S[e] = <<S[1][1], e>>
    BY <1>2, <1>3, <2>1
  <2>3. IsLast(S[e], lens)
    BY <2>2 DEF IsLast, e
  <2>4. S[e][1] < S[p][1]
    BY <2>1, <2>3 DEF InOrder
  <2>5. OfMessages(S[p], lens)
    BY DEF InOrder
  <2>6. S[p][1] \in Nat
    BY <2>5, CellFacts
  <2> QED BY <1>2, <2>2, <2>4, <2>6
<1> QED BY <1>2, <1>3, <1>4

\* Whole messages are taken off the front of a stream.
LEMMA Drop ==
  ASSUME NEW n \in Nat, NEW S, NEW lens, Sizes(lens), InOrder(S, n, lens),
         NEW e \in 1 .. n, IsLast(S[e], lens), NEW T, Behind(T, S, n - e, e)
  PROVE  /\ InOrder(T, n - e, lens)
         /\ Uncut(S, n, lens) => Uncut(T, n - e, lens)
<1>1. ASSUME NEW p \in 1 .. n - e
      PROVE  p + e \in 1 .. n /\ T[p] = S[p + e] /\ OfMessages(T[p], lens)
  BY DEF Behind, InOrder
<1>3. n - e > 0 => T[1][2] = 1
  <2> SUFFICES ASSUME n - e > 0 PROVE T[1][2] = 1
    OBVIOUS
  <2>1. 1 \in 1 .. n - e /\ e + 1 <= n /\ 1 + e = e + 1
    OBVIOUS
  <2>2. T[1] = S[e + 1]
    BY <1>1, <2>1
  <2> QED BY <2>1, <2>2 DEF InOrder
<1>4. ASSUME NEW p \in 1 .. n - e, NEW q \in 1 .. n - e
      PROVE  /\ p <= q => T[p][1] <= T[q][1]
             /\ p <= q /\ q + T[p][2] <= p + H + lens[T[p][1]] =>
                  T[q][1] = T[p][1] /\ T[q][2] = T[p][2] + (q - p)
             /\ p < q /\ IsLast(T[p], lens) => T[p][1] < T[q][1]
  <2> DEFINE x == p + e
             y == q + e
  <2>1. x \in 1 .. n /\ y \in 1 .. n /\ T[p] = S[x] /\ T[q] = S[y]
    BY <1>1
  <2>2. T[p][2] \in Nat /\ T[q][2] \in Nat /\ lens[T[p][1]] \in Nat
    BY <1>1, CellFacts
  <2>3. (p <= q <=> x <= y) /\ (p < q <=> x < y) /\ y - x = q - p
    OBVIOUS
  <2>4. q + T[p][2] <= p + H + lens[T[p][1]] => y + T[p][2] <= x + H + lens[T[p][1]]
    BY <2>2, HType
  <2> HIDE DEF x, y
  <2> QED BY <2>1, <2>3, <2>4 DEF InOrder
<1>5. ASSUME NEW p \in 1 .. n - e, p + 1 <= n - e, IsLast(T[p], lens)
      PROVE  T[p + 1][2] = 1
  <2> DEFINE x == p + e
  <2>1. x \in 1 .. n /\ x + 1 <= n /\ T[p] = S[x]
    BY <1>1, <1>5
  <2>2. p + 1 \in 1 .. n - e /\ (p + 1) + e = x + 1
    BY <1>5
  <2>3. T[p + 1] = S[x + 1]
    BY <1>1, <2>2
  <2> HIDE DEF x
  <2> QED BY <1>5, <2>1, <2>3 DEF InOrder
<1>6. InOrder(T, n - e, lens)
  BY <1>1, <1>3, <1>4, <1>5 DEF InOrder
<1>7. ASSUME Uncut(S, n, lens), NEW p \in 1 .. n - e
      PROVE  p + H + lens[T[p][1]] <= (n - e) + T[p][2]
  <2>1. T[p][2] \in Nat /\ lens[T[p][1]] \in Nat
    BY <1>1, CellFacts
  <2>2. (p + e) + H + lens[T[p][1]] <= n + T[p][2]
    BY <1>1, <1>7 DEF Uncut
  <2>3. p + e \in Nat /\ p \in Nat /\ e \in Nat
    OBVIOUS
  <2> QED BY <2>1, <2>2, <2>3, HType
<1> QED BY <1>6, <1>7 DEF Uncut

-----------------------------------------------------------------------------
(* The inductive invariant                                                 *)

\* How many cells the call in progress has taken, and which.
Done   == IF at = "header" THEN received ELSE IF at = "body" THEN H + received ELSE 0
Got(p) == IF at = "header" THEN hdr[p] ELSE buf[p]

\* What the call has taken and what is still on the wire, as one stream.
Ahead  == Done + Len(wire)
Stream == [p \in 1 .. Ahead |-> IF p <= Done THEN Got(p) ELSE wire[p - Done]]

StreamInv ==
  open => InOrder(Stream, Ahead, sent) /\ (conn = "up" => Uncut(Stream, Ahead, sent))

Places ==
  /\ at \in {"header", "body"} => open
  /\ at = "connect" \/ conn = "none" => ~open
  /\ at = "header" => received <= H
  /\ at = "body" => received <= length /\ length = sent[buf[1][1]]

IInv == TypeOK /\ Places /\ StreamInv /\ WholeFrames

-----------------------------------------------------------------------------
(* What the invariant says of the call in progress                         *)

\* The counts of the invariant are natural numbers.
LEMMA Counts ==
  ASSUME TypeOK
  PROVE  /\ Sizes(sent) /\ Len(wire) \in Nat /\ Done \in Nat /\ Ahead \in Nat
         /\ Done <= Ahead /\ received \in Nat /\ length \in Nat /\ BufSize \in Nat
         /\ H + length <= BufSize
<1>1. Sizes(sent)
  <2>1. sent \in Seq(Lengths) /\ Lengths \subseteq Nat
    BY FramingConstants DEF TypeOK
  <2>2. \A i \in 1 .. Len(sent) : sent[i] \in Lengths
    BY <2>1
  <2>3. \A i \in 1 .. Len(sent) : sent[i] \in Nat
    BY <2>1, <2>2
  <2> QED BY <2>1, <2>3 DEF Sizes
<1>2. Len(wire) \in Nat
  BY DEF TypeOK
<1>3. /\ received \in Nat /\ length \in Nat /\ BufSize \in Nat
      /\ H + length <= BufSize
  BY FramingConstants DEF TypeOK
<1>4. Done \in Nat
  BY <1>3, HType DEF Done
<1>5. Ahead \in Nat /\ Done <= Ahead
  BY <1>2, <1>4 DEF Ahead
<1> QED BY <1>1, <1>2, <1>3, <1>4, <1>5

\* The cells of one message that the call has taken are in their places.
LEMMA TakenFacts ==
  ASSUME IInv, Done > 0
  PROVE  LET n == Got(1)[1]
         IN  /\ n \in 1 .. Len(sent) /\ sent[n] \in Nat /\ open /\ Stream[1] = Got(1)
             /\ \A p \in 1 .. Done : Stream[p] = Got(p) /\ Got(p) = <<n, p>>
             /\ Done <= H + sent[n]
             /\ at = "body" => length = sent[n]
<1> DEFINE n == Got(1)[1]
<1>1. TypeOK /\ Places /\ StreamInv
  BY DEF IInv
<1>2. /\ Sizes(sent) /\ Done \in Nat /\ Ahead \in Nat /\ Done <= Ahead
      /\ received \in Nat /\ length \in Nat
  BY <1>1, Counts
<1>3. open /\ InOrder(Stream, Ahead, sent)
  BY <1>1 DEF Done, Places, StreamInv
<1>4. \A p \in 1 .. Done : p \in 1 .. Ahead /\ Stream[p] = Got(p)
  BY <1>2 DEF Stream
<1>5. Stream[1] = Got(1)
  BY <1>2, <1>4
<1>6. /\ n \in 1 .. Len(sent) /\ sent[n] \in Nat
      /\ \A p \in 1 .. Ahead : p <= H + sent[n] => Stream[p] = <<n, p>>
  BY <1>2, <1>3, <1>5, First
<1>7. (at = "body" => length = sent[n]) /\ Done <= H + sent[n]
  <2>1. CASE at = "header"
    BY <1>1, <1>2, <1>6, <2>1, HType DEF Done, Places
  <2>2. CASE at = "body"
    BY <1>1, <1>2, <1>6, <2>2, HType DEF Done, Places, Got
  <2>3. CASE at \notin {"header", "body"}
    BY <2>3 DEF Done
  <2> QED BY <2>1, <2>2, <2>3
<1>8. \A p \in 1 .. Done : p <= H + sent[n]
  BY <1>2, <1>6, <1>7, HType
<1> HIDE DEF n
<1>9. \A p \in 1 .. Done : Stream[p] = Got(p) /\ Got(p) = <<n, p>>
  BY <1>4, <1>6, <1>8
<1> QED BY <1>3, <1>5, <1>6, <1>7, <1>9 DEF n

\* A step that only moves cells from the wire into the call.
LEMMA SameStream ==
  ASSUME StreamInv, Stream' = Stream, Ahead' = Ahead, UNCHANGED <<sent, conn, open>>
  PROVE  StreamInv'
BY DEF StreamInv

\* Steps that leave the messages and what came out alone.
LEMMA SameFrames ==
  ASSUME WholeFrames, UNCHANGED <<sent, frames>>
  PROVE  WholeFrames'
BY DEF WholeFrames, Message

\* A stream without cells.
LEMMA EmptyStream ==
  ASSUME NEW S, NEW lens
  PROVE  InOrder(S, 0, lens) /\ Uncut(S, 0, lens)
BY DEF InOrder, Uncut

-----------------------------------------------------------------------------
(* The steps                                                               *)

\* The thread is connected, and has taken nothing of a message yet.
LEMMA InitIInv == Init => IInv
<1> SUFFICES ASSUME Init PROVE IInv
  OBVIOUS
<1>1. TypeOK
  <2>1. sent \in Seq(Lengths) /\ wire \in Seq(Cell) /\ frames \in Seq(Seq(Cell))
    BY DEF Init
  <2>2. open \in BOOLEAN
    BY DEF Init
  <2>3. hdr \in [1 .. H -> Cell] /\ buf \in [1 .. BufSize -> Cell]
    BY DEF Init, Cell, Zero
  <2>4. received \in 0 .. BufSize /\ length \in Lengths \cup {0} /\ H + length <= BufSize
    BY FramingConstants DEF Init
  <2> QED BY <2>1, <2>2, <2>3, <2>4 DEF Init, TypeOK
<1>2. Ahead = 0
  BY DEF Init, Ahead, Done
<1>3. StreamInv
  BY <1>2, EmptyStream DEF StreamInv
<1>4. Places /\ WholeFrames
  BY DEF Init, Places, WholeFrames
<1> QED BY <1>1, <1>3, <1>4 DEF IInv

\* The sensor sends a message.
LEMMA SendIInv ==
  ASSUME IInv, NEW l \in Lengths, Send(l)
  PROVE  /\ IInv' /\ Ahead' = Ahead + H + l
         /\ SentBehind(Stream', Stream, Ahead, sent, l)
<1> DEFINE more == [j \in 1 .. H + l |-> <<Len(sent) + 1, j>>]
<1>1. TypeOK /\ Places /\ StreamInv /\ WholeFrames /\ l \in Nat
  BY FramingConstants DEF IInv
<1>2. /\ Sizes(sent) /\ Len(wire) \in Nat /\ Done \in Nat /\ Ahead \in Nat
      /\ Done <= Ahead /\ Len(sent) \in Nat
  BY <1>1, Counts DEF Sizes
<1>3. more \in Seq(Cell) /\ Len(more) = H + l
  BY <1>1, <1>2, HType DEF Cell
<1>4. /\ wire' \in Seq(Cell) /\ Len(wire') = Len(wire) + H + l
      /\ \A p \in 1 .. Len(wire) : wire'[p] = wire[p]
      /\ \A p \in Len(wire) + 1 .. Len(wire) + H + l : wire'[p] = <<Len(sent) + 1, p - Len(wire)>>
  <2>1. wire \in Seq(Cell) /\ wire' = wire \o more
    BY <1>1 DEF TypeOK, Send
  <2>2. Len(wire') = Len(wire) + H + l /\ wire' \in Seq(Cell)
    BY <1>3, <2>1, <1>1, HType
  <2>3. \A p \in 1 .. Len(wire) : wire'[p] = wire[p]
    BY <1>3, <2>1, <1>1, HType
  <2>4. ASSUME NEW p \in Len(wire) + 1 .. Len(wire) + H + l
        PROVE  wire'[p] = <<Len(sent) + 1, p - Len(wire)>>
    <3>1. wire'[p] = more[p - Len(wire)] /\ p - Len(wire) \in 1 .. H + l
      BY <1>1, <1>2, <1>3, <2>1, HType
    <3> QED BY <3>1
  <2> QED BY <2>2, <2>3, <2>4
<1>5. /\ sent' \in Seq(Lengths) /\ sent' = Append(sent, l)
      /\ \A n \in DOMAIN sent : n \in DOMAIN sent' /\ sent'[n] = sent[n]
  BY <1>1 DEF TypeOK, Send
<1>6. TypeOK'
  BY <1>1, <1>4, <1>5 DEF TypeOK, Send, client
<1>7. WholeFrames'
  BY <1>1, <1>5 DEF WholeFrames, Message, Send, client
<1>8. Places'
  <2>1. at = "body" => Done > 0 /\ Got(1) = buf[1]
    BY <1>1, HType DEF Done, Got, TypeOK
  <2>2. at = "body" => sent'[buf[1][1]] = sent[buf[1][1]]
    BY <1>5, <2>1, TakenFacts
  <2> QED BY <1>1, <2>2 DEF Places, Send, client
<1>9. /\ StreamInv' /\ Ahead' = Ahead + H + l
      /\ SentBehind(Stream', Stream, Ahead, sent, l)
  <2>1. Done' = Done /\ \A p \in 1 .. Done : Got(p)' = Got(p)
    BY DEF Done, Got, Send, client
  <2>2. Ahead' = Ahead + H + l
    BY <1>1, <1>2, <1>4, <2>1, HType DEF Ahead
  <2>3. ASSUME NEW p \in 1 .. Ahead PROVE Stream'[p] = Stream[p]
    <3>1. p \in 1 .. Ahead'
      BY <1>1, <1>2, <2>2, HType
    <3>2. CASE p <= Done
      BY <2>1, <3>1, <3>2 DEF Stream
    <3>3. CASE p > Done
      <4>1. p - Done \in 1 .. Len(wire)
        BY <1>2, <3>3 DEF Ahead
      <4>2. wire'[p - Done] = wire[p - Done]
        BY <1>4, <4>1
      <4> QED BY <1>2, <2>1, <3>1, <3>3, <4>2 DEF Stream
    <3> QED BY <1>2, <3>2, <3>3
  <2>4. ASSUME NEW p \in Ahead + 1 .. Ahead + H + l
        PROVE  Stream'[p] = <<Len(sent) + 1, p - Ahead>>
    <3>1. p \in 1 .. Ahead' /\ p > Done
      BY <1>1, <1>2, <2>2, HType
    <3>2. /\ p - Done \in Len(wire) + 1 .. Len(wire) + H + l
          /\ (p - Done) - Len(wire) = p - Ahead
      BY <1>1, <1>2, HType DEF Ahead
    <3>3. Stream'[p] = wire'[p - Done]
      BY <1>2, <2>1, <3>1 DEF Stream
    <3>4. wire'[p - Done] = <<Len(sent) + 1, (p - Done) - Len(wire)>>
      BY <1>4, <3>2
    <3> QED BY <3>2, <3>3, <3>4
  <2>5. SentBehind(Stream', Stream, Ahead, sent, l)
    BY <2>3, <2>4 DEF SentBehind
  <2>6. open => InOrder(Stream, Ahead, sent) /\ Uncut(Stream, Ahead, sent)
    BY <1>1 DEF StreamInv, Send
  <2>7. open => InOrder(Stream', Ahead', sent') /\ Uncut(Stream', Ahead', sent')
    BY <1>1, <1>2, <1>5, <2>2, <2>5, <2>6, Extend
  <2> QED BY <2>2, <2>5, <2>7 DEF StreamInv, Send, client
<1> QED BY <1>6, <1>7, <1>8, <1>9 DEF IInv

\* The sensor's end is gone and the last cells with it.
LEMMA PeerEndsIInv ==
  ASSUME IInv, NEW k \in 0 .. Len(wire), PeerEnds(k)
  PROVE  IInv' /\ Ahead' \in 0 .. Ahead /\ Behind(Stream', Stream, Ahead', 0)
<1>1. TypeOK /\ Places /\ StreamInv /\ WholeFrames
  BY DEF IInv
<1>2. /\ Sizes(sent) /\ Len(wire) \in Nat /\ Done \in Nat /\ Ahead \in Nat
      /\ Ahead = Done + Len(wire)
  BY <1>1, Counts DEF Ahead
<1>3. /\ wire' \in Seq(Cell) /\ Len(wire') = k
      /\ \A p \in 1 .. k : wire'[p] = wire[p]
  <2>1. wire \in Seq(Cell) /\ wire' = SubSeq(wire, 1, k)
    BY <1>1 DEF TypeOK, PeerEnds
  <2> QED BY <2>1
<1>4. TypeOK'
  BY <1>1, <1>3 DEF TypeOK, PeerEnds, client
<1>5. Places' /\ WholeFrames'
  BY <1>1 DEF Places, WholeFrames, Message, PeerEnds, client
<1>6. Done' = Done /\ \A p \in 1 .. Done : Got(p)' = Got(p)
  BY DEF Done, Got, PeerEnds, client
<1>7. Ahead' = Done + k /\ Ahead' \in 0 .. Ahead
  BY <1>2, <1>3, <1>6 DEF Ahead
<1>8. Behind(Stream', Stream, Ahead', 0)
  <2> SUFFICES ASSUME NEW p \in 1 .. Ahead' PROVE Stream'[p] = Stream[p + 0]
    BY DEF Behind
  <2>1. p \in 1 .. Ahead /\ p + 0 = p
    BY <1>2, <1>7
  <2>2. CASE p <= Done
    BY <1>6, <2>1, <2>2 DEF Stream
  <2>3. CASE p > Done
    <3>1. p - Done \in 1 .. k
      BY <1>2, <1>7, <2>3
    <3> QED BY <1>2, <1>3, <1>6, <2>1, <2>3, <3>1 DEF Stream
  <2> QED BY <1>2, <2>2, <2>3
<1>9. StreamInv'
  BY <1>1, <1>2, <1>7, <1>8, Cut DEF StreamInv, PeerEnds, client
<1> QED BY <1>4, <1>5, <1>7, <1>8, <1>9 DEF IInv

\* A call begins; the client gives the connection up or gets a new one.
LEMMA ConnectionIInv ==
  ASSUME IInv, Receive \/ try_reconnect \/ ConnectOk \/ ConnectFails \/ RecvFails \/ Oversize
  PROVE  IInv'
<1>1. TypeOK /\ Places /\ StreamInv /\ WholeFrames
  BY DEF IInv
<1>2. Sizes(sent) /\ Len(wire) \in Nat /\ Done \in Nat /\ Ahead \in Nat
  BY <1>1, Counts
<1>3. WholeFrames'
  BY <1>1, SameFrames DEF Receive, try_reconnect, ConnectOk, ConnectFails, RecvFails,
     Oversize, net
<1>4. CASE Receive
  <2>1. TypeOK'
    <3>1. (received \in 0 .. BufSize)'
      BY <1>4, FramingConstants DEF Receive
    <3> QED BY <1>1, <1>4, <3>1 DEF TypeOK, Receive, net
  <2>2. Places'
    BY <1>1, <1>4, HType DEF Places, Receive, net
  <2>3. Done = 0 /\ Done' = 0 /\ Ahead' = Ahead
    BY <1>4 DEF Done, Ahead, Receive, net
  <2>4. Stream' = Stream
    BY <1>4, <2>3 DEF Stream, Receive, net
  <2> QED BY <1>1, <1>3, <1>4, <2>1, <2>2, <2>3, <2>4, SameStream DEF IInv, Receive, net
<1>5. CASE try_reconnect
  BY <1>1, <1>3, <1>5 DEF IInv, TypeOK, Places, StreamInv, try_reconnect
<1>6. CASE ConnectOk
  <2>1. Ahead' = 0
    BY <1>6 DEF Ahead, Done, ConnectOk
  <2>2. TypeOK' /\ Places'
    BY <1>1, <1>6 DEF TypeOK, Places, ConnectOk
  <2> QED BY <1>3, <2>1, <2>2, EmptyStream DEF IInv, StreamInv
<1>7. CASE ConnectFails
  <2>1. ~open' /\ Places'
    BY <1>1, <1>7 DEF Places, ConnectFails, net
  <2> QED BY <1>1, <1>3, <1>7, <2>1 DEF IInv, TypeOK, StreamInv, ConnectFails, net
<1>8. CASE RecvFails \/ Oversize
  BY <1>1, <1>3, <1>8 DEF IInv, TypeOK, Places, StreamInv, RecvFails, Oversize, net
<1> QED BY <1>4, <1>5, <1>6, <1>7, <1>8

\* recv returns k cells of the stream: the stream as a whole stays what it is.
LEMMA RecvIInv ==
  ASSUME IInv, NEW k \in 1 .. Len(wire), Recv(k)
  PROVE  IInv' /\ Stream' = Stream /\ Ahead' = Ahead
<1>1. TypeOK /\ Places /\ StreamInv /\ WholeFrames
  BY DEF IInv
<1>2. /\ Sizes(sent) /\ Len(wire) \in Nat /\ Done \in Nat /\ Ahead \in Nat
      /\ Ahead = Done + Len(wire) /\ received \in Nat /\ length \in Nat
      /\ BufSize \in Nat /\ H + length <= BufSize
  BY <1>1, Counts DEF Ahead
<1>3. /\ wire' \in Seq(Cell) /\ Len(wire') = Len(wire) - k
      /\ \A p \in 1 .. Len(wire) - k : wire'[p] = wire[p + k]
      /\ \A p \in 1 .. Len(wire) : wire[p] \in Cell
  <2>1. wire \in Seq(Cell) /\ wire' = SubSeq(wire, k + 1, Len(wire))
    BY <1>1 DEF TypeOK, Recv
  <2> QED BY <2>1
<1>4. k \in Nat /\ k <= Len(wire) /\ k <= Wanted - received /\ received' = received + k
  BY <1>2 DEF Recv
<1>5. Done' = Done + k /\ Ahead' = Ahead
  <2>1. Done' = Done + k
    BY <1>2, <1>4, HType DEF Done, Recv
  <2> QED BY <1>2, <1>3, <1>4, <2>1 DEF Ahead
<1>6. /\ at' = at /\ received' \in 0 .. BufSize
      /\ at = "header" => received' <= H
      /\ at = "body" => received' <= length /\ buf'[1] = buf[1]
      /\ hdr' \in [1 .. H -> Cell] /\ buf' \in [1 .. BufSize -> Cell]
      /\ \A p \in 1 .. Done : Got(p)' = Got(p)
      /\ \A p \in Done + 1 .. Done + k : Got(p)' = wire[p - Done]
  <2>1. CASE at = "header"
    <3>1. /\ Done = received /\ received + k <= H
          /\ hdr' = [j \in 1 .. H |-> IF j > received /\ j <= received + k
                                     THEN wire[j - received] ELSE hdr[j]]
          /\ buf' = buf /\ hdr \in [1 .. H -> Cell] /\ at' = "header"
      BY <1>1, <1>2, <1>4, <2>1, HType DEF Done, Wanted, Recv, TypeOK
    <3>2. ASSUME NEW j \in 1 .. H PROVE hdr'[j] \in Cell
      <4>1. CASE j > received /\ j <= received + k
        <5>1. j - received \in 1 .. Len(wire)
          BY <1>2, <1>4, <4>1
        <5> QED BY <1>3, <3>1, <4>1, <5>1
      <4>2. CASE ~(j > received /\ j <= received + k)
        BY <3>1, <4>2
      <4> QED BY <4>1, <4>2
    <3>3. hdr' \in [1 .. H -> Cell] /\ buf' \in [1 .. BufSize -> Cell]
      BY <1>1, <3>1, <3>2 DEF TypeOK
    <3>4. ASSUME NEW p \in 1 .. Done
          PROVE  Got(p)' = Got(p)
      <4>1. p \in 1 .. H /\ ~(p > received)
        BY <1>2, <1>4, <3>1, HType
      <4> QED BY <2>1, <3>1, <4>1 DEF Got
    <3>5. ASSUME NEW p \in Done + 1 .. Done + k
          PROVE  Got(p)' = wire[p - Done]
      <4>1. p \in 1 .. H /\ p > received /\ p <= received + k
        BY <1>2, <1>4, <3>1, HType
      <4> QED BY <2>1, <3>1, <4>1 DEF Got
    <3>6. received' \in 0 .. BufSize /\ received' <= H
      BY <1>2, <1>4, <3>1, HType, FramingConstants
    <3> QED BY <2>1, <3>1, <3>3, <3>4, <3>5, <3>6
  <2>2. CASE at = "body"
    <3>1. /\ Done = H + received /\ received + k <= length
          /\ buf' = [j \in 1 .. BufSize |-> IF j - H > received /\ j - H <= received + k /\ j > H
                                           THEN wire[(j - H) - received] ELSE buf[j]]
          /\ hdr' = hdr /\ buf \in [1 .. BufSize -> Cell] /\ at' = "body"
      BY <1>1, <1>2, <1>4, <2>2, HType DEF Done, Wanted, Recv, TypeOK
    <3>2. ASSUME NEW j \in 1 .. BufSize PROVE buf'[j] \in Cell
      <4>1. CASE j - H > received /\ j - H <= received + k /\ j > H
        <5>1. (j - H) - received \in 1 .. Len(wire)
          BY <1>2, <1>4, <4>1, HType
        <5> QED BY <1>3, <3>1, <4>1, <5>1
      <4>2. CASE ~(j - H > received /\ j - H <= received + k /\ j > H)
        BY <3>1, <4>2
      <4> QED BY <4>1, <4>2
    <3>3. hdr' \in [1 .. H -> Cell] /\ buf' \in [1 .. BufSize -> Cell]
      BY <1>1, <3>1, <3>2 DEF TypeOK
    <3>4. ASSUME NEW p \in 1 .. Done
          PROVE  p \in 1 .. BufSize /\ buf'[p] = buf[p]
      <4>1. p \in 1 .. BufSize /\ ~(p - H > received)
        BY <1>2, <1>4, <3>1, HType
      <4> QED BY <3>1, <4>1
    <3>5. ASSUME NEW p \in Done + 1 .. Done + k
          PROVE  Got(p)' = wire[p - Done]
      <4>1. /\ p \in 1 .. BufSize /\ p > H /\ p - H > received /\ p - H <= received + k
            /\ (p - H) - received = p - Done
        BY <1>2, <1>4, <3>1, HType
      <4> QED BY <2>2, <3>1, <4>1 DEF Got
    <3>6. received' \in 0 .. BufSize /\ received' <= length
      BY <1>2, <1>4, <3>1, HType
    <3>7. 1 \in 1 .. Done
      BY <1>2, <3>1, HType
    <3>8. \A p \in 1 .. Done : Got(p)' = Got(p)
      BY <2>2, <3>1, <3>4 DEF Got
    <3> QED BY <2>2, <3>1, <3>3, <3>4, <3>5, <3>6, <3>7, <3>8
  <2> QED BY <2>1, <2>2 DEF Recv
<1>7. TypeOK'
  BY <1>1, <1>3, <1>6 DEF TypeOK, Recv
<1>8. Places'
  BY <1>1, <1>6 DEF Places, Recv
<1>9. Stream' = Stream
  <2>1. ASSUME NEW p \in 1 .. Ahead
        PROVE  (IF p <= Done' THEN Got(p)' ELSE wire'[p - Done'])
                 = (IF p <= Done THEN Got(p) ELSE wire[p - Done])
    <3>1. CASE p <= Done
      BY <1>2, <1>4, <1>5, <1>6, <3>1
    <3>2. CASE p > Done /\ p <= Done + k
      <4>1. p \in Done + 1 .. Done + k
        BY <1>2, <1>4, <3>2
      <4> QED BY <1>2, <1>4, <1>5, <1>6, <3>2, <4>1
    <3>3. CASE p > Done + k
      <4>1. /\ p - Done' \in 1 .. Len(wire) - k /\ (p - Done') + k = p - Done
            /\ ~(p <= Done) /\ ~(p <= Done')
        BY <1>2, <1>4, <1>5, <3>3
      <4>2. wire'[p - Done'] = wire[p - Done]
        BY <1>3, <4>1
      <4> QED BY <4>1, <4>2
    <3> QED BY <1>2, <1>4, <3>1, <3>2, <3>3
  <2> QED BY <1>5, <2>1 DEF Stream
<1>10. StreamInv' /\ WholeFrames'
  BY <1>1, <1>5, <1>9, SameStream, SameFrames DEF Recv
<1> QED BY <1>5, <1>7, <1>8, <1>9, <1>10 DEF IInv

\* The half header is copied: the length field is the length of the message.
LEMMA HeaderReadIInv ==
  ASSUME IInv, HeaderRead
  PROVE  IInv' /\ Stream' = Stream /\ Ahead' = Ahead /\ Done' = Done
<1> DEFINE n == Got(1)[1]
<1>1. /\ TypeOK /\ Places /\ StreamInv /\ WholeFrames
      /\ at = "header" /\ received >= Wanted /\ open
  BY DEF IInv, HeaderRead, Complete, Places
<1>2. received = H /\ Done = H /\ Done > 0
  <2>1. received \in Nat /\ received <= H /\ received >= H
    BY <1>1, Counts DEF Places, Wanted
  <2> QED BY <1>1, <2>1, HType DEF Done
<1>3. /\ n \in 1 .. Len(sent) /\ sent[n] \in Nat
      /\ \A p \in 1 .. H : hdr[p] = <<n, p>>
  BY <1>1, <1>2, TakenFacts DEF Got
<1>4. hdr[H] = <<n, H>> /\ hdr[1] = <<n, 1>>
  BY <1>3, HType
<1>5. LengthIn(hdr[H]) = {sent[n]}
  <2> HIDE DEF n
  <2> QED BY <1>4 DEF LengthIn
<1>6. length' = sent[n] /\ H + sent[n] <= BufSize
  <2>1. \E l \in LengthIn(hdr[H]) : ~TooLarge(l) /\ length' = l
    BY DEF HeaderRead
  <2> HIDE DEF n
  <2>2. length' = sent[n] /\ ~(H + sent[n] > BufSize)
    BY <1>5, <2>1 DEF TooLarge
  <2> QED BY <1>3, <2>2, HType, FramingConstants
<1>7. /\ buf' \in [1 .. BufSize -> Cell]
      /\ \A p \in 1 .. H : buf'[p] = hdr[p]
  <2>1. buf' = [j \in 1 .. BufSize |-> IF j <= H THEN hdr[j] ELSE buf[j]]
    BY DEF HeaderRead
  <2>2. \A j \in 1 .. BufSize : buf[j] \in Cell /\ (j <= H => hdr[j] \in Cell)
    BY <1>1, HType, FramingConstants DEF TypeOK
  <2>3. \A p \in 1 .. H : p \in 1 .. BufSize /\ p <= H
    BY HType, FramingConstants
  <2> QED BY <2>1, <2>2, <2>3
<1>8. TypeOK'
  <2>1. sent[n] \in Lengths
    BY <1>1, <1>3 DEF TypeOK
  <2>2. (received \in 0 .. BufSize)'
    BY FramingConstants DEF HeaderRead
  <2>3. (length \in Lengths \cup {0} /\ H + length <= BufSize)'
    BY <1>6, <2>1
  <2> HIDE DEF n
  <2> QED BY <1>1, <1>7, <2>2, <2>3 DEF TypeOK, HeaderRead, net
<1>9. Places'
  <2>1. buf'[1][1] = n
    BY <1>4, <1>7, HType
  <2>2. (at = "body" => received <= length /\ length = sent[buf[1][1]])'
    <3>1. (received <= length)'
      BY <1>3, <1>6 DEF HeaderRead
    <3> HIDE DEF n
    <3> QED BY <1>6, <2>1, <3>1 DEF HeaderRead, net
  <2> HIDE DEF n
  <2> QED BY <1>1, <2>2 DEF Places, HeaderRead, net
<1>10. Done' = Done /\ Ahead' = Ahead /\ wire' = wire
  <2>1. Done' = H
    BY HType DEF Done, HeaderRead
  <2> QED BY <1>2, <2>1 DEF Ahead, HeaderRead, net
<1>11. Stream' = Stream
  <2>1. \A p \in 1 .. Ahead : p <= Done => Got(p)' = Got(p)
    <3>1. \A p : Got(p)' = buf'[p] /\ Got(p) = hdr[p]
      BY <1>1 DEF Got, HeaderRead
    <3>2. Ahead \in Nat
      BY <1>1, Counts
    <3>3. \A p \in 1 .. Ahead : p <= Done => p \in 1 .. H
      BY <1>2, <3>2, HType
    <3> QED BY <1>7, <3>1, <3>3
  <2> QED BY <1>10, <2>1 DEF Stream
<1>12. StreamInv' /\ WholeFrames'
  BY <1>1, <1>10, <1>11, SameStream, SameFrames DEF HeaderRead, net
<1> QED BY <1>8, <1>9, <1>10, <1>11, <1>12 DEF IInv

\* A message is complete in the buffer when Receive returns its size.
LEMMA MessageRead ==
  ASSUME IInv, at = "body", Complete
  PROVE  LET n == Got(1)[1]
         IN  /\ n \in 1 .. Len(sent) /\ sent[n] \in Nat /\ length = sent[n]
             /\ Done = H + sent[n] /\ Done > 0 /\ open /\ H + sent[n] <= BufSize
             /\ SubSeq(buf, 1, H + length) = Message(n)
             /\ Stream[Done] = <<n, H + sent[n]>>
<1> DEFINE n == Got(1)[1]
<1>1. TypeOK /\ Places /\ received \in Nat /\ length \in Nat /\ BufSize \in Nat
      /\ H + length <= BufSize
  BY Counts DEF IInv
<1>2. received = length /\ Done = H + length /\ Done > 0
  <2>1. received <= length /\ received >= length
    BY <1>1 DEF Places, Complete, Wanted
  <2>2. received = length
    BY <1>1, <2>1
  <2> QED BY <1>1, <2>2, HType DEF Done
<1>3. /\ n \in 1 .. Len(sent) /\ sent[n] \in Nat /\ length = sent[n] /\ open
      /\ \A p \in 1 .. Done : Stream[p] = <<n, p>> /\ buf[p] = <<n, p>>
  BY <1>2, TakenFacts DEF Got
<1>4. SubSeq(buf, 1, H + length) = Message(n)
  <2> DEFINE e == H + length
  <2>1. e \in Nat /\ e <= BufSize /\ Done = e /\ e = H + sent[n]
    BY <1>1, <1>2, <1>3, HType
  <2>2. \A p \in 1 .. e : buf[p] = <<n, p>>
    BY <1>3, <2>1
  <2>3. buf \in [1 .. BufSize -> Cell]
    BY <1>1 DEF TypeOK
  <2> HIDE DEF e, n
  <2>4. SubSeq(buf, 1, e) = [p \in 1 .. e |-> buf[p]]
    <3>1. buf \in Seq(Cell) /\ Len(buf) = BufSize
      BY <1>1, <2>3
    <3>2. /\ SubSeq(buf, 1, e) \in Seq(Cell) /\ Len(SubSeq(buf, 1, e)) = e
          /\ \A p \in 1 .. e : SubSeq(buf, 1, e)[p] = buf[p]
      BY <2>1, <3>1
    <3> DEFINE T == SubSeq(buf, 1, e)
    <3>3. T = [p \in 1 .. Len(T) |-> T[p]]
      BY <3>2
    <3> HIDE DEF T
    <3> QED BY <3>2, <3>3 DEF T
  <2> QED BY <2>1, <2>2, <2>4 DEF Message, e
<1>5. Stream[Done] = <<n, H + sent[n]>>
  <2>1. Done \in 1 .. Done /\ Done = H + sent[n]
    BY <1>1, <1>2, <1>3, HType
  <2> HIDE DEF n
  <2> QED BY <1>3, <2>1
<1> QED BY <1>1, <1>2, <1>3, <1>4, <1>5

\* The call returns its message, and the stream begins with the next one.
LEMMA ProcessIInv ==
  ASSUME IInv, Process
  PROVE  /\ IInv' /\ Done \in 1 .. Ahead /\ Done' = 0 /\ Ahead' = Ahead - Done
         /\ Behind(Stream', Stream, Ahead', Done)
<1> DEFINE n == Got(1)[1]
<1>1. /\ TypeOK /\ Places /\ StreamInv /\ WholeFrames
      /\ at = "body" /\ Complete
  BY DEF IInv, Process
<1>2. /\ Sizes(sent) /\ Len(wire) \in Nat /\ Done \in Nat /\ Ahead \in Nat
      /\ Ahead = Done + Len(wire)
  BY <1>1, Counts DEF Ahead
<1>3. /\ n \in 1 .. Len(sent) /\ sent[n] \in Nat /\ Done = H + sent[n] /\ Done > 0 /\ open
      /\ SubSeq(buf, 1, H + length) = Message(n) /\ Stream[Done] = <<n, H + sent[n]>>
  BY <1>1, MessageRead
<1>4. Done \in 1 .. Ahead /\ Done' = 0 /\ Ahead' = Ahead - Done /\ wire' = wire
  <2>1. Done' = 0 /\ wire' = wire
    BY DEF Done, Process, net
  <2>2. Ahead' = Len(wire)
    BY <1>2, <2>1 DEF Ahead
  <2> QED BY <1>2, <1>3, <2>1, <2>2
<1>5. Behind(Stream', Stream, Ahead', Done)
  <2> SUFFICES ASSUME NEW p \in 1 .. Ahead' PROVE Stream'[p] = Stream[p + Done]
    BY DEF Behind
  <2>1. p + Done \in 1 .. Ahead /\ ~(p + Done <= Done) /\ (p + Done) - Done = p
        /\ ~(p <= Done') /\ p - Done' = p
    BY <1>2, <1>4
  <2>2. Stream[p + Done] = wire[p] /\ Stream'[p] = wire'[p]
    BY <2>1 DEF Stream
  <2> QED BY <1>4, <2>2
<1>6. StreamInv'
  <2>1. InOrder(Stream, Ahead, sent) /\ (conn = "up" => Uncut(Stream, Ahead, sent))
    BY <1>1, <1>3 DEF StreamInv
  <2>2. IsLast(Stream[Done], sent)
    <3> HIDE DEF n
    <3> QED BY <1>3 DEF IsLast
  <2>3. Behind(Stream', Stream, Ahead - Done, Done)
    BY <1>4, <1>5
  <2>4. /\ InOrder(Stream', Ahead - Done, sent)
        /\ Uncut(Stream, Ahead, sent) => Uncut(Stream', Ahead - Done, sent)
    BY <1>2, <1>4, <2>1, <2>2, <2>3, Drop
  <2> QED BY <1>4, <2>1, <2>4 DEF StreamInv, Process, net
<1>7. frames' = Append(frames, Message(n)) /\ Message(n) \in Seq(Cell)
  <2>1. H + sent[n] \in Nat /\ n \in Nat
    BY <1>3, HType
  <2>2. \A j \in 1 .. H + sent[n] : <<n, j>> \in Cell
    BY <2>1 DEF Cell
  <2>3. Message(n) \in Seq(Cell)
    <3> HIDE DEF n
    <3> QED BY <2>1, <2>2 DEF Message
  <2> QED BY <1>3, <2>3 DEF Process
<1> HIDE DEF n
<1>8. TypeOK'
  <2>1. frames' \in Seq(Seq(Cell))
    BY <1>1, <1>7 DEF TypeOK
  <2> QED BY <1>1, <2>1 DEF TypeOK, Process, net
<1>9. WholeFrames'
  <2> SUFFICES ASSUME NEW i \in DOMAIN frames'
               PROVE  \E m \in DOMAIN sent : frames'[i] = Message(m)
    BY DEF WholeFrames, Message, Process, net
  <2>1. frames \in Seq(Seq(Cell)) /\ sent \in Seq(Lengths)
    BY <1>1 DEF TypeOK
  <2>2. CASE i \in DOMAIN frames
    <3>1. frames'[i] = frames[i]
      BY <1>7, <2>1, <2>2
    <3> QED BY <1>1, <2>2, <3>1 DEF WholeFrames
  <2>3. CASE i \notin DOMAIN frames
    <3>1. frames'[i] = Message(n)
      BY <1>7, <2>1, <2>3
    <3> QED BY <1>3, <2>1, <3>1
  <2> QED BY <2>2, <2>3
<1>10. Places'
  BY <1>1 DEF Places, Process, net
<1> QED BY <1>4, <1>5, <1>6, <1>8, <1>9, <1>10 DEF IInv

\* Every step of the sensor and of the thread keeps the invariant.
LEMMA NextIInv == IInv /\ [Next]_vars => IInv'
<1> SUFFICES ASSUME IInv, [Next]_vars PROVE IInv'
  OBVIOUS
<1>1. ASSUME NEW l \in Lengths, Send(l) PROVE IInv'
  BY <1>1, SendIInv
<1>2. ASSUME NEW k \in 0 .. Len(wire), PeerEnds(k) PROVE IInv'
  BY <1>2, PeerEndsIInv
<1>3. ASSUME NEW k \in 1 .. Len(wire), Recv(k) PROVE IInv'
  BY <1>3, RecvIInv
<1>4. CASE Receive \/ try_reconnect \/ ConnectOk \/ ConnectFails \/ RecvFails \/ Oversize
  BY <1>4, ConnectionIInv
<1>5. CASE HeaderRead
  BY <1>5, HeaderReadIInv
<1>6. CASE Process
  BY <1>6, ProcessIInv
<1>7. CASE UNCHANGED vars
  <2>1. TypeOK' /\ Places' /\ WholeFrames'
    BY <1>7 DEF IInv, TypeOK, Places, WholeFrames, Message, vars
  <2>2. Done' = Done /\ Ahead' = Ahead /\ \A p : Got(p)' = Got(p)
    BY <1>7 DEF vars, Done, Ahead, Got
  <2>3. StreamInv'
    BY <1>7, <2>2 DEF IInv, StreamInv, Stream, vars
  <2> QED BY <2>1, <2>3 DEF IInv
<1> QED BY <1>1, <1>2, <1>3, <1>4, <1>5, <1>6, <1>7 DEF Next, Thread

-----------------------------------------------------------------------------
(* The theorems                                                            *)

\* What a call has taken of the stream and what recv has still to return are,
\* together, a run of cells that begins with the first cell of a message, in
\* every state of the receiver thread's loop.
THEOREM FramingInvariant == Spec => []IInv
BY InitIInv, NextIInv, PTL DEF Spec

\* Type correctness: recv_exact never asks for more than the buffer holds.
THEOREM FramingTypes == Spec => []TypeOK
<1>1. IInv => TypeOK
  BY DEF IInv
<1> QED BY <1>1, FramingInvariant, PTL

\* What Receive hands to process_*_datagram is always one message of the sensor,
\* all of it, in whatever pieces recv returns the stream.
THEOREM FramesAreWhole == Spec => []WholeFrames
<1>1. IInv => WholeFrames
  BY DEF IInv
<1> QED BY <1>1, FramingInvariant, PTL

\* A call of Receive that finds the connection open begins with the first cell
\* of a message: an earlier call gave the connection up or read to the end of one.
THEOREM CallsStartInStep == Spec => []InStep
<1>1. IInv => InStep
  <2> SUFFICES ASSUME IInv, at = "loop", open, wire # <<>> PROVE wire[1][2] = 1
    BY DEF InStep
  <2>1. TypeOK /\ StreamInv /\ wire \in Seq(Cell)
    BY DEF IInv, TypeOK
  <2>2. Len(wire) \in Nat /\ Len(wire) > 0
    BY <2>1
  <2>3. Done = 0 /\ Ahead = Len(wire)
    BY <2>2 DEF Done, Ahead
  <2>4. InOrder(Stream, Ahead, sent) /\ Ahead > 0
    BY <2>1, <2>2, <2>3 DEF StreamInv
  <2>5. Stream[1] = wire[1]
    BY <2>2, <2>3 DEF Stream
  <2> QED BY <2>4, <2>5 DEF InOrder
<1> QED BY <1>1, FramingInvariant, PTL
=============================================================================
