-------------------------- MODULE SlapOrderProofs --------------------------
(***************************************************************************)
(* What Slap delivers: while no end starts over, the packets received from *)
(* an end are the first it has queued, in order, each once.  The numbers   *)
(* in the headers have three bits; that they are enough follows from what  *)
(* the frames on their way can be, which the invariant OrderInv says.      *)
(* The last part is about the negotiation.                                 *)
(***************************************************************************)
EXTENDS SlapProofs

(***************************************************************************)
(* The window of the sender is the one AJ_SerialInit was called with, as   *)
(* AJ_SerialTX_Init allocates that many packets; the one of the receiver   *)
(* is what ProcessNegoPacket decodes.  The sender's fits if a NEGO packet  *)
(* can express it and the receiver does not ask for less.                  *)
(***************************************************************************)
WindowFits(e) == MaxWindow[e] # 3 /\ MaxWindow[e] <= MaxWindow[Peer[e]]

\* Every end is in its first incarnation.
NobodyRestarted == \A e \in Endpoint : Epoch(e) = 1

\* The packets an end makes in its first incarnation: QueueReliable numbers DATA packets
\* as they come, SendNegotiationPacket offers the window of AJ_SerialInit.
Genuine(e) == {p \in TxPkt :
  /\ p.type = "DATA" => p.item.ep = 1 /\ p.seq = (p.item.n - 1) % 8
  /\ p.type = "CTRL" /\ p.kind = "NEGO" => p.win = EncodeWindow(MaxWindow[e])}
GenuineFrame(e) == {f \in Frame : f.pkt \in Genuine(e)}

\* The frames on their way from e, the oldest first.
Line(e) == rxBuf[Peer[e]] \o txBuf[e]

\* The packets of e that have been acknowledged: those that are queued less those that
\* still have their place in the window.
Freed(e) == Queued(e) - (MaxWindow[e] - txFree[e])

\* The first m packets of a stream.
First(m) == [n \in 1..m |-> [ep |-> 1, n |-> n]]

IsData(f) == f.pkt.type = "DATA"
HasAck(f) == f.pkt.type # "CTRL"

\* The number that an ack of three bits stands for: the first from base on.
Pos(ack, base) == base + ((ack - base) % 8)

\* The i-th packet of e that waits for an ack is the i-th after the acknowledged ones, or a
\* later one: ResendPackets may have forgotten some.
Held(e) ==
  /\ txSent[e] \in Seq(Genuine(e)) /\ txQueue[e] \in Seq(Genuine(e))
  /\ \A i \in 1..Waiting(txSent[e], txQueue[e]) : At(txSent[e], txQueue[e], i) >= Freed(e) + i
  /\ txSeqNum[e] = Queued(e) % 8

\* Acknowledged packets have been accepted, and accepted ones have been queued.
Counted(e) == Freed(e) \in Nat /\ Freed(e) <= accepted[e] /\ accepted[e] <= Queued(e)

\* The peer of e has received what is counted as accepted, and expects the next.
Mirrored(e) ==
  /\ Received(Peer[e]) = First(accepted[e])
  /\ expectedSeq[Peer[e]] = accepted[e] % 8
  /\ currentTxAck[Peer[e]] = accepted[e] % 8
  /\ windowSize[Peer[e]] >= MaxWindow[e]

\* A DATA packet on a line has been queued, and is less than a window older than what the
\* other end has accepted and than every packet before it on the line.
DataLine(e, line, top, acc) ==
  /\ line \in Seq(GenuineFrame(e))
  /\ \A i \in 1..Len(line) : IsData(line[i]) =>
       line[i].pkt.item.n <= top /\ acc < line[i].pkt.item.n + MaxWindow[e]
  /\ \A i \in 1..Len(line) : \A j \in 1..(i - 1) : IsData(line[i]) /\ IsData(line[j]) =>
       line[j].pkt.item.n < line[i].pkt.item.n + MaxWindow[e]

\* The acks on a line, read as numbers from base on, are of accepted packets and grow.
AckLine(line, base, acc) ==
  /\ \A i \in 1..Len(line) : HasAck(line[i]) => Pos(line[i].ack, base) <= acc
  /\ \A i \in 1..Len(line) : \A j \in 1..(i - 1) : HasAck(line[i]) /\ HasAck(line[j]) =>
       Pos(line[j].ack, base) <= Pos(line[i].ack, base)

\* The stream of e, with the packets and the acks that are on their way.
Order(e) ==
  /\ Held(e) /\ Counted(e) /\ Mirrored(e)
  /\ DataLine(e, Line(e), Queued(e), accepted[e])
  /\ AckLine(Line(Peer[e]), Freed(e), accepted[e])

Session == NobodyRestarted => \A e \in Endpoint : WindowFits(e) => Order(e)

OrderInv == ListsInv /\ Session

-----------------------------------------------------------------------------
\* Numbers of three bits.
LEMMA PosFacts ==
  ASSUME NEW ack \in 0..7, NEW base \in Nat
  PROVE  /\ Pos(ack, base) \in Nat /\ Pos(ack, base) >= base /\ Pos(ack, base) <= base + 7
         /\ Pos(ack, base) % 8 = ack
BY DEF Pos

\* A number within eight of base is the one its three bits stand for.
LEMMA PosUnique ==
  ASSUME NEW m \in Nat, NEW base \in Nat, base <= m, m <= base + 7
  PROVE  Pos(m % 8, base) = m
BY DEF Pos

\* An ack stands for the same number when base moves on, up to that number.
LEMMA PosShift ==
  ASSUME NEW ack \in 0..7, NEW base \in Nat, NEW base2 \in Nat,
         base <= base2, base2 <= Pos(ack, base)
  PROVE  Pos(ack, base2) = Pos(ack, base)
<1>1. /\ Pos(ack, base) \in Nat /\ Pos(ack, base) >= base /\ Pos(ack, base) <= base + 7
      /\ Pos(ack, base) % 8 = ack
  BY PosFacts
<1> DEFINE m == Pos(ack, base)
<1> HIDE DEF m
<1>2. Pos(m % 8, base2) = m
  BY <1>1, PosUnique DEF m
<1> QED
  BY <1>1, <1>2 DEF m

\* An ack covers a packet of the window only if the packet comes before it.
LEMMA AckCovers ==
  ASSUME NEW n \in Nat, NEW m \in Nat, NEW w \in 1..4, NEW base \in Nat, NEW x \in 1..4,
         base <= m, m <= base + w, base < n, n <= base + w,
         (7 + (m % 8) - ((n - 1) % 8)) % 8 < x
  PROVE  n <= m
OBVIOUS

\* In the window around the packet expected next, m + 1, the numbers of three bits tell packets apart.
LEMMA SeqTells ==
  ASSUME NEW n \in Nat, NEW m \in Nat, NEW w \in 1..4, NEW x \in 1..4, w <= x,
         m < n + w, n <= m + w
  PROVE  /\ (n - 1) % 8 = m % 8 <=> n = m + 1
         /\ n # m + 1 /\ ~((7 + ((n - 1) % 8) - (m % 8)) % 8 < x) => (7 + (m % 8) - ((n - 1) % 8)) % 8 < x
         /\ n = m + 1 => /\ ~((7 + (m % 8) - ((n - 1) % 8)) % 8 < x)
                         /\ (((n - 1) % 8) + 1) % 8 = n % 8 /\ ((m % 8) + 1) % 8 = n % 8
OBVIOUS

-----------------------------------------------------------------------------
\* Sequences.

\* A sequence all of whose elements are in a set is one of that set.
LEMMA SeqOf ==
  ASSUME NEW S, NEW T, NEW s \in Seq(S), \A i \in 1..Len(s) : s[i] \in T
  PROVE  s \in Seq(T)
OBVIOUS

\* The operations on lists keep the elements within any set of packets.
LEMMA ListsOf ==
  ASSUME NEW S, NEW q \in Seq(S), NEW p \in S, NEW sent \in Seq(S)
  PROVE  /\ QueueUnreliable(q, p) \in Seq(S)
         /\ sent # <<>> => Requeue(q, sent) \in Seq(S)
         /\ \A i, j \in Nat : i > 0 /\ j <= Len(q) => SubSeq(q, i, j) \in Seq(S)
<1>1. QueueUnreliable(q, p) \in Seq(S)
  BY HeadTailProperties, ConcatProperties DEF QueueUnreliable
<1>2. ASSUME sent # <<>> PROVE Requeue(q, sent) \in Seq(S)
  <2>1. sent[Len(sent)] \in S
    BY <1>2, EmptySeq, ElementOfSeq
  <2>2. CASE q # <<>> /\ IsUnreliable(Head(q))
    <3>1. <<Head(q), sent[Len(sent)]>> \in Seq(S) /\ Tail(q) \in Seq(S)
      BY <2>1, <2>2, HeadTailProperties
    <3> QED
      BY <2>2, <3>1, ConcatProperties DEF Requeue
  <2>3. CASE ~(q # <<>> /\ IsUnreliable(Head(q)))
    BY <2>3, ConcatProperties DEF Requeue
  <2> QED
    BY <2>2, <2>3
<1>3. ASSUME NEW i \in Nat, NEW j \in Nat, i > 0, j <= Len(q) PROVE SubSeq(q, i, j) \in Seq(S)
  <2>1. \A k \in i..j : q[k] \in S
    BY <1>3, ElementOfSeq
  <2> QED
    BY <1>3, <2>1, SubSeqProperties
<1> QED
  BY <1>1, <1>2, <1>3

\* The packets 1, 2, ... and the one after them.
LEMMA FirstAppend ==
  ASSUME NEW m \in Nat
  PROVE  /\ First(m) \in Seq(Item) /\ Len(First(m)) = m
         /\ Append(First(m), [ep |-> 1, n |-> m + 1]) = First(m + 1)
<1>1. First(m) \in [1..m -> Item]
  BY DEF First, Item
<1>2. First(m) \in Seq(Item) /\ Len(First(m)) = m
  BY <1>1, FunctionIsSeq
<1>3. First(m + 1) \in [1..(m + 1) -> Item]
  BY DEF First, Item
<1>4. First(m + 1) \in Seq(Item) /\ Len(First(m + 1)) = m + 1
  BY <1>3, FunctionIsSeq
<1>5. [ep |-> 1, n |-> m + 1] \in Item
  BY DEF Item
<1>6. \A i \in 1..(m + 1) : Append(First(m), [ep |-> 1, n |-> m + 1])[i] = First(m + 1)[i]
  <2>1. \A i \in 1..m : First(m)[i] = [ep |-> 1, n |-> i]
    BY DEF First
  <2>2. \A i \in 1..(m + 1) : First(m + 1)[i] = [ep |-> 1, n |-> i]
    BY DEF First
  <2> QED
    BY <1>2, <1>5, <2>1, <2>2, AppendProperties
<1>7. /\ Append(First(m), [ep |-> 1, n |-> m + 1]) \in Seq(Item)
      /\ Len(Append(First(m), [ep |-> 1, n |-> m + 1])) = m + 1
  BY <1>2, <1>5, AppendProperties
<1> QED
  BY <1>2, <1>4, <1>6, <1>7, SeqEqual

\* An element behind the second of two sequences.
LEMMA AppendConcat ==
  ASSUME NEW S, NEW s \in Seq(S), NEW t \in Seq(S), NEW x \in S
  PROVE  s \o Append(t, x) = Append(s \o t, x)
<1>1. Append(t, x) = t \o <<x>> /\ <<x>> \in Seq(S) /\ s \o t \in Seq(S)
  BY AppendIsConcat, ConcatProperties
<1>2. Append(s \o t, x) = (s \o t) \o <<x>>
  BY <1>1, AppendIsConcat
<1> QED
  BY <1>1, <1>2, ConcatAssociative

-----------------------------------------------------------------------------
\* The frames on their way.

\* What a frame carries.
LEMMA FrameFacts ==
  ASSUME NEW line \in Seq(Frame), NEW i \in 1..Len(line)
  PROVE  /\ line[i] \in Frame /\ line[i].ack \in 0..7
         /\ IsData(line[i]) => line[i].pkt \in DataPkt /\ line[i].pkt.item.n \in Nat \ {0}
<1>1. line[i] \in Frame
  BY ElementOfSeq
<1>2. \A f \in Frame : f.ack \in 0..7 /\ (IsData(f) => f.pkt \in DataPkt /\ f.pkt.item.n \in Nat \ {0})
  BY DEF Frame, TxPkt, DataPkt, CtrlPkt, NegoPkt, AckPkt, IsData, Item
<1> QED
  BY <1>1, <1>2

\* Some frames of a line, in their order.
Picked(line2, line) == \E at \in [1..Len(line2) -> 1..Len(line)] :
  \A i \in 1..Len(line2) : line2[i] = line[at[i]] /\ \A j \in 1..(i - 1) : at[j] < at[i]

\* What is said of the frames of a line holds of some of them.
LEMMA PickedKeeps ==
  ASSUME NEW line \in Seq(Frame), NEW line2 \in Seq(Frame), Picked(line2, line),
         NEW e, NEW top, NEW acc, NEW base
  PROVE  /\ DataLine(e, line, top, acc) => DataLine(e, line2, top, acc)
         /\ AckLine(line, base, acc) => AckLine(line2, base, acc)
<1>1. PICK at \in [1..Len(line2) -> 1..Len(line)] :
        \A i \in 1..Len(line2) : line2[i] = line[at[i]] /\ \A j \in 1..(i - 1) : at[j] < at[i]
  BY DEF Picked
<1>2. Len(line) \in Nat /\ Len(line2) \in Nat
  BY LenProperties
<1>3. \A i \in 1..Len(line2) : at[i] \in 1..Len(line) /\ line2[i] = line[at[i]]
  BY <1>1
<1>4. \A i \in 1..Len(line2) : \A j \in 1..(i - 1) :
        at[j] \in 1..(at[i] - 1) /\ line2[i] = line[at[i]] /\ line2[j] = line[at[j]]
  <2> SUFFICES ASSUME NEW i \in 1..Len(line2), NEW j \in 1..(i - 1)
               PROVE  at[j] \in 1..(at[i] - 1) /\ line2[j] = line[at[j]] /\ line2[i] = line[at[i]]
    OBVIOUS
  <2>1. j \in 1..Len(line2)
    BY <1>2
  <2>2. at[j] < at[i] /\ at[i] \in 1..Len(line) /\ at[j] \in 1..Len(line)
    BY <1>1, <1>3, <2>1
  <2> QED
    BY <1>3, <2>1, <2>2
<1>5. ASSUME DataLine(e, line, top, acc) PROVE DataLine(e, line2, top, acc)
  <2>1. line2 \in Seq(GenuineFrame(e))
    <3>1. \A i \in 1..Len(line) : line[i] \in GenuineFrame(e)
      BY <1>5, ElementOfSeq DEF DataLine
    <3>2. \A i \in 1..Len(line2) : line2[i] \in GenuineFrame(e)
      BY <1>3, <3>1
    <3> QED
      BY <3>2, SeqOf
  <2>2. \A i \in 1..Len(line2) : IsData(line2[i]) =>
          line2[i].pkt.item.n <= top /\ acc < line2[i].pkt.item.n + MaxWindow[e]
    BY <1>3, <1>5 DEF DataLine
  <2>3. \A i \in 1..Len(line2) : \A j \in 1..(i - 1) : IsData(line2[i]) /\ IsData(line2[j]) =>
          line2[j].pkt.item.n < line2[i].pkt.item.n + MaxWindow[e]
    BY <1>3, <1>4, <1>5 DEF DataLine
  <2> QED
    BY <2>1, <2>2, <2>3 DEF DataLine
<1>6. ASSUME AckLine(line, base, acc) PROVE AckLine(line2, base, acc)
  BY <1>3, <1>4, <1>6 DEF AckLine
<1> QED
  BY <1>5, <1>6

\* What is left of a line without one of its frames.
LEMMA PickedWithout ==
  ASSUME NEW r \in Seq(Frame), NEW t \in Seq(Frame), t # <<>>
  PROVE  Picked(r \o Tail(t), r \o t) /\ r \o Tail(t) \in Seq(Frame) /\ r \o t \in Seq(Frame)
<1> DEFINE line == r \o t
           line2 == r \o Tail(t)
           at == [i \in 1..Len(line2) |-> IF i <= Len(r) THEN i ELSE i + 1]
<1>1. /\ Tail(t) \in Seq(Frame) /\ Len(Tail(t)) = Len(t) - 1
      /\ \A i \in 1..Len(Tail(t)) : Tail(t)[i] = t[i + 1]
      /\ Len(t) \in Nat \ {0} /\ Len(r) \in Nat
  BY HeadTailProperties, EmptySeq, LenProperties
<1>2. /\ line \in Seq(Frame) /\ Len(line) = Len(r) + Len(t)
      /\ \A i \in 1..Len(line) : line[i] = IF i <= Len(r) THEN r[i] ELSE t[i - Len(r)]
  BY ConcatProperties
<1>3. /\ line2 \in Seq(Frame) /\ Len(line2) = Len(r) + Len(t) - 1
      /\ \A i \in 1..Len(line2) : line2[i] = IF i <= Len(r) THEN r[i] ELSE Tail(t)[i - Len(r)]
  BY <1>1, ConcatProperties
<1> HIDE DEF line, line2
<1>4. at \in [1..Len(line2) -> 1..Len(line)]
  BY <1>1, <1>2, <1>3
<1>5. ASSUME NEW i \in 1..Len(line2)
      PROVE  line2[i] = line[at[i]] /\ \A j \in 1..(i - 1) : at[j] < at[i]
  <2>1. CASE i <= Len(r)
    <3>1. at[i] = i /\ i \in 1..Len(line)
      BY <1>1, <1>2, <1>3, <2>1
    <3>2. line2[i] = line[i]
      BY <1>2, <1>3, <2>1, <3>1
    <3>3. \A j \in 1..(i - 1) : at[j] < at[i]
      BY <1>1, <1>3, <2>1, <3>1
    <3> QED
      BY <3>1, <3>2, <3>3
  <2>2. CASE i > Len(r)
    <3>1. at[i] = i + 1 /\ i + 1 \in 1..Len(line) /\ ~(i + 1 <= Len(r)) /\ i - Len(r) \in 1..Len(Tail(t))
      BY <1>1, <1>2, <1>3, <2>2
    <3>2. line2[i] = Tail(t)[i - Len(r)] /\ Tail(t)[i - Len(r)] = t[(i - Len(r)) + 1]
      BY <1>1, <1>3, <2>2, <3>1
    <3>3. line[i + 1] = t[(i + 1) - Len(r)] /\ (i + 1) - Len(r) = (i - Len(r)) + 1
      BY <1>1, <1>2, <3>1
    <3>4. \A j \in 1..(i - 1) : at[j] < at[i]
      BY <1>1, <1>3, <3>1
    <3> QED
      BY <3>1, <3>2, <3>3, <3>4
  <2> QED
    BY <1>1, <1>3, <2>1, <2>2
<1>6. Picked(line2, line)
  BY <1>4, <1>5 DEF Picked
<1> QED
  BY <1>2, <1>3, <1>6 DEF line, line2

\* A line without its first frame.
LEMMA PickedTail ==
  ASSUME NEW line \in Seq(Frame), line # <<>>
  PROVE  /\ Picked(Tail(line), line) /\ Tail(line) \in Seq(Frame)
         /\ Len(Tail(line)) = Len(line) - 1 /\ Len(line) \in Nat \ {0}
         /\ \A i \in 1..(Len(line) - 1) : Tail(line)[i] = line[i + 1]
         /\ Head(line) = line[1]
<1> DEFINE line2 == Tail(line)
           at == [i \in 1..Len(line2) |-> i + 1]
<1>1. /\ line2 \in Seq(Frame) /\ Len(line2) = Len(line) - 1 /\ Len(line) \in Nat \ {0}
      /\ \A i \in 1..(Len(line) - 1) : line2[i] = line[i + 1]
      /\ Head(line) = line[1]
  BY HeadTailProperties, EmptySeq
<1> HIDE DEF line2
<1>2. at \in [1..Len(line2) -> 1..Len(line)]
  BY <1>1
<1>3. \A i \in 1..Len(line2) : line2[i] = line[at[i]] /\ \A j \in 1..(i - 1) : at[j] < at[i]
  BY <1>1
<1>4. Picked(line2, line)
  BY <1>2, <1>3 DEF Picked
<1> QED
  BY <1>1, <1>4 DEF line2

\* AJ_ReceiveCallback of one end takes what AJ_TransmitCallback of the other has sent.
LEMMA LineDelivers ==
  ASSUME NEW r \in Seq(Frame), NEW t \in Seq(Frame), t # <<>>
  PROVE  Append(r, Head(t)) \o Tail(t) = r \o t
<1>1. /\ Tail(t) \in Seq(Frame) /\ Len(Tail(t)) = Len(t) - 1 /\ Len(t) \in Nat \ {0}
      /\ \A i \in 1..(Len(t) - 1) : Tail(t)[i] = t[i + 1]
      /\ Head(t) = t[1] /\ Head(t) \in Frame /\ Len(r) \in Nat
  BY HeadTailProperties, EmptySeq, LenProperties
<1> DEFINE a == Append(r, Head(t))
           x == a \o Tail(t)
           y == r \o t
<1>2. /\ a \in Seq(Frame) /\ Len(a) = Len(r) + 1 /\ a[Len(r) + 1] = t[1]
      /\ \A i \in 1..Len(r) : a[i] = r[i]
  BY <1>1, AppendProperties
<1> HIDE DEF a
<1>3. /\ x \in Seq(Frame) /\ Len(x) = Len(r) + Len(t)
      /\ \A i \in 1..Len(x) : x[i] = IF i <= Len(r) + 1 THEN a[i] ELSE Tail(t)[i - (Len(r) + 1)]
  <2>1. /\ a \o Tail(t) \in Seq(Frame) /\ Len(a \o Tail(t)) = Len(a) + Len(Tail(t))
        /\ \A i \in 1..(Len(a) + Len(Tail(t))) :
             (a \o Tail(t))[i] = IF i <= Len(a) THEN a[i] ELSE Tail(t)[i - Len(a)]
    BY <1>1, <1>2, ConcatProperties
  <2>2. Len(a) + Len(Tail(t)) = Len(r) + Len(t)
    BY <1>1, <1>2
  <2> QED
    BY <1>2, <2>1, <2>2
<1>4. /\ y \in Seq(Frame) /\ Len(y) = Len(r) + Len(t)
      /\ \A i \in 1..Len(y) : y[i] = IF i <= Len(r) THEN r[i] ELSE t[i - Len(r)]
  BY ConcatProperties
<1> HIDE DEF x, y
<1>5. ASSUME NEW i \in 1..Len(x) PROVE x[i] = y[i]
  <2>0. i \in Nat
    BY <1>1, <1>3
  <2>1. CASE i <= Len(r)
    <3>1. i \in 1..Len(y) /\ i \in 1..Len(r) /\ i <= Len(r) + 1
      BY <1>1, <1>3, <1>4, <1>5, <2>0, <2>1
    <3>2. x[i] = a[i] /\ a[i] = r[i]
      BY <1>2, <1>3, <1>5, <3>1
    <3>3. y[i] = r[i]
      BY <1>4, <2>1, <3>1
    <3> QED
      BY <3>2, <3>3
  <2>2. CASE i = Len(r) + 1
    <3>1. x[i] = t[1]
      BY <1>1, <1>2, <1>3, <2>2
    <3>2. ~(i <= Len(r)) /\ i - Len(r) = 1
      BY <1>1, <2>2
    <3> QED
      BY <1>3, <1>4, <3>1, <3>2
  <2>3. CASE i > Len(r) + 1
    <3>1. /\ ~(i <= Len(r)) /\ ~(i <= Len(r) + 1) /\ i - (Len(r) + 1) \in 1..(Len(t) - 1)
          /\ (i - (Len(r) + 1)) + 1 = i - Len(r)
      BY <1>1, <1>3, <2>3
    <3>2. x[i] = t[(i - (Len(r) + 1)) + 1]
      BY <1>1, <1>3, <3>1
    <3> QED
      BY <1>3, <1>4, <3>1, <3>2
  <2> QED
    BY <1>1, <2>0, <2>1, <2>2, <2>3
<1>6. x = y
  BY <1>3, <1>4, <1>5, SeqEqual
<1> QED
  BY <1>6 DEF x, y, a

\* AJ_ProcessRxBufferList takes the frame at the head of a line.
LEMMA LineTaken ==
  ASSUME NEW r \in Seq(Frame), NEW t \in Seq(Frame), r # <<>>
  PROVE  /\ Tail(r) \o t = Tail(r \o t) /\ Head(r \o t) = Head(r)
         /\ r \o t \in Seq(Frame) /\ r \o t # <<>>
<1>1. /\ Tail(r) \in Seq(Frame) /\ Len(Tail(r)) = Len(r) - 1 /\ Len(r) \in Nat \ {0}
      /\ \A i \in 1..(Len(r) - 1) : Tail(r)[i] = r[i + 1]
      /\ Head(r) = r[1] /\ Len(t) \in Nat
  BY HeadTailProperties, EmptySeq, LenProperties
<1> DEFINE l == r \o t
           x == Tail(r) \o t
<1>2. /\ l \in Seq(Frame) /\ Len(l) = Len(r) + Len(t)
      /\ \A i \in 1..Len(l) : l[i] = IF i <= Len(r) THEN r[i] ELSE t[i - Len(r)]
  BY ConcatProperties
<1>3. /\ x \in Seq(Frame) /\ Len(x) = Len(r) - 1 + Len(t)
      /\ \A i \in 1..Len(x) : x[i] = IF i <= Len(r) - 1 THEN Tail(r)[i] ELSE t[i - (Len(r) - 1)]
  BY <1>1, ConcatProperties
<1> HIDE DEF l, x
<1>4. l # <<>>
  BY <1>1, <1>2
<1>5. /\ Tail(l) \in Seq(Frame) /\ Len(Tail(l)) = Len(l) - 1 /\ Head(l) = l[1]
      /\ \A i \in 1..(Len(l) - 1) : Tail(l)[i] = l[i + 1]
  BY <1>2, <1>4, PickedTail
<1>6. ASSUME NEW i \in 1..Len(x) PROVE x[i] = Tail(l)[i]
  <2>1. i \in 1..(Len(l) - 1) /\ i + 1 \in 1..Len(l)
    BY <1>1, <1>2, <1>3
  <2>2. CASE i <= Len(r) - 1
    BY <1>1, <1>2, <1>3, <1>5, <2>1, <2>2
  <2>3. CASE i > Len(r) - 1
    <3>1. ~(i + 1 <= Len(r)) /\ (i + 1) - Len(r) = i - (Len(r) - 1) /\ ~(i <= Len(r) - 1)
      BY <1>1, <2>3
    <3> QED
      BY <1>2, <1>3, <1>5, <2>1, <3>1
  <2> QED
    BY <1>1, <2>1, <2>2, <2>3
<1>7. x = Tail(l)
  BY <1>1, <1>2, <1>3, <1>5, <1>6, SeqEqual
<1>8. l[1] = r[1]
  BY <1>1, <1>2
<1> QED
  BY <1>1, <1>2, <1>4, <1>5, <1>7, <1>8 DEF x, l

\* More packets have been queued.
LEMMA DataLineTop ==
  ASSUME NEW e \in Endpoint, NEW line, NEW top \in Nat, NEW top2 \in Nat, top <= top2, NEW acc,
         DataLine(e, line, top, acc)
  PROVE  DataLine(e, line, top2, acc)
<1>1. \A i \in 1..Len(line) : IsData(line[i]) => line[i].pkt.item.n \in Nat
  <2>1. \A f \in Frame : IsData(f) => f.pkt.item.n \in Nat
    BY DEF Frame, TxPkt, DataPkt, CtrlPkt, NegoPkt, AckPkt, IsData, Item
  <2>2. \A i \in 1..Len(line) : line[i] \in Frame
    BY ElementOfSeq DEF DataLine, GenuineFrame
  <2> QED
    BY <2>1, <2>2
<1> QED
  BY <1>1 DEF DataLine

\* Frames with packets of the window are put on the line.
LEMMA DataLineGrows ==
  ASSUME NEW e \in Endpoint, NEW line, NEW top \in Nat, NEW acc \in Nat, acc <= top,
         DataLine(e, line, top, acc), NEW frames \in Seq(GenuineFrame(e)),
         \A i \in 1..Len(frames) : IsData(frames[i]) =>
           frames[i].pkt.item.n <= top /\ top < frames[i].pkt.item.n + MaxWindow[e]
  PROVE  DataLine(e, line \o frames, top, acc)
<1> DEFINE l == line \o frames
<1>1. /\ line \in Seq(GenuineFrame(e)) /\ Len(line) \in Nat /\ Len(frames) \in Nat
      /\ MaxWindow[e] \in Nat
  BY LenProperties, MaxWindowType DEF DataLine
<1>2. /\ l \in Seq(GenuineFrame(e)) /\ Len(l) = Len(line) + Len(frames)
      /\ \A i \in 1..Len(l) : l[i] = IF i <= Len(line) THEN line[i] ELSE frames[i - Len(line)]
  BY <1>1, ConcatProperties
<1> HIDE DEF l
<1>3. \A f \in GenuineFrame(e) : IsData(f) => f.pkt.item.n \in Nat
  BY DEF GenuineFrame, Frame, TxPkt, DataPkt, CtrlPkt, NegoPkt, AckPkt, IsData, Item
<1>4. \A i \in 1..Len(l) : l[i] \in GenuineFrame(e)
  BY <1>2, ElementOfSeq
<1>5. \A i \in 1..Len(l) : i > Len(line) => i - Len(line) \in 1..Len(frames) /\ l[i] = frames[i - Len(line)]
  BY <1>1, <1>2
<1>6. \A i \in 1..Len(l) : i <= Len(line) => i \in 1..Len(line) /\ l[i] = line[i]
  BY <1>1, <1>2
<1>7. \A i \in 1..Len(l) : IsData(l[i]) /\ i > Len(line) =>
        l[i].pkt.item.n <= top /\ top < l[i].pkt.item.n + MaxWindow[e]
  BY <1>5
<1>8. \A i \in 1..Len(l) : IsData(l[i]) /\ i <= Len(line) =>
        l[i].pkt.item.n <= top /\ acc < l[i].pkt.item.n + MaxWindow[e]
  BY <1>6 DEF DataLine
<1>9. ASSUME NEW i \in 1..Len(l), IsData(l[i])
      PROVE  l[i].pkt.item.n <= top /\ acc < l[i].pkt.item.n + MaxWindow[e]
  <2>1. l[i].pkt.item.n \in Nat
    BY <1>3, <1>4, <1>9
  <2> QED
    BY <1>1, <1>7, <1>8, <1>9, <2>1
<1>10. ASSUME NEW i \in 1..Len(l), NEW j \in 1..(i - 1), IsData(l[i]), IsData(l[j])
       PROVE  l[j].pkt.item.n < l[i].pkt.item.n + MaxWindow[e]
  <2>1. j \in 1..Len(l) /\ j < i
    BY <1>1, <1>2
  <2>2. CASE i <= Len(line)
    <3>1. i \in 1..Len(line) /\ j <= Len(line) /\ l[i] = line[i] /\ l[j] = line[j]
      BY <1>1, <1>6, <2>1, <2>2
    <3> QED
      BY <1>10, <3>1 DEF DataLine
  <2>3. CASE i > Len(line)
    <3>1. l[j].pkt.item.n \in Nat /\ l[i].pkt.item.n \in Nat
      BY <1>3, <1>4, <1>10, <2>1
    <3>2. l[j].pkt.item.n <= top /\ top < l[i].pkt.item.n + MaxWindow[e]
      BY <1>7, <1>9, <1>10, <2>1, <2>3
    <3>3. ASSUME NEW x \in Nat, NEW y \in Nat, NEW t \in Nat, NEW m \in Nat, x <= t, t < y + m
          PROVE  x < y + m
      BY <3>3
    <3>4. MaxWindow[e] \in Nat /\ top \in Nat
      BY <1>1
    <3> QED
      BY <3>1, <3>2, <3>3, <3>4
  <2> QED
    BY <1>1, <2>2, <2>3
<1> QED
  BY <1>2, <1>9, <1>10 DEF DataLine, l

\* The packet at the head of the line is accepted, and is off the line.
LEMMA DataLineAccepts ==
  ASSUME NEW e \in Endpoint, NEW line \in Seq(Frame), line # <<>>, NEW top, NEW acc,
         DataLine(e, line, top, acc), IsData(Head(line))
  PROVE  DataLine(e, Tail(line), top, Head(line).pkt.item.n)
<1>1. /\ Picked(Tail(line), line) /\ Tail(line) \in Seq(Frame)
      /\ Len(Tail(line)) = Len(line) - 1 /\ Len(line) \in Nat \ {0}
      /\ \A i \in 1..(Len(line) - 1) : Tail(line)[i] = line[i + 1]
      /\ Head(line) = line[1]
  BY PickedTail
<1>2. DataLine(e, Tail(line), top, acc)
  BY <1>1, PickedKeeps
<1>3. \A i \in 1..Len(Tail(line)) : IsData(Tail(line)[i]) =>
        Head(line).pkt.item.n < Tail(line)[i].pkt.item.n + MaxWindow[e]
  <2> SUFFICES ASSUME NEW i \in 1..Len(Tail(line)), IsData(Tail(line)[i])
               PROVE  Head(line).pkt.item.n < Tail(line)[i].pkt.item.n + MaxWindow[e]
    OBVIOUS
  <2>1. i + 1 \in 1..Len(line) /\ 1 \in 1..((i + 1) - 1) /\ Tail(line)[i] = line[i + 1]
    BY <1>1
  <2> QED
    BY <1>1, <2>1 DEF DataLine
<1> QED
  BY <1>2, <1>3 DEF DataLine

\* Another packet has been accepted.
LEMMA AckLineAccepts ==
  ASSUME NEW line \in Seq(Frame), NEW base \in Nat, NEW acc \in Nat, NEW acc2 \in Nat, acc <= acc2,
         AckLine(line, base, acc)
  PROVE  AckLine(line, base, acc2)
<1>1. \A i \in 1..Len(line) : Pos(line[i].ack, base) \in Nat
  BY FrameFacts, PosFacts
<1> QED
  BY <1>1 DEF AckLine

\* Frames with the newest ack are put on the line.
LEMMA AckLineGrows ==
  ASSUME NEW line \in Seq(Frame), NEW base \in Nat, NEW acc \in Nat, base <= acc, acc <= base + 7,
         AckLine(line, base, acc), NEW frames \in Seq(Frame),
         \A i \in 1..Len(frames) : HasAck(frames[i]) => frames[i].ack = acc % 8
  PROVE  AckLine(line \o frames, base, acc)
<1> DEFINE l == line \o frames
<1>1. Len(line) \in Nat /\ Len(frames) \in Nat
  BY LenProperties
<1>2. /\ l \in Seq(Frame) /\ Len(l) = Len(line) + Len(frames)
      /\ \A i \in 1..Len(l) : l[i] = IF i <= Len(line) THEN line[i] ELSE frames[i - Len(line)]
  BY <1>1, ConcatProperties
<1> HIDE DEF l
<1>3. \A i \in 1..Len(l) : i > Len(line) => i - Len(line) \in 1..Len(frames) /\ l[i] = frames[i - Len(line)]
  BY <1>1, <1>2
<1>4. \A i \in 1..Len(l) : i <= Len(line) => i \in 1..Len(line) /\ l[i] = line[i]
  BY <1>1, <1>2
<1>5. Pos(acc % 8, base) = acc
  BY PosUnique
<1>6. \A i \in 1..Len(l) : HasAck(l[i]) /\ i > Len(line) => Pos(l[i].ack, base) = acc
  BY <1>3, <1>5
<1>7. \A i \in 1..Len(l) : HasAck(l[i]) => Pos(l[i].ack, base) <= acc
  <2>1. \A i \in 1..Len(l) : HasAck(l[i]) /\ i <= Len(line) => Pos(l[i].ack, base) <= acc
    BY <1>4 DEF AckLine
  <2> QED
    BY <1>1, <1>6, <2>1
<1>8. ASSUME NEW i \in 1..Len(l), NEW j \in 1..(i - 1), HasAck(l[i]), HasAck(l[j])
      PROVE  Pos(l[j].ack, base) <= Pos(l[i].ack, base)
  <2>1. j \in 1..Len(l) /\ j < i
    BY <1>1, <1>2
  <2>2. CASE i <= Len(line)
    <3>1. i \in 1..Len(line) /\ l[i] = line[i] /\ l[j] = line[j]
      BY <1>1, <1>4, <2>1, <2>2
    <3> QED
      BY <1>8, <3>1 DEF AckLine
  <2>3. CASE i > Len(line)
    BY <1>6, <1>7, <1>8, <2>1, <2>3
  <2> QED
    BY <1>1, <2>2, <2>3
<1> QED
  BY <1>7, <1>8 DEF AckLine, l

\* The ack at the head of the line is taken: no later one is before it.
LEMMA AckLineTaken ==
  ASSUME NEW line \in Seq(Frame), line # <<>>, NEW base \in Nat, NEW base2 \in Nat, NEW acc \in Nat,
         AckLine(line, base, acc), HasAck(Head(line)),
         base <= base2, base2 <= Pos(Head(line).ack, base)
  PROVE  AckLine(Tail(line), base2, acc)
<1> DEFINE l == Tail(line)
<1>1. /\ Picked(l, line) /\ l \in Seq(Frame)
      /\ Len(l) = Len(line) - 1 /\ Len(line) \in Nat \ {0}
      /\ \A i \in 1..(Len(line) - 1) : l[i] = line[i + 1]
      /\ Head(line) = line[1]
  BY PickedTail
<1>2. AckLine(l, base, acc)
  BY <1>1, PickedKeeps
<1>3. \A i \in 1..Len(l) : l[i].ack \in 0..7
  BY <1>1, FrameFacts
<1>4. ASSUME NEW i \in 1..Len(l), HasAck(l[i]) PROVE Pos(l[i].ack, base2) = Pos(l[i].ack, base)
  <2>1. i + 1 \in 1..Len(line) /\ 1 \in 1..((i + 1) - 1) /\ l[i] = line[i + 1]
    BY <1>1
  <2>2. Pos(line[1].ack, base) <= Pos(l[i].ack, base)
    BY <1>1, <1>4, <2>1 DEF AckLine
  <2>3. /\ Pos(line[1].ack, base) \in Nat /\ Pos(l[i].ack, base) \in Nat
    <3>1. line[1].ack \in 0..7
      BY <1>1, FrameFacts
    <3> QED
      BY <1>3, <3>1, PosFacts
  <2>4. base2 <= Pos(l[i].ack, base)
    BY <1>1, <2>2, <2>3
  <2> QED
    BY <1>3, <2>4, PosShift
<1> HIDE DEF l
<1>5. \A i \in 1..Len(l) : \A j \in 1..(i - 1) : j \in 1..Len(l)
  BY <1>1
<1>6. AckLine(l, base2, acc)
  BY <1>2, <1>4, <1>5 DEF AckLine
<1> QED
  BY <1>6 DEF l

-----------------------------------------------------------------------------
\* The packets that are held.

\* Those of the queue are in the window, the first of which is one after the last freed.
LEMMA HeldWindow ==
  ASSUME ListsInv, NEW e \in Endpoint, Held(e), Counted(e)
  PROVE  /\ Freed(e) \in Nat /\ Queued(e) \in Nat /\ Queued(e) <= Freed(e) + MaxWindow[e]
         /\ MaxWindow[e] \in 1..4
         /\ \A i \in 1..Len(txSent[e]) :
              txSent[e][i].item.n >= Freed(e) + i /\ txSent[e][i].item.n <= Queued(e)
         /\ \A i \in 1..Len(txQueue[e]) : txQueue[e][i].type = "DATA" =>
              txQueue[e][i].item.n > Freed(e) /\ txQueue[e][i].item.n <= Queued(e)
<1> DEFINE sent == txSent[e]
           q == txQueue[e]
<1>1. /\ sent \in Seq(DataPkt) /\ q \in Seq(TxPkt) /\ OnlyFirstUnreliable(q)
      /\ txFree[e] \in Nat /\ Queued(e) \in Nat /\ ListsOK(e) /\ Waiting(sent, q) \in Nat
  BY ListTypes
<1>2. MaxWindow[e] \in 1..4
  BY MaxWindowType
<1>3. Freed(e) \in Nat /\ Queued(e) <= Freed(e) + MaxWindow[e]
  <2>1. txFree[e] <= MaxWindow[e]
    BY <1>1, <1>2 DEF ListsOK
  <2>2. ASSUME NEW n \in Nat, NEW m \in Nat, NEW f \in Nat, f <= m
        PROVE  n <= (n - (m - f)) + m
    BY <2>2
  <2>3. Queued(e) <= (Queued(e) - (MaxWindow[e] - txFree[e])) + MaxWindow[e]
    BY <1>1, <1>2, <2>1, <2>2
  <2> QED
    BY <2>3 DEF Counted, Freed
<1>4. /\ Len(q) \in Nat /\ Off(q) \in 0..1 /\ Off(q) <= Len(q)
      /\ \A i \in 1..Len(q) : i > Off(q) <=> q[i].type = "DATA"
  BY <1>1, QueueFacts
<1>5. \A i \in 1..Waiting(sent, q) : At(sent, q, i) >= Freed(e) + i /\ At(sent, q, i) <= Queued(e)
  BY <1>1 DEF Held, ListsOK, Ordered
<1>6. Len(sent) \in Nat /\ Waiting(sent, q) >= Len(sent)
  BY <1>1, WaitingType
<1>7. ASSUME NEW i \in 1..Len(sent)
      PROVE  sent[i].item.n >= Freed(e) + i /\ sent[i].item.n <= Queued(e)
  <2>1. i \in 1..Waiting(sent, q) /\ At(sent, q, i) = sent[i].item.n
    BY <1>1, <1>6 DEF At
  <2> QED
    BY <1>5, <2>1
<1>8. ASSUME NEW i \in 1..Len(q), q[i].type = "DATA"
      PROVE  q[i].item.n > Freed(e) /\ q[i].item.n <= Queued(e)
  <2>1. i > Off(q)
    BY <1>4, <1>8
  <2>2. PICK m \in 1..Waiting(sent, q) : m = Len(sent) + i - Off(q)
    <3>1. Waiting(sent, q) = Len(sent) + Len(q) - Off(q)
      BY DEF Waiting
    <3>2. ASSUME NEW l \in Nat, NEW n \in Nat, NEW o \in 0..1, NEW j \in 1..n, j > o
          PROVE  l + j - o \in 1..(l + n - o)
      BY <3>2
    <3>3. Len(sent) + i - Off(q) \in 1..Waiting(sent, q)
      BY <1>4, <1>6, <2>1, <3>1, <3>2
    <3> QED
      BY <3>3
  <2>3. ~(m <= Len(sent)) /\ m - Len(sent) + Off(q) = i
    BY <1>4, <1>6, <2>1, <2>2
  <2>4. At(sent, q, m) = q[i].item.n
    BY <2>3 DEF At
  <2>5. q[i].item.n >= Freed(e) + m /\ q[i].item.n <= Queued(e)
    BY <1>5, <2>4
  <2>6. q[i].item.n \in Nat
    BY <1>1, <2>4, WaitingType
  <2> QED
    BY <1>1, <1>3, <2>5, <2>6
<1> QED
  BY <1>1, <1>2, <1>3, <1>7, <1>8

\* The numbers of the end that Held and Counted read.
LEMMA OrderTypes ==
  ASSUME ListsInv, NEW e \in Endpoint
  PROVE  /\ accepted[e] \in Nat /\ Freed(e) \in Int /\ Queued(e) \in Nat /\ MaxWindow[e] \in 1..4
         /\ rxBuf[e] \in Seq(Frame) /\ txBuf[e] \in Seq(Frame) /\ Line(e) \in Seq(Frame)
         /\ Peer[e] \in Endpoint /\ Peer[e] # e /\ Peer[Peer[e]] = e
         /\ Line(Peer[e]) = rxBuf[e] \o txBuf[Peer[e]]
<1>1. Peer[e] \in Endpoint /\ Peer[e] # e /\ Peer[Peer[e]] = e
  BY SlapAssumption
<1>2. /\ rxBuf[e] \in Seq(Frame) /\ txBuf[e] \in Seq(Frame) /\ rxBuf[Peer[e]] \in Seq(Frame)
      /\ accepted[e] \in Nat
  BY <1>1 DEF ListsInv, Inv, TypeOK, BufOK, HistOK
<1>3. Freed(e) \in Int /\ Queued(e) \in Nat /\ MaxWindow[e] \in 1..4
  BY ListTypes, MaxWindowType DEF Freed
<1>4. Line(e) \in Seq(Frame)
  BY <1>2, ConcatProperties DEF Line
<1> QED
  BY <1>1, <1>2, <1>3, <1>4 DEF Line

\* A step that takes d packets out of those that wait, and frees no more than that.
LEMMA HeldBehind ==
  ASSUME ListsInv, NEW e \in Endpoint, Held(e), NEW d,
         Behind(txSent'[e], txQueue'[e], txSent[e], txQueue[e], d),
         txSent'[e] \in Seq(Genuine(e)), txQueue'[e] \in Seq(Genuine(e)),
         txFree'[e] \in Nat, txFree'[e] <= txFree[e] + d,
         log'[e] = log[e], txSeqNum'[e] = txSeqNum[e]
  PROVE  Held(e)' /\ Freed(e)' = Freed(e) + (txFree'[e] - txFree[e])
<1>1. Queued(e)' = Queued(e) /\ Queued(e) \in Nat /\ MaxWindow[e] \in 1..4 /\ txFree[e] \in Nat
  BY ListTypes, MaxWindowType DEF Queued, Epoch
<1>2. /\ Freed(e)' = Freed(e) + (txFree'[e] - txFree[e]) /\ Freed(e) \in Int
      /\ Freed(e)' \in Int
  <2>1. Freed(e) = Queued(e) - (MaxWindow[e] - txFree[e])
    BY DEF Freed
  <2>2. Freed(e)' = Queued(e)' - (MaxWindow[e] - txFree'[e])
    BY DEF Freed
  <2>3. \A a, b \in Nat, q \in Nat, m \in 1..4 : q - (m - b) = q - (m - a) + (b - a)
                 /\ q - (m - a) \in Int
    OBVIOUS
  <2>4. txFree[e] \in Nat /\ txFree'[e] \in Nat /\ Queued(e) \in Nat /\ MaxWindow[e] \in 1..4
    BY <1>1
  <2>5. Queued(e)' = Queued(e)
    BY <1>1
  <2>6. Freed(e)' = Queued(e) - (MaxWindow[e] - txFree'[e])
    BY <2>2, <2>5
  <2>7. Freed(e) \in Int
    BY <2>1, <2>3, <2>4
  <2>8. Freed(e)' \in Int
    BY <2>6, <2>3, <2>4
  <2>9. Freed(e)' = Freed(e) + (txFree'[e] - txFree[e])
    BY <2>1, <2>3, <2>4, <2>6
  <2> QED
    BY <2>7, <2>8, <2>9
<1>3. ASSUME NEW i \in 1..Waiting(txSent'[e], txQueue'[e])
      PROVE  At(txSent'[e], txQueue'[e], i) >= Freed(e)' + i
  <2>1. /\ d \in Nat /\ Waiting(txSent'[e], txQueue'[e]) = Waiting(txSent[e], txQueue[e]) - d
        /\ At(txSent'[e], txQueue'[e], i) = At(txSent[e], txQueue[e], i + d)
    BY DEF Behind
  <2>2. i + d \in 1..Waiting(txSent[e], txQueue[e])
    BY <2>1, ListTypes
  <2>3. At(txSent[e], txQueue[e], i + d) >= Freed(e) + (i + d)
    BY <2>2 DEF Held
  <2>4. At(txSent[e], txQueue[e], i + d) \in Nat
    BY <2>2, ListTypes, WaitingType
  <2>5. Freed(e)' <= Freed(e) + d /\ i \in Nat
    <3>1. ASSUME NEW f \in Int, NEW a \in Nat, NEW b \in Nat, NEW n \in Nat, b <= a + n
          PROVE  f + (b - a) <= f + n
      BY <3>1
    <3>2. Freed(e) + (txFree'[e] - txFree[e]) <= Freed(e) + d
      BY <1>1, <1>2, <2>1, <3>1
    <3>3. Waiting(txSent'[e], txQueue'[e]) \in Int
      BY <2>1, ListTypes
    <3> QED
      BY <1>2, <3>2, <3>3
  <2>6. ASSUME NEW a \in Nat, NEW f \in Int, NEW g \in Int, NEW j \in Nat, NEW n \in Nat,
               a >= f + (j + n), g <= f + n
        PROVE  a >= g + j
    BY <2>6
  <2>7. At(txSent[e], txQueue[e], i + d) >= Freed(e)' + i
    BY <1>2, <2>1, <2>3, <2>4, <2>5, <2>6
  <2> QED
    BY <2>1, <2>7
<1> QED
  BY <1>1, <1>2, <1>3 DEF Held

-----------------------------------------------------------------------------
\* Every action keeps Order.

\* The variables of an end that sends, or of one that receives, keep their values in a step.
SameSend(e) ==
  /\ txSent'[e] = txSent[e] /\ txQueue'[e] = txQueue[e] /\ txFree'[e] = txFree[e]
  /\ log'[e] = log[e] /\ txSeqNum'[e] = txSeqNum[e]
SameReceive(e) ==
  /\ Received(e)' = Received(e) /\ expectedSeq'[e] = expectedSeq[e]
  /\ currentTxAck'[e] = currentTxAck[e] /\ windowSize'[e] = windowSize[e]

\* No frame is put on the line of e.
NoneSent(e) == Line(e)' \in Seq(Frame) /\ Picked(Line(e)', Line(e))

\* A step that leaves the lists of the sender alone.
LEMMA SameHeld ==
  ASSUME NEW e \in Endpoint, Held(e), SameSend(e)
  PROVE  Held(e)' /\ Freed(e)' = Freed(e) /\ Queued(e)' = Queued(e)
BY DEF Held, SameSend, Freed, Queued, Epoch

\* All the frames of a line.
LEMMA PickedSelf ==
  ASSUME NEW line \in Seq(Frame)
  PROVE  Picked(line, line)
<1> DEFINE at == [i \in 1..Len(line) |-> i]
<1>1. at \in [1..Len(line) -> 1..Len(line)]
  OBVIOUS
<1>2. \A i \in 1..Len(line) : line[i] = line[at[i]] /\ \A j \in 1..(i - 1) : at[j] < at[i]
  BY LenProperties
<1> QED
  BY <1>1, <1>2 DEF Picked

\* A step that leaves the two buffers of a line alone.
LEMMA SameLine ==
  ASSUME ListsInv, NEW e \in Endpoint, txBuf'[e] = txBuf[e], rxBuf'[Peer[e]] = rxBuf[Peer[e]]
  PROVE  NoneSent(e) /\ Line(e)' = Line(e)
<1>1. Line(e)' = Line(e) /\ Line(e) \in Seq(Frame)
  BY OrderTypes DEF Line
<1> QED
  BY <1>1, PickedSelf DEF NoneSent

\* A step that frees no packet, accepts none and puts no frame on the two lines.
LEMMA OrderMirrored ==
  ASSUME ListsInv, NEW e \in Endpoint, Order(e),
         Held(e)', Freed(e)' = Freed(e), Queued(e)' = Queued(e),
         accepted'[e] = accepted[e], Mirrored(e)',
         NoneSent(e), NoneSent(Peer[e])
  PROVE  Order(e)'
<1>1. Counted(e)'
  BY DEF Order, Counted
<1>2. DataLine(e, Line(e)', Queued(e)', accepted'[e])
  <2>1. Line(e) \in Seq(Frame) /\ Line(e)' \in Seq(Frame) /\ Picked(Line(e)', Line(e))
    BY OrderTypes DEF NoneSent
  <2>2. DataLine(e, Line(e)', Queued(e), accepted[e])
    BY <2>1, PickedKeeps DEF Order
  <2> QED
    BY <2>2
<1>3. AckLine(Line(Peer[e])', Freed(e)', accepted'[e])
  BY OrderTypes, PickedKeeps DEF Order, NoneSent
<1>4. DataLine(e, Line(e), Queued(e), accepted[e])'
  BY <1>2 DEF DataLine
<1>5. AckLine(Line(Peer[e]), Freed(e), accepted[e])'
  BY <1>3 DEF AckLine
<1> QED
  BY <1>1, <1>4, <1>5 DEF Order

\* The same, when the receiver does nothing at all.
LEMMA OrderKeeps ==
  ASSUME ListsInv, NEW e \in Endpoint, Order(e),
         Held(e)', Freed(e)' = Freed(e), Queued(e)' = Queued(e),
         accepted'[e] = accepted[e], SameReceive(Peer[e]),
         NoneSent(e), NoneSent(Peer[e])
  PROVE  Order(e)'
<1>1. Mirrored(e)'
  BY DEF Order, Mirrored, SameReceive
<1> QED
  BY <1>1, OrderMirrored

\* Steps that neither end of a stream notices.
LEMMA QuietOrder ==
  ASSUME ListsInv, NEW e \in Endpoint, NEW s \in Endpoint, Order(s),
         StartSend(e) \/ SendGivesUp(e) \/ SendWaits(e) \/ AJ_SerialDisconnect(e)
  PROVE  Order(s)'
<1>1. UNCHANGED <<windowSize, sendVars, txSeqNum, ackVars, recvVars, txBuf, rxBuf, histVars>>
  BY DEF StartSend, SendGivesUp, SendWaits, AJ_SerialDisconnect, Disconnect, DisconnectWaits,
     DisconnectEnds, linkVars, bufVars
<1>2. SameSend(s) /\ SameReceive(Peer[s]) /\ accepted'[s] = accepted[s]
  BY <1>1 DEF SameSend, SameReceive, Received, sendVars, ackVars, recvVars, histVars
<1>3. NoneSent(s) /\ NoneSent(Peer[s])
  BY <1>1, OrderTypes, SameLine
<1> QED
  BY <1>2, <1>3, SameHeld, OrderKeeps DEF Order

\* A frame that arrives stays on the line of its end; a lost one leaves it.
LEMMA LinesOrder ==
  ASSUME ListsInv, NEW e \in Endpoint, NEW s \in Endpoint, Order(s),
         Deliver(e) \/ Lose(e)
  PROVE  Order(s)'
<1>1. UNCHANGED <<linkVars, sendVars, txSeqNum, ackVars, recvVars, histVars>> /\ txBuf[e] # <<>>
      /\ txBuf' = [txBuf EXCEPT ![e] = Tail(@)]
      /\ \/ rxBuf' = [rxBuf EXCEPT ![Peer[e]] = Append(@, Head(txBuf[e]))]
         \/ rxBuf' = rxBuf
  BY DEF Deliver, Lose
<1>2. SameSend(s) /\ SameReceive(Peer[s]) /\ accepted'[s] = accepted[s]
  BY <1>1 DEF SameSend, SameReceive, Received, linkVars, sendVars, ackVars, recvVars, histVars
<1>3. ASSUME NEW f \in Endpoint PROVE NoneSent(f)
  <2>1. /\ txBuf \in [Endpoint -> Seq(Frame)] /\ rxBuf \in [Endpoint -> Seq(Frame)]
        /\ Peer[f] \in Endpoint /\ Peer[e] \in Endpoint /\ Peer[Peer[f]] = f /\ Peer[Peer[e]] = e
    BY SlapAssumption DEF ListsInv, Inv, TypeOK, BufOK
  <2>2. CASE f # e
    <3>1. Peer[f] # Peer[e]
      BY <2>1, <2>2
    <3>2. txBuf'[f] = txBuf[f] /\ rxBuf'[Peer[f]] = rxBuf[Peer[f]]
      BY <1>1, <2>1, <2>2, <3>1
    <3> QED
      BY <3>2, SameLine
  <2>3. CASE f = e
    <3>1. txBuf'[e] = Tail(txBuf[e]) /\ txBuf[e] \in Seq(Frame) /\ rxBuf[Peer[e]] \in Seq(Frame)
      BY <1>1, <2>1
    <3>2. CASE rxBuf' = [rxBuf EXCEPT ![Peer[e]] = Append(@, Head(txBuf[e]))]
      <4>1. rxBuf'[Peer[e]] = Append(rxBuf[Peer[e]], Head(txBuf[e]))
        BY <2>1, <3>2
      <4>2. Line(e)' = Line(e)
        BY <1>1, <3>1, <4>1, LineDelivers DEF Line
      <4>3. Line(e) \in Seq(Frame) /\ Picked(Line(e), Line(e))
        BY OrderTypes, PickedSelf
      <4> QED
        BY <2>3, <4>2, <4>3 DEF NoneSent
    <3>3. CASE rxBuf' = rxBuf
      <4>1. Line(e)' = rxBuf[Peer[e]] \o Tail(txBuf[e])
        BY <3>1, <3>3 DEF Line
      <4> QED
        BY <1>1, <2>3, <3>1, <4>1, PickedWithout DEF NoneSent, Line
    <3> QED
      BY <1>1, <3>2, <3>3
  <2> QED
    BY <2>2, <2>3
<1>4. NoneSent(s) /\ NoneSent(Peer[s])
  BY <1>3, SlapAssumption
<1> QED
  BY <1>2, <1>4, SameHeld, OrderKeeps DEF Order

\* What AJ_SerialRecv takes out of the receive queue it gives to the application.
LEMMA RecvKeeps ==
  ASSUME ListsInv, NEW e \in Endpoint, AJ_SerialRecv(e), NEW f \in Endpoint
  PROVE  Received(f)' = Received(f)
<1>0. PICK k \in 0..Len(rxRecv[e]) :
        /\ delivered' = [delivered EXCEPT ![e] = @ \o SubSeq(rxRecv[e], 1, k)]
        /\ rxRecv' = [rxRecv EXCEPT ![e] = SubSeq(@, k + 1, Len(@))]
  BY DEF AJ_SerialRecv
<1>1. rxRecv \in [Endpoint -> Seq(Item)] /\ delivered \in [Endpoint -> Seq(Item)]
  BY DEF ListsInv, Inv, TypeOK, RecvOK, HistOK
<1>2. CASE f # e
  BY <1>0, <1>1, <1>2 DEF Received
<1>3. CASE f = e
  <2>1. delivered'[e] = delivered[e] \o SubSeq(rxRecv[e], 1, k)
        /\ rxRecv'[e] = SubSeq(rxRecv[e], k + 1, Len(rxRecv[e]))
    BY <1>0, <1>1
  <2>2. rxRecv[e] \in Seq(Item) /\ delivered[e] \in Seq(Item) /\ Len(rxRecv[e]) \in Nat
    BY <1>1, LenProperties
  <2>3. /\ SubSeq(rxRecv[e], 1, k) \in Seq(Item) /\ SubSeq(rxRecv[e], k + 1, Len(rxRecv[e])) \in Seq(Item)
        /\ SubSeq(rxRecv[e], 1, k) \o SubSeq(rxRecv[e], k + 1, Len(rxRecv[e])) = rxRecv[e]
    <3>1. 1 \in 1..(Len(rxRecv[e]) + 1) /\ k \in (1 - 1)..Len(rxRecv[e])
          /\ Len(rxRecv[e]) \in k..Len(rxRecv[e])
      BY <2>2
    <3>2. SubSeq(rxRecv[e], 1, k) \o SubSeq(rxRecv[e], k + 1, Len(rxRecv[e])) = rxRecv[e]
      BY <2>2, <3>1, ConcatAdjacentSubSeq, SubSeqFull
    <3>3. \A i \in 1..Len(rxRecv[e]) : rxRecv[e][i] \in Item
      BY <2>2, ElementOfSeq
    <3>4. k \in Int /\ k + 1 \in Int /\ Len(rxRecv[e]) \in Int /\ 1 \in Int
          /\ (\A i \in 1..k : i \in 1..Len(rxRecv[e]))
          /\ (\A i \in (k + 1)..Len(rxRecv[e]) : i \in 1..Len(rxRecv[e]))
      BY <2>2
    <3>5. SubSeq(rxRecv[e], 1, k) \in Seq(Item)
      BY <3>3, <3>4, SubSeqProperties
    <3>6. SubSeq(rxRecv[e], k + 1, Len(rxRecv[e])) \in Seq(Item)
      BY <3>3, <3>4, SubSeqProperties
    <3> QED
      BY <3>2, <3>5, <3>6
  <2>4. Received(f)' = delivered[e] \o (SubSeq(rxRecv[e], 1, k) \o SubSeq(rxRecv[e], k + 1, Len(rxRecv[e])))
    <3>1. Received(f)' = (delivered[e] \o SubSeq(rxRecv[e], 1, k)) \o SubSeq(rxRecv[e], k + 1, Len(rxRecv[e]))
      BY <1>3, <2>1 DEF Received
    <3>2. \A x, y, z \in Seq(Item) : (x \o y) \o z = x \o (y \o z)
      BY ConcatAssociative
    <3> QED
      BY <2>2, <2>3, <3>1, <3>2
  <2> QED
    BY <1>3, <2>3, <2>4 DEF Received
<1> QED
  BY <1>2, <1>3

\* The application takes packets out of the receive queue: what has been received is the same.
LEMMA AJ_SerialRecvOrder ==
  ASSUME ListsInv, NEW e \in Endpoint, NEW s \in Endpoint, Order(s), AJ_SerialRecv(e)
  PROVE  Order(s)'
<1>1. UNCHANGED <<linkVars, sendVars, txSeqNum, ackVars, expectedSeq, bufVars, log, accepted>>
  BY DEF AJ_SerialRecv
<1>2. \A f \in Endpoint : Received(f)' = Received(f)
  BY RecvKeeps
<1>3. SameSend(s) /\ SameReceive(Peer[s]) /\ accepted'[s] = accepted[s]
  BY <1>1, <1>2, SlapAssumption DEF SameSend, SameReceive, linkVars, sendVars, ackVars
<1>4. NoneSent(s) /\ NoneSent(Peer[s])
  BY <1>1, OrderTypes, SameLine DEF bufVars
<1> QED
  BY <1>3, <1>4, SameHeld, OrderKeeps DEF Order

\* The unreliable packets of an end carry its own offer.
LEMMA GenuineControl ==
  ASSUME NEW e \in Endpoint
  PROVE  /\ Ack \in Genuine(e)
         /\ \A kind \in LinkPktType, size \in Nat \ {0} : Ctrl(e, kind, size) \in Genuine(e)
<1>1. Ack \in Genuine(e)
  <2>1. Ack.type = "ACK"
    BY DEF Ack
  <2> QED
    BY <2>1, ControlPackets DEF Genuine
<1>2. ASSUME NEW kind \in LinkPktType, NEW size \in Nat \ {0}
      PROVE  Ctrl(e, kind, size) \in Genuine(e)
  <2>1. /\ Ctrl(e, kind, size).type = "CTRL" /\ Ctrl(e, kind, size).kind = kind
        /\ kind = "NEGO" => Ctrl(e, kind, size).win = EncodeWindow(MaxWindow[e])
    BY DEF Ctrl, NegoPktType
  <2> QED
    BY <2>1, ControlPackets DEF Genuine
<1> QED
  BY <1>1, <1>2

\* A step that queues at most an unreliable packet.
LEMMA QueueHeld ==
  ASSUME ListsInv, NEW e \in Endpoint, Held(e), NEW p \in Genuine(e), IsUnreliable(p),
         txQueue'[e] \in {txQueue[e], QueueUnreliable(txQueue[e], p)},
         txSent'[e] = txSent[e], txFree'[e] = txFree[e], log'[e] = log[e],
         txSeqNum'[e] = txSeqNum[e]
  PROVE  Held(e)' /\ Freed(e)' = Freed(e) /\ Queued(e)' = Queued(e)
<1>1. p \in TxPkt /\ txFree[e] \in Nat /\ Freed(e) \in Int
  BY OrderTypes, ListTypes DEF Genuine
<1>2. Behind(txSent'[e], txQueue'[e], txSent[e], txQueue[e], 0)
  BY <1>1, ListTypes, BehindSelf, QueueUnreliableBehind
<1>3. txSent'[e] \in Seq(Genuine(e)) /\ txQueue'[e] \in Seq(Genuine(e))
  <2>1. txSent[e] \in Seq(Genuine(e)) /\ txQueue[e] \in Seq(Genuine(e))
    BY DEF Held
  <2>2. QueueUnreliable(txQueue[e], p) \in Seq(Genuine(e))
    BY <2>1, ListsOf
  <2> QED
    BY <2>1, <2>2
<1>4. Held(e)' /\ Freed(e)' = Freed(e) + (txFree'[e] - txFree[e])
  <2>1. txFree'[e] \in Nat /\ txFree'[e] <= txFree[e] + 0
    BY <1>1
  <2> QED
    BY <1>2, <1>3, <2>1, HeldBehind
<1>5. Freed(e)' = Freed(e) /\ Queued(e)' = Queued(e)
  BY <1>1, <1>4 DEF Queued, Epoch
<1> QED
  BY <1>4, <1>5

\* SendAck queues an ACK packet.
LEMMA SendAckOrder ==
  ASSUME ListsInv, NEW e \in Endpoint, NEW s \in Endpoint, Order(s), SendAck(e)
  PROVE  Order(s)'
<1>1. /\ txQueue' = [txQueue EXCEPT ![e] = IF pendingAcks[e] > 0 THEN QueueUnreliable(@, Ack) ELSE @]
      /\ UNCHANGED <<txSent, txFree, txSeqNum, currentTxAck, linkVars, recvVars, bufVars, histVars>>
  BY DEF SendAck
<1>2. Held(s)' /\ Freed(s)' = Freed(s) /\ Queued(s)' = Queued(s)
  <2>1. txQueue \in [Endpoint -> Seq(TxPkt)]
    BY DEF ListsInv, Inv, TypeOK, SendOK
  <2>2. txQueue'[s] \in {txQueue[s], QueueUnreliable(txQueue[s], Ack)}
    BY <1>1, <2>1
  <2> QED
    BY <1>1, <2>2, GenuineControl, ControlPackets, QueueHeld DEF Order, histVars
<1>3. SameReceive(Peer[s]) /\ accepted'[s] = accepted[s]
  BY <1>1 DEF SameReceive, Received, linkVars, recvVars, histVars
<1>4. NoneSent(s) /\ NoneSent(Peer[s])
  BY <1>1, OrderTypes, SameLine DEF bufVars
<1> QED
  BY <1>2, <1>3, <1>4, OrderKeeps

\* SendLinkPacket queues a link control packet.
LEMMA SendLinkPacketOrder ==
  ASSUME ListsInv, NEW e \in Endpoint, NEW s \in Endpoint, Order(s), SendLinkPacket(e)
  PROVE  Order(s)'
<1> DEFINE sends == linkState[e] \in DOMAIN TimedPacket
           p == Ctrl(e, TimedPacket[linkState[e]], packetSize[e])
<1>1. /\ txQueue' = [txQueue EXCEPT ![e] = IF sends THEN QueueUnreliable(@, p) ELSE @]
      /\ UNCHANGED <<txSent, txFree, txSeqNum, windowSize, ackVars, recvVars, bufVars, histVars>>
  BY DEF SendLinkPacket
<1>2. sends => p \in Genuine(e) /\ IsUnreliable(p)
  <2>1. sends => TimedPacket[linkState[e]] \in LinkPktType
    BY DEF TimedPacket, LinkPktType, NegoPktType
  <2>2. packetSize[e] \in Nat \ {0}
    BY DEF ListsInv, Inv, TypeOK, LinkOK
  <2> QED
    BY <2>1, <2>2, ControlPackets, GenuineControl
<1> HIDE DEF sends, p
<1>3. Held(s)' /\ Freed(s)' = Freed(s) /\ Queued(s)' = Queued(s)
  <2>1. txQueue \in [Endpoint -> Seq(TxPkt)]
    BY DEF ListsInv, Inv, TypeOK, SendOK
  <2>2. CASE s = e /\ sends
    <3>1. txQueue'[s] = QueueUnreliable(txQueue[s], p)
      BY <1>1, <2>1, <2>2
    <3> QED
      BY <1>1, <1>2, <2>2, <3>1, QueueHeld DEF Order, histVars
  <2>3. CASE ~(s = e /\ sends)
    <3>1. txQueue'[s] = txQueue[s]
      BY <1>1, <2>1, <2>3
    <3>2. SameSend(s)
      BY <1>1, <3>1 DEF SameSend, histVars
    <3> QED
      BY <3>2, SameHeld DEF Order
  <2> QED
    BY <2>2, <2>3
<1>4. SameReceive(Peer[s]) /\ accepted'[s] = accepted[s]
  BY <1>1 DEF SameReceive, Received, ackVars, recvVars, histVars
<1>5. NoneSent(s) /\ NoneSent(Peer[s])
  BY <1>1, OrderTypes, SameLine DEF bufVars
<1> QED
  BY <1>3, <1>4, <1>5, OrderKeeps

\* ResendPackets moves the packets of txSent to the queue, where some are forgotten.
LEMMA ResendPacketsOrder ==
  ASSUME ListsInv, NEW e \in Endpoint, NEW s \in Endpoint, Order(s), ResendPackets(e)
  PROVE  Order(s)'
<1>1. UNCHANGED <<txFree, txSeqNum, linkVars, ackVars, recvVars, bufVars, histVars>>
  BY DEF ResendPackets
<1>2. Held(s)' /\ Freed(s)' = Freed(s) /\ Queued(s)' = Queued(s)
  <2>1. txQueue \in [Endpoint -> Seq(TxPkt)] /\ txSent \in [Endpoint -> Seq(DataPkt)]
    BY DEF ListsInv, Inv, TypeOK, SendOK
  <2>2. CASE s = e /\ linkState[e] = "ACTIVE" /\ txSent[e] # <<>>
    <3>1. txQueue'[e] = Requeue(txQueue[e], txSent[e]) /\ txSent'[e] = <<>>
      BY <2>1, <2>2 DEF ResendPackets
    <3>2. PICK d \in Nat : Behind(txSent'[e], txQueue'[e], txSent[e], txQueue[e], d)
      BY <2>2, <3>1, ListTypes, RequeueBehind
    <3>3. txSent'[e] \in Seq(Genuine(e)) /\ txQueue'[e] \in Seq(Genuine(e))
      <4>1. Ack \in Genuine(e)
        BY GenuineControl
      <4> QED
        BY <2>2, <3>1, <4>1, ListsOf, EmptySeq DEF Order, Held
    <3>4. txFree'[e] = txFree[e] /\ txFree[e] \in Nat /\ Freed(e) \in Int
      BY <1>1, ListTypes, OrderTypes
    <3>5. Held(e)' /\ Freed(e)' = Freed(e) + (txFree'[e] - txFree[e])
      <4>1. Held(e) /\ log'[e] = log[e] /\ txSeqNum'[e] = txSeqNum[e]
        BY <1>1, <2>2 DEF Order, histVars
      <4>2. txFree'[e] \in Nat /\ txFree'[e] <= txFree[e] + d
        BY <3>4
      <4> QED
        BY <3>2, <3>3, <4>1, <4>2, HeldBehind
    <3>6. Freed(e)' = Freed(e)
      BY <3>4, <3>5
    <3>7. Queued(e)' = Queued(e)
      BY <1>1 DEF Queued, Epoch, histVars
    <3> QED
      BY <2>2, <3>5, <3>6, <3>7
  <2>3. CASE ~(s = e /\ linkState[e] = "ACTIVE" /\ txSent[e] # <<>>)
    <3>1. txQueue'[s] = txQueue[s] /\ txSent'[s] = txSent[s]
      BY <2>1, <2>3 DEF ResendPackets
    <3>2. SameSend(s)
      BY <1>1, <3>1 DEF SameSend, histVars
    <3> QED
      BY <3>2, SameHeld DEF Order
  <2> QED
    BY <2>2, <2>3
<1>3. SameReceive(Peer[s]) /\ accepted'[s] = accepted[s]
  BY <1>1 DEF SameReceive, Received, linkVars, ackVars, recvVars, histVars
<1>4. NoneSent(s) /\ NoneSent(Peer[s])
  BY <1>1, OrderTypes, SameLine DEF bufVars
<1> QED
  BY <1>2, <1>3, <1>4, OrderKeeps

\* The numbers that QueueReliable gives to new packets go on where those of the queued ones end.
LEMMA NextSeq ==
  ASSUME NEW top \in Nat, NEW k \in Nat
  PROVE  ((top % 8) + k) % 8 = (top + k) % 8 /\ (k > 0 => ((top % 8) + k - 1) % 8 = (top + k - 1) % 8)
OBVIOUS

\* AJ_SerialSend queues the next packets of the stream, as many as have a place in the window.
LEMMA SendQueuesHeld ==
  ASSUME ListsInv, NobodyRestarted, NEW e \in Endpoint, Held(e), SendQueues(e)
  PROVE  Held(e)' /\ Freed(e)' = Freed(e) /\ Queued(e)' \in Nat /\ Queued(e)' >= Queued(e)
<1> DEFINE k == Least(txFree[e], left[e])
           new == NewPackets(e, k)
           top == Queued(e)
           w == Waiting(txSent[e], txQueue[e])
<1>1. /\ txQueue' = [txQueue EXCEPT ![e] = @ \o new]
      /\ txFree' = [txFree EXCEPT ![e] = @ - k]
      /\ txSeqNum' = [txSeqNum EXCEPT ![e] = (@ + k) % 8]
      /\ log' = [log EXCEPT ![e][Epoch(e)] = @ + k]
      /\ UNCHANGED txSent
  BY DEF SendQueues
<1>2. k \in Nat /\ k <= txFree[e] /\ txFree[e] \in Nat
  BY DEF ListsInv, Inv, TypeOK, SendOK, AppOK, Least
<1>3. new \in Seq(DataPkt) /\ Len(new) = k /\ Epoch(e) = 1 /\ top \in Nat
  BY <1>2, NewPacketsType DEF ListsInv, Inv, NobodyRestarted
<1>4. \A i \in 1..k : /\ new[i].item.ep = 1 /\ new[i].item.n = top + i
                      /\ new[i].seq = (txSeqNum[e] + i - 1) % 8
  BY <1>3 DEF NewPackets
<1>5. /\ txQueue'[e] = txQueue[e] \o new /\ txFree'[e] = txFree[e] - k
      /\ txSent'[e] = txSent[e] /\ txSeqNum'[e] = (txSeqNum[e] + k) % 8
      /\ log'[e] = [log[e] EXCEPT ![Epoch(e)] = @ + k]
  BY <1>1 DEF ListsInv, Inv, TypeOK, SendOK, HistOK
<1>6. Queued(e)' = top + k
  <2>1. log[e] \in Seq(Nat) /\ Epoch(e) \in 1..Len(log[e])
    BY <1>3 DEF ListsInv, Inv, TypeOK, HistOK, Epoch
  <2>2. log'[e] = [log[e] EXCEPT ![Epoch(e)] = top + k] /\ top + k \in Nat
    BY <1>2, <1>3, <1>5 DEF Queued
  <2>3. Len(log'[e]) = Len(log[e]) /\ log'[e][Epoch(e)] = top + k
    BY <2>1, <2>2, ExceptSeq
  <2> QED
    BY <2>3 DEF Queued, Epoch
<1>7. /\ txSent[e] \in Seq(DataPkt) /\ txQueue[e] \in Seq(TxPkt) /\ OnlyFirstUnreliable(txQueue[e])
      /\ w \in Nat /\ txFree[e] + w <= MaxWindow[e] /\ MaxWindow[e] \in 1..4
      /\ Freed(e) = top - (MaxWindow[e] - txFree[e])
  BY ListTypes, OrderTypes DEF ListsOK, Freed
<1> HIDE DEF k, new, top, w
<1>8. Freed(e)' = Freed(e)
  <2>1. Freed(e)' = (top + k) - (MaxWindow[e] - (txFree[e] - k))
    BY <1>5, <1>6 DEF Freed
  <2>2. ASSUME NEW t \in Nat, NEW f \in Nat, NEW x \in Nat, NEW m \in Nat
        PROVE  (t + x) - (m - (f - x)) = t - (m - f)
    OBVIOUS
  <2>3. MaxWindow[e] \in Nat
    BY <1>7
  <2>4. (top + k) - (MaxWindow[e] - (txFree[e] - k)) = top - (MaxWindow[e] - txFree[e])
    BY <1>2, <1>3, <2>2, <2>3
  <2> QED
    BY <1>7, <2>1, <2>4
<1>9. txSeqNum'[e] = Queued(e)' % 8
  <2>1. txSeqNum[e] = top % 8
    BY DEF Held, top
  <2>2. ((top % 8) + k) % 8 = (top + k) % 8
    BY <1>2, <1>3, NextSeq
  <2> QED
    BY <1>5, <1>6, <2>1, <2>2
<1>10. txSent'[e] \in Seq(Genuine(e)) /\ txQueue'[e] \in Seq(Genuine(e))
  <2>1. ASSUME NEW i \in 1..Len(new) PROVE new[i] \in Genuine(e)
    <3>1. new[i] \in TxPkt /\ new[i].type = "DATA"
      <4>1. new[i] \in DataPkt
        BY <1>3, ElementOfSeq
      <4> QED
        BY <4>1, DataIsTx
    <3>2. /\ new[i].item.ep = 1 /\ new[i].item.n = top + i
          /\ new[i].seq = (txSeqNum[e] + i - 1) % 8 /\ i \in Nat /\ i > 0
      BY <1>2, <1>3, <1>4
    <3>3. ((top % 8) + i - 1) % 8 = (top + i - 1) % 8
      BY <1>3, <3>2, NextSeq
    <3>4. txSeqNum[e] = top % 8
      BY DEF Held, top
    <3>5. new[i].seq = (new[i].item.n - 1) % 8
      <4>1. new[i].seq = (top + i - 1) % 8
        BY <3>2, <3>3, <3>4
      <4>2. top + i - 1 = (top + i) - 1
        BY <1>3, <3>2
      <4> QED
        BY <1>3, <3>2, <4>1, <4>2
    <3> QED
      BY <3>1, <3>2, <3>5 DEF Genuine
  <2>2. new \in Seq(Genuine(e))
    BY <1>3, <2>1, SeqOf
  <2>3. txQueue[e] \in Seq(Genuine(e)) /\ txSent[e] \in Seq(Genuine(e))
    BY DEF Held
  <2>4. txQueue[e] \o new \in Seq(Genuine(e))
    BY <2>2, <2>3, ConcatProperties
  <2> QED
    BY <1>5, <2>3, <2>4
<1>11. ASSUME NEW i \in 1..Waiting(txSent'[e], txQueue'[e])
       PROVE  At(txSent'[e], txQueue'[e], i) >= Freed(e)' + i
  <2>1. /\ Waiting(txSent[e], txQueue[e] \o new) = w + k
        /\ \A j \in 1..w : At(txSent[e], txQueue[e] \o new, j) = At(txSent[e], txQueue[e], j)
        /\ \A j \in 1..k : At(txSent[e], txQueue[e] \o new, w + j) = top + j
    <3>1. \A j \in 1..Len(new) : new[j].item.n = top + j
      BY <1>3, <1>4
    <3>2. w = Waiting(txSent[e], txQueue[e])
      BY DEF w
    <3>3. /\ Waiting(txSent[e], txQueue[e] \o new) = Waiting(txSent[e], txQueue[e]) + Len(new)
          /\ \A j \in 1..Waiting(txSent[e], txQueue[e]) :
               At(txSent[e], txQueue[e] \o new, j) = At(txSent[e], txQueue[e], j)
          /\ \A j \in 1..Len(new) :
               At(txSent[e], txQueue[e] \o new, Waiting(txSent[e], txQueue[e]) + j) = top + j
      BY <1>3, <1>7, <3>1, SendAppends
    <3> QED
      BY <1>3, <3>2, <3>3
  <2>2. CASE i \in 1..w
    <3>1. At(txSent[e], txQueue[e], i) >= Freed(e) + i
      BY <2>2 DEF Held, w
    <3> QED
      BY <1>5, <1>8, <2>1, <2>2, <3>1
  <2>3. CASE i \notin 1..w
    <3>1. i - w \in 1..k /\ w + (i - w) = i
      BY <1>2, <1>5, <1>7, <2>1, <2>3
    <3>2. At(txSent'[e], txQueue'[e], i) = top + (i - w)
      BY <1>5, <2>1, <3>1
    <3>3. Freed(e)' = top - (MaxWindow[e] - txFree[e])
      BY <1>7, <1>8
    <3>4. ASSUME NEW t \in Nat, NEW x \in Nat, NEW j \in Nat, NEW m \in Nat, NEW f \in Nat,
                 f + x <= m
          PROVE  t + (j - x) >= (t - (m - f)) + j
      BY <3>4
    <3>5. i \in Nat /\ MaxWindow[e] \in Nat
      <4>1. Waiting(txSent'[e], txQueue'[e]) \in Nat
        BY <1>2, <1>5, <1>7, <2>1
      <4> QED
        BY <1>7, <4>1
    <3>6. top + (i - w) >= (top - (MaxWindow[e] - txFree[e])) + i
      BY <1>2, <1>3, <1>7, <3>4, <3>5
    <3> QED
      BY <3>2, <3>3, <3>6
  <2> QED
    BY <2>2, <2>3
<1>12. Held(e)'
  BY <1>9, <1>10, <1>11 DEF Held
<1>13. Queued(e)' \in Nat /\ Queued(e)' >= Queued(e)
  <2>1. Queued(e) = top
    BY DEF top
  <2> QED
    BY <1>2, <1>3, <1>6, <2>1
<1> QED
  BY <1>8, <1>12, <1>13

\* The new packets are behind all others of the stream.
LEMMA SendQueuesOrder ==
  ASSUME ListsInv, NobodyRestarted, NEW e \in Endpoint, NEW s \in Endpoint, Order(s), SendQueues(e)
  PROVE  Order(s)'
<1>1. /\ \E k : txQueue' = [txQueue EXCEPT ![e] = @ \o NewPackets(e, k)]
      /\ \E k : txFree' = [txFree EXCEPT ![e] = @ - k]
      /\ \E k : txSeqNum' = [txSeqNum EXCEPT ![e] = (@ + k) % 8]
      /\ \E k : log' = [log EXCEPT ![e][Epoch(e)] = @ + k]
      /\ UNCHANGED <<linkVars, txSent, ackVars, recvVars, bufVars, accepted, delivered>>
  BY DEF SendQueues
<1>2. SameReceive(Peer[s]) /\ accepted'[s] = accepted[s]
  BY <1>1 DEF SameReceive, Received, linkVars, ackVars, recvVars
<1>3. /\ NoneSent(s) /\ NoneSent(Peer[s]) /\ Line(s)' = Line(s) /\ Line(Peer[s])' = Line(Peer[s])
  BY <1>1, OrderTypes, SameLine DEF bufVars
<1>4. CASE s # e
  <2>1. SameSend(s)
    BY <1>1, <1>4 DEF SameSend, ListsInv, Inv, TypeOK, SendOK, HistOK
  <2> QED
    BY <1>2, <1>3, <2>1, SameHeld, OrderKeeps DEF Order
<1>5. CASE s = e
  <2>1. /\ Held(s)' /\ Freed(s)' = Freed(s) /\ Queued(s)' \in Nat /\ Queued(s)' >= Queued(s)
        /\ Queued(s) \in Nat /\ accepted[s] \in Nat
    BY <1>5, SendQueuesHeld, OrderTypes DEF Order
  <2>2. Counted(s)' /\ Mirrored(s)'
    <3>1. Counted(s)'
      BY <1>2, <2>1 DEF Order, Counted
    <3>2. Mirrored(s)'
      BY <1>2 DEF Order, Mirrored, SameReceive
    <3> QED
      BY <3>1, <3>2
  <2>3. DataLine(s, Line(s), Queued(s), accepted[s])'
    <3>1. DataLine(s, Line(s), Queued(s)', accepted[s])
      BY <2>1, DataLineTop DEF Order
    <3> QED
      BY <1>2, <1>3, <3>1 DEF DataLine
  <2>4. AckLine(Line(Peer[s]), Freed(s), accepted[s])'
    BY <1>2, <1>3, <2>1 DEF Order, AckLine
  <2> QED
    BY <2>1, <2>2, <2>3, <2>4 DEF Order
<1> QED
  BY <1>4, <1>5

-----------------------------------------------------------------------------
\* What AJ_FillTxBufferList puts on the line of its end.
LEMMA FillFrames ==
  ASSUME ListsInv, NEW e \in Endpoint, FillTxBuffers(e)
  PROVE  \E k \in 0..Len(txQueue[e]) :
           LET frames == [i \in 1..k |-> ToFrame(e, txQueue[e][i])] IN
           /\ frames \in Seq(Frame) /\ Len(frames) = k
           /\ Held(e) => frames \in Seq(GenuineFrame(e))
           /\ Line(e)' = Line(e) \o frames
<1> DEFINE q == txQueue[e]
           k == IF dataSent[e] THEN Least(Len(q), TxBufs[e] - Len(txBuf[e])) ELSE 0
           frames == [i \in 1..k |-> ToFrame(e, q[i])]
<1>1. /\ txBuf' = [txBuf EXCEPT ![e] = @ \o frames]
      /\ UNCHANGED rxBuf
  BY DEF FillTxBuffers
<1>2. q \in Seq(TxPkt) /\ Len(q) \in Nat
  BY ListTypes, LenProperties
<1>3. k \in 0..Len(q)
  BY <1>2, SlapAssumption, LenProperties DEF ListsInv, Inv, TypeOK, BufOK, Least
<1> HIDE DEF k, q
<1>4. frames \in Seq(Frame) /\ Len(frames) = k
  <2>1. ASSUME NEW i \in 1..k PROVE ToFrame(e, q[i]) \in Frame
    <3>1. q[i] \in TxPkt
      BY <1>2, <1>3, ElementOfSeq
    <3>2. currentTxAck[e] \in 0..7
      BY DEF ListsInv, Inv, TypeOK, AckOK
    <3> QED
      BY <3>1, <3>2 DEF ToFrame, Frame
  <2>2. frames \in [1..k -> Frame]
    BY <2>1
  <2> QED
    BY <1>3, <2>2, FunctionIsSeq
<1>5. \A i \in 1..k : frames[i] = ToFrame(e, q[i])
  OBVIOUS
<1> HIDE DEF frames
<1>6. ASSUME Held(e) PROVE frames \in Seq(GenuineFrame(e))
  <2>1. ASSUME NEW i \in 1..Len(frames) PROVE frames[i] \in GenuineFrame(e)
    <3>1. q[i] \in Genuine(e) /\ i \in 1..k
      <4>1. q \in Seq(Genuine(e)) /\ i \in 1..Len(q)
        BY <1>2, <1>3, <1>4, <1>6 DEF Held, q
      <4> QED
        BY <1>4, <4>1, ElementOfSeq
    <3>2. frames[i].pkt = q[i] /\ frames[i] \in Frame
      BY <1>4, <1>5, <3>1, ElementOfSeq DEF ToFrame
    <3> QED
      BY <3>1, <3>2 DEF GenuineFrame
  <2> QED
    BY <1>4, <2>1, SeqOf
<1>7. txBuf'[e] = txBuf[e] \o frames /\ txBuf[e] \in Seq(Frame) /\ rxBuf[Peer[e]] \in Seq(Frame)
  BY <1>1, OrderTypes DEF ListsInv, Inv, TypeOK, BufOK
<1>8. Line(e)' = Line(e) \o frames
  <2>1. Line(e)' = rxBuf[Peer[e]] \o (txBuf[e] \o frames)
    BY <1>1, <1>7 DEF Line
  <2>2. \A x, y, z \in Seq(Frame) : (x \o y) \o z = x \o (y \o z)
    BY ConcatAssociative
  <2> QED
    BY <1>4, <1>7, <2>1, <2>2 DEF Line
<1> QED
  BY <1>3, <1>4, <1>6, <1>8 DEF frames, q

\* AJ_FillTxBufferList moves packets to the list of those that wait for an ack.
LEMMA FillHeld ==
  ASSUME ListsInv, NEW e \in Endpoint, Held(e), FillTxBuffers(e)
  PROVE  Held(e)' /\ Freed(e)' = Freed(e) /\ Queued(e)' = Queued(e)
<1> DEFINE q == txQueue[e]
           k == IF dataSent[e] THEN Least(Len(q), TxBufs[e] - Len(txBuf[e])) ELSE 0
           data == IF k > 0 /\ IsUnreliable(Head(q)) THEN SubSeq(q, 2, k) ELSE SubSeq(q, 1, k)
           rest == SubSeq(q, k + 1, Len(q))
<1>1. /\ txQueue' = [txQueue EXCEPT ![e] = rest]
      /\ txSent' = [txSent EXCEPT ![e] = @ \o data]
      /\ UNCHANGED <<txFree, txSeqNum, log>>
  BY DEF FillTxBuffers, histVars
<1>2. /\ q \in Seq(TxPkt) /\ Len(q) \in Nat /\ OnlyFirstUnreliable(q) /\ txSent[e] \in Seq(DataPkt)
      /\ q \in Seq(Genuine(e)) /\ txSent[e] \in Seq(Genuine(e))
  BY LenProperties, ListTypes DEF Held
<1>3. k \in Nat /\ k <= Len(q)
  BY <1>2, SlapAssumption, LenProperties DEF ListsInv, Inv, TypeOK, BufOK, Least
<1> HIDE DEF k, q
<1>4. data \in Seq(DataPkt)
  BY <1>2, <1>3, FillData
<1>5. Behind(txSent[e] \o data, rest, txSent[e], q, 0)
  BY <1>2, <1>3, <1>4, FillBehind
<1>6. data \in Seq(Genuine(e)) /\ rest \in Seq(Genuine(e)) /\ txSent[e] \o data \in Seq(Genuine(e))
  <2>1. SubSeq(q, 1, k) \in Seq(Genuine(e)) /\ SubSeq(q, 2, k) \in Seq(Genuine(e)) /\ rest \in Seq(Genuine(e))
    <3>1. Ack \in Genuine(e)
      BY GenuineControl
    <3>2. \A i, j \in Nat : i > 0 /\ j <= Len(q) => SubSeq(q, i, j) \in Seq(Genuine(e))
      BY <1>2, <3>1, ListsOf
    <3> QED
      BY <1>2, <1>3, <3>2
  <2>2. data \in Seq(Genuine(e))
    BY <2>1
  <2> QED
    BY <1>2, <2>1, <2>2, ConcatProperties
<1> HIDE DEF data, rest
<1>7. txQueue'[e] = rest /\ txSent'[e] = txSent[e] \o data
  BY <1>1 DEF ListsInv, Inv, TypeOK, SendOK
<1>8. /\ txFree'[e] \in Nat /\ txFree'[e] <= txFree[e] + 0 /\ txFree'[e] = txFree[e]
      /\ log'[e] = log[e] /\ txSeqNum'[e] = txSeqNum[e] /\ Freed(e) \in Int
  <2>1. txFree[e] \in Nat /\ Freed(e) \in Int
    BY ListTypes, OrderTypes
  <2>2. txFree'[e] = txFree[e] /\ log'[e] = log[e] /\ txSeqNum'[e] = txSeqNum[e]
    BY <1>1
  <2> QED
    BY <2>1, <2>2
<1>9. Behind(txSent'[e], txQueue'[e], txSent[e], txQueue[e], 0)
  BY <1>5, <1>7 DEF q
<1>10. Held(e)' /\ Freed(e)' = Freed(e) + (txFree'[e] - txFree[e])
  BY <1>6, <1>7, <1>8, <1>9, HeldBehind
<1>11. Freed(e)' = Freed(e) /\ Queued(e)' = Queued(e)
  BY <1>8, <1>10 DEF Queued, Epoch
<1> QED
  BY <1>10, <1>11

\* The frames of AJ_FillTxBufferList carry packets of the window, and the newest ack.
LEMMA FillTxBuffersOrder ==
  ASSUME ListsInv, NEW e \in Endpoint, NEW s \in Endpoint, Order(s), FillTxBuffers(e)
  PROVE  Order(s)'
<1>1. /\ UNCHANGED <<rxBuf, txFree, currentTxAck, txSeqNum, linkVars, recvVars, histVars>>
      /\ \A f \in Endpoint : f # e =>
           txBuf'[f] = txBuf[f] /\ txQueue'[f] = txQueue[f] /\ txSent'[f] = txSent[f]
  BY DEF FillTxBuffers, ListsInv, Inv, TypeOK, SendOK, BufOK
<1>2. SameReceive(Peer[s]) /\ accepted'[s] = accepted[s]
  BY <1>1 DEF SameReceive, Received, linkVars, recvVars, histVars
<1>3. PICK k \in 0..Len(txQueue[e]) :
        LET frames == [i \in 1..k |-> ToFrame(e, txQueue[e][i])] IN
        /\ frames \in Seq(Frame) /\ Len(frames) = k
        /\ Held(e) => frames \in Seq(GenuineFrame(e))
        /\ Line(e)' = Line(e) \o frames
  BY FillFrames
<1> DEFINE frames == [i \in 1..k |-> ToFrame(e, txQueue[e][i])]
<1>4. /\ frames \in Seq(Frame) /\ Len(frames) = k /\ Line(e)' = Line(e) \o frames
      /\ Held(e) => frames \in Seq(GenuineFrame(e))
  BY <1>3
<1>5. \A i \in 1..k : frames[i] = ToFrame(e, txQueue[e][i])
  OBVIOUS
<1> HIDE DEF frames
<1>6. \A f \in Endpoint : f # e => NoneSent(f) /\ Line(f)' = Line(f)
  BY <1>1, SameLine, SlapAssumption
<1>7. CASE s = e
  <2>1. Held(s)' /\ Freed(s)' = Freed(s) /\ Queued(s)' = Queued(s)
    BY <1>7, FillHeld DEF Order
  <2>2. Counted(s)' /\ Mirrored(s)'
    BY <1>2, <2>1 DEF Order, Counted, Mirrored, SameReceive
  <2>3. DataLine(s, Line(s) \o frames, Queued(s), accepted[s])
    <3>1. \A i \in 1..Len(frames) : IsData(frames[i]) =>
            frames[i].pkt.item.n <= Queued(s) /\ Queued(s) < frames[i].pkt.item.n + MaxWindow[s]
      <4> SUFFICES ASSUME NEW i \in 1..Len(frames), IsData(frames[i])
                   PROVE  /\ frames[i].pkt.item.n <= Queued(s)
                          /\ Queued(s) < frames[i].pkt.item.n + MaxWindow[s]
        OBVIOUS
      <4>1. Len(txQueue[e]) \in Nat
        BY ListTypes, LenProperties
      <4>2. i \in 1..k /\ i \in 1..Len(txQueue[e])
        BY <1>4, <4>1
      <4>3. frames[i].pkt = txQueue[s][i]
        <5>1. frames[i] = ToFrame(e, txQueue[e][i])
          BY <1>5, <4>2
        <5> QED
          BY <1>7, <5>1 DEF ToFrame
      <4>4. txQueue[s][i].type = "DATA"
        BY <4>3 DEF IsData
      <4>5. /\ txQueue[s][i].item.n > Freed(s) /\ txQueue[s][i].item.n <= Queued(s)
            /\ Freed(s) \in Nat /\ Queued(s) \in Nat /\ Queued(s) <= Freed(s) + MaxWindow[s]
            /\ MaxWindow[s] \in 1..4
        BY <1>7, <4>2, <4>4, HeldWindow DEF Order
      <4>6. txQueue[s][i].item.n \in Nat
        <5>1. txQueue[s][i] \in TxPkt
          BY <1>7, <4>2, ListTypes, ElementOfSeq
        <5> QED
          BY <4>4, <5>1 DEF TxPkt, DataPkt, CtrlPkt, NegoPkt, AckPkt, Item
      <4>7. \A n, f, q \in Nat, w \in 1..4 : n > f /\ n <= q /\ q <= f + w => n <= q /\ q < n + w
        OBVIOUS
      <4>8. /\ txQueue[s][i].item.n <= Queued(s)
            /\ Queued(s) < txQueue[s][i].item.n + MaxWindow[s]
        BY <4>5, <4>6, <4>7
      <4> QED
        BY <4>3, <4>8
    <3>2. accepted[s] \in Nat /\ Queued(s) \in Nat
      BY OrderTypes
    <3>3. accepted[s] <= Queued(s) /\ DataLine(s, Line(s), Queued(s), accepted[s])
      BY DEF Order, Counted
    <3>4. frames \in Seq(GenuineFrame(s))
      BY <1>4, <1>7 DEF Order
    <3> QED
      BY <3>1, <3>2, <3>3, <3>4, DataLineGrows
  <2>4. DataLine(s, Line(s), Queued(s), accepted[s])'
    <3>1. Line(s)' = Line(s) \o frames
      BY <1>4, <1>7
    <3> QED
      BY <1>2, <2>1, <2>3, <3>1 DEF DataLine
  <2>5. AckLine(Line(Peer[s]), Freed(s), accepted[s])'
    <3>1. Line(Peer[s])' = Line(Peer[s])
      BY <1>6, <1>7, OrderTypes
    <3> QED
      BY <1>2, <2>1, <3>1 DEF Order, AckLine
  <2> QED
    BY <2>1, <2>2, <2>4, <2>5 DEF Order
<1>8. CASE Peer[s] = e
  <2>1. Peer[s] = e /\ s # e
    BY <1>8, OrderTypes
  <2>2. Held(s)' /\ Freed(s)' = Freed(s) /\ Queued(s)' = Queued(s)
    <3>1. SameSend(s)
      BY <1>1, <2>1 DEF SameSend, histVars
    <3> QED
      BY <3>1, SameHeld DEF Order
  <2>3. Counted(s)' /\ Mirrored(s)'
    BY <1>2, <2>2 DEF Order, Counted, Mirrored, SameReceive
  <2>4. DataLine(s, Line(s), Queued(s), accepted[s])'
    <3>1. Line(s)' = Line(s)
      BY <1>6, <2>1
    <3> QED
      BY <1>2, <2>2, <3>1 DEF Order, DataLine
  <2>5. AckLine(Line(e) \o frames, Freed(s), accepted[s])
    <3>1. \A i \in 1..Len(frames) : HasAck(frames[i]) => frames[i].ack = accepted[s] % 8
      <4>1. \A i \in 1..Len(frames) : HasAck(frames[i]) => frames[i].ack = currentTxAck[e]
        BY <1>4, <1>5 DEF ToFrame, HasAck
      <4>2. currentTxAck[e] = accepted[s] % 8
        BY <2>1 DEF Order, Mirrored
      <4> QED
        BY <4>1, <4>2
    <3>2. /\ Line(e) \in Seq(Frame) /\ Freed(s) \in Nat /\ accepted[s] \in Nat
          /\ AckLine(Line(e), Freed(s), accepted[s])
      BY <2>1, OrderTypes DEF Order, Counted
    <3>3. Freed(s) <= accepted[s] /\ accepted[s] <= Freed(s) + 7
      <4>1. Freed(s) <= accepted[s] /\ accepted[s] <= Queued(s)
        BY DEF Order, Counted
      <4>2. Queued(s) <= Freed(s) + MaxWindow[s] /\ MaxWindow[s] \in 1..4 /\ Queued(s) \in Nat
        BY HeldWindow DEF Order
      <4> QED
        BY <3>2, <4>1, <4>2
    <3> QED
      BY <1>4, <3>1, <3>2, <3>3, AckLineGrows
  <2>6. AckLine(Line(Peer[s]), Freed(s), accepted[s])'
    <3>1. Line(Peer[s])' = Line(e) \o frames
      BY <1>4, <2>1
    <3> QED
      BY <1>2, <2>2, <2>5, <3>1 DEF AckLine
  <2> QED
    BY <2>2, <2>3, <2>4, <2>6 DEF Order
<1>9. CASE s # e /\ Peer[s] # e
  <2>1. SameSend(s)
    BY <1>1, <1>9 DEF SameSend, histVars
  <2>2. NoneSent(s) /\ NoneSent(Peer[s])
    BY <1>6, <1>9, OrderTypes
  <2> QED
    BY <1>2, <2>1, <2>2, SameHeld, OrderKeeps DEF Order
<1> QED
  BY <1>7, <1>8, <1>9

-----------------------------------------------------------------------------
\* The receive side.

\* AJ_ProcessRxBufferList takes the head of the line of the other end.
LEMMA TakeLine ==
  ASSUME ListsInv, NEW e \in Endpoint, RxTake(e)
  PROVE  /\ Line(Peer[e]) \in Seq(Frame) /\ Line(Peer[e]) # <<>>
         /\ Line(Peer[e])' = Tail(Line(Peer[e])) /\ Head(Line(Peer[e])) = Head(rxBuf[e])
         /\ \A f \in Endpoint : NoneSent(f) /\ (f # Peer[e] => Line(f)' = Line(f))
<1>1. /\ rxBuf[e] # <<>> /\ rxBuf' = [rxBuf EXCEPT ![e] = Tail(@)] /\ txBuf' = txBuf
  BY DEF RxTake
<1>2. /\ rxBuf \in [Endpoint -> Seq(Frame)] /\ txBuf \in [Endpoint -> Seq(Frame)]
      /\ Peer[e] \in Endpoint /\ Peer[Peer[e]] = e
  BY SlapAssumption DEF ListsInv, Inv, TypeOK, BufOK
<1>3. Line(Peer[e]) = rxBuf[e] \o txBuf[Peer[e]] /\ Line(Peer[e])' = Tail(rxBuf[e]) \o txBuf[Peer[e]]
  BY <1>1, <1>2 DEF Line
<1>4. /\ Line(Peer[e]) \in Seq(Frame) /\ Line(Peer[e]) # <<>>
      /\ Line(Peer[e])' = Tail(Line(Peer[e])) /\ Head(Line(Peer[e])) = Head(rxBuf[e])
  <2>1. rxBuf[e] \in Seq(Frame) /\ txBuf[Peer[e]] \in Seq(Frame)
    BY <1>2
  <2> QED
    BY <1>1, <1>3, <2>1, LineTaken
<1>5. NoneSent(Peer[e])
  BY <1>4, PickedTail DEF NoneSent
<1>6. ASSUME NEW f \in Endpoint, f # Peer[e] PROVE NoneSent(f) /\ Line(f)' = Line(f)
  <2>1. Peer[f] \in Endpoint /\ Peer[f] # e
    BY <1>6, SlapAssumption
  <2>2. txBuf'[f] = txBuf[f] /\ rxBuf'[Peer[f]] = rxBuf[Peer[f]]
    BY <1>1, <1>2, <2>1
  <2> QED
    BY <2>2, SameLine
<1> QED
  BY <1>4, <1>5, <1>6

\* A frame that is discarded leaves the line.
LEMMA RxDiscardOrder ==
  ASSUME ListsInv, NEW e \in Endpoint, NEW s \in Endpoint, Order(s), RxDiscard(e)
  PROVE  Order(s)'
<1>1. /\ RxTake(e)
      /\ UNCHANGED <<windowSize, sendVars, txSeqNum, ackVars, recvVars, log, accepted, delivered>>
  BY DEF RxDiscard, RxTake
<1>2. SameSend(s) /\ SameReceive(Peer[s]) /\ accepted'[s] = accepted[s]
  BY <1>1 DEF SameSend, SameReceive, Received, sendVars, ackVars, recvVars
<1>3. NoneSent(s) /\ NoneSent(Peer[s])
  BY <1>1, TakeLine, OrderTypes
<1> QED
  BY <1>2, <1>3, SameHeld, OrderKeeps DEF Order

\* The window that ProcessNegoPacket takes has a place for every packet of the peer's.
LEMMA NegoWindow ==
  ASSUME NEW e \in Endpoint, NEW s \in Endpoint, Peer[s] = e, WindowFits(s)
  PROVE  Least(MaxWindow[e], DecodeWindow(EncodeWindow(MaxWindow[s]))) >= MaxWindow[s]
<1>1. MaxWindow[s] \in 1..4 /\ MaxWindow[e] \in 1..4 /\ MaxWindow[s] # 3 /\ MaxWindow[s] <= MaxWindow[e]
  BY MaxWindowType DEF WindowFits
<1>2. DecodeWindow(EncodeWindow(MaxWindow[s])) = MaxWindow[s]
  <2>1. MaxWindow[s] = 1 \/ MaxWindow[s] = 2 \/ MaxWindow[s] = 4
    BY <1>1
  <2> QED
    BY <2>1 DEF DecodeWindow, EncodeWindow
<1> QED
  BY <1>1, <1>2 DEF Least

\* AJ_Serial_LinkPacket takes the peer's window and may answer.
LEMMA RxControlOrder ==
  ASSUME ListsInv, NEW e \in Endpoint, NEW s \in Endpoint, Order(s), WindowFits(s), RxControl(e)
  PROVE  Order(s)'
<1> DEFINE p == Head(rxBuf[e]).pkt
           reply == LinkReply(linkState[e], p.kind)
           a1 == Ctrl(e, reply, packetSize'[e])
           nego == p.kind = "NEGO" /\ linkState[e] \in {"INITIALIZED", "ACTIVE"}
<1>1. /\ RxTake(e) /\ p.type = "CTRL"
      /\ txQueue' = [txQueue EXCEPT ![e] = IF reply = "none" THEN @ ELSE QueueUnreliable(@, a1)]
      /\ windowSize' = [windowSize EXCEPT ![e] =
                          IF nego THEN Least(MaxWindow[e], DecodeWindow(p.win)) ELSE @]
      /\ UNCHANGED <<txSent, txFree, txSeqNum, ackVars, recvVars, log, accepted, delivered>>
  BY DEF RxControl, RxTake, AJ_Serial_LinkPacket
<1>2. reply # "none" => a1 \in Genuine(e) /\ IsUnreliable(a1)
  <2>1. reply # "none" => reply \in LinkPktType
    BY DEF LinkReply, LinkPktType, NegoPktType
  <2>2. packetSize'[e] \in Nat \ {0}
    BY RxControlInv DEF ListsInv, Inv, TypeOK, LinkOK
  <2> HIDE DEF reply
  <2> QED
    BY <2>1, <2>2, ControlPackets, GenuineControl
<1> HIDE DEF reply, a1
<1>3. accepted'[s] = accepted[s] /\ NoneSent(s) /\ NoneSent(Peer[s])
  BY <1>1, TakeLine, OrderTypes
<1>4. Held(s)' /\ Freed(s)' = Freed(s) /\ Queued(s)' = Queued(s)
  <2>1. txQueue \in [Endpoint -> Seq(TxPkt)]
    BY DEF ListsInv, Inv, TypeOK, SendOK
  <2>2. CASE s = e /\ reply # "none"
    <3>1. txQueue'[e] = QueueUnreliable(txQueue[e], a1) /\ Held(e)
      BY <1>1, <2>1, <2>2 DEF Order
    <3> QED
      BY <1>1, <1>2, <2>2, <3>1, QueueHeld
  <2>3. CASE ~(s = e /\ reply # "none")
    <3>1. txQueue'[s] = txQueue[s]
      BY <1>1, <2>1, <2>3
    <3>2. SameSend(s)
      BY <1>1, <3>1 DEF SameSend
    <3> QED
      BY <3>2, SameHeld DEF Order
  <2> QED
    BY <2>2, <2>3
<1>5. windowSize'[Peer[s]] >= MaxWindow[s]
  <2>1. windowSize[Peer[s]] >= MaxWindow[s] /\ windowSize \in [Endpoint -> Nat]
    BY DEF Order, Mirrored, ListsInv, Inv, TypeOK, LinkOK, MIN_WINDOW_SIZE, MAX_WINDOW_SIZE
  <2>2. CASE Peer[s] = e /\ nego
    <3>1. p \in Genuine(s)
      <4>1. /\ Line(s) \in Seq(GenuineFrame(s)) /\ Head(Line(s)) = Head(rxBuf[e]) /\ Line(s) # <<>>
        BY <1>1, <2>2, TakeLine, OrderTypes DEF Order, DataLine
      <4>2. Head(Line(s)) \in GenuineFrame(s)
        BY <4>1, HeadTailProperties
      <4> QED
        BY <4>1, <4>2 DEF GenuineFrame
    <3>2. p.win = EncodeWindow(MaxWindow[s])
      BY <1>1, <2>2, <3>1 DEF Genuine
    <3>3. windowSize'[e] = Least(MaxWindow[e], DecodeWindow(EncodeWindow(MaxWindow[s])))
      BY <1>1, <2>1, <2>2, <3>2
    <3> QED
      BY <2>2, <3>3, NegoWindow
  <2>3. CASE ~(Peer[s] = e /\ nego)
    <3>1. windowSize'[Peer[s]] = windowSize[Peer[s]]
      BY <1>1, <2>1, <2>3, SlapAssumption
    <3> QED
      BY <2>1, <3>1
  <2> QED
    BY <2>2, <2>3
<1>6. Mirrored(s)'
  BY <1>1, <1>5 DEF Order, Mirrored, Received, recvVars, ackVars
<1> QED
  BY <1>3, <1>4, <1>6, OrderMirrored

\* CompletePacket tells the packet it expects from those that are sent again, and from those
\* that have overtaken a lost one, by three bits.
LEMMA RxDataStream ==
  ASSUME ListsInv, NobodyRestarted, NEW e \in Endpoint, NEW s \in Endpoint, Peer[s] = e,
         Order(s), NEW p \in DataPkt, p \in Genuine(s),
         p.item.n <= Queued(s), accepted[s] < p.item.n + MaxWindow[s],
         RxData(e, p), delivered' = delivered
  PROVE  /\ accepted'[s] \in {accepted[s], p.item.n}
         /\ accepted'[s] >= accepted[s] /\ accepted'[s] <= Queued(s) /\ accepted'[s] \in Nat
         /\ Received(e)' = First(accepted'[s])
         /\ expectedSeq'[e] = accepted'[s] % 8 /\ currentTxAck'[e] = accepted'[s] % 8
<1>0. PICK n \in Nat : n = p.item.n
  BY DEF DataPkt, Item
<1>1. PICK m \in Nat : m = accepted[s]
  BY OrderTypes
<1>2. PICK x \in 1..4 : x = windowSize[e]
  BY DEF ListsInv, Inv, TypeOK, LinkOK, MIN_WINDOW_SIZE, MAX_WINDOW_SIZE
<1>3. /\ Received(e) = First(m) /\ expectedSeq[e] = m % 8 /\ currentTxAck[e] = m % 8
      /\ MaxWindow[s] \in 1..4 /\ MaxWindow[s] <= x
  BY <1>1, <1>2, OrderTypes DEF Order, Mirrored
<1>4. /\ p.seq = (n - 1) % 8 /\ p.item = [ep |-> 1, n |-> n]
  <2>1. p.type = "DATA" /\ p.item \in Item
    BY DEF DataPkt
  <2> QED
    BY <1>0, <2>1 DEF Genuine, Item
<1>5. m <= Queued(s) /\ n <= Queued(s) /\ m < n + MaxWindow[s] /\ n <= m + MaxWindow[s]
  <2>1. Freed(s) <= m /\ m <= Queued(s) /\ Freed(s) \in Nat
    BY <1>1 DEF Order, Counted
  <2>2. Queued(s) <= Freed(s) + MaxWindow[s] /\ Queued(s) \in Nat
    BY HeldWindow DEF Order
  <2> QED
    BY <1>0, <1>1, <1>3, <2>1, <2>2
<1>6. /\ (n - 1) % 8 = m % 8 <=> n = m + 1
      /\ n # m + 1 /\ ~((7 + ((n - 1) % 8) - (m % 8)) % 8 < x) => (7 + (m % 8) - ((n - 1) % 8)) % 8 < x
      /\ n = m + 1 => /\ ~((7 + (m % 8) - ((n - 1) % 8)) % 8 < x)
                      /\ (((n - 1) % 8) + 1) % 8 = n % 8 /\ ((m % 8) + 1) % 8 = n % 8
  BY <1>3, <1>5, SeqTells
<1>7. /\ SEQ_GT(e, p.seq, expectedSeq[e]) <=> (7 + ((n - 1) % 8) - (m % 8)) % 8 < x
      /\ SEQ_GT(e, currentTxAck[e], p.seq) <=> (7 + (m % 8) - ((n - 1) % 8)) % 8 < x
  BY <1>2, <1>3, <1>4 DEF SEQ_GT
<1>8. /\ accepted \in [Endpoint -> Nat] /\ currentTxAck \in [Endpoint -> 0..7]
      /\ expectedSeq \in [Endpoint -> 0..7] /\ rxRecv \in [Endpoint -> Seq(Item)]
      /\ delivered \in [Endpoint -> Seq(Item)] /\ Peer[e] = s
  BY SlapAssumption DEF ListsInv, Inv, TypeOK, AckOK, RecvOK, HistOK
<1>9. CASE n = m + 1
  <2>1. p.seq = expectedSeq[e]
    BY <1>3, <1>4, <1>6, <1>9
  <2>2. /\ expectedSeq' = [expectedSeq EXCEPT ![e] = SeqInc(@)]
        /\ rxRecv' = [rxRecv EXCEPT ![e] = Append(@, p.item)]
        /\ AJ_SerialTx_ReceivedSeq(e, p.seq)
        /\ accepted' = [accepted EXCEPT ![Peer[e]] =
                          IF p.item.ep = Epoch(Peer[e]) THEN p.item.n ELSE @]
    BY <2>1 DEF RxData
  <2>3. accepted'[s] = n
    BY <1>4, <1>8, <2>2 DEF NobodyRestarted
  <2>4. expectedSeq'[e] = n % 8
    BY <1>3, <1>6, <1>8, <1>9, <2>2 DEF SeqInc
  <2>5. currentTxAck'[e] = n % 8
    <3>1. currentTxAck'[e] = SeqInc(p.seq)
      BY <1>6, <1>7, <1>8, <1>9, <2>2 DEF AJ_SerialTx_ReceivedSeq
    <3> QED
      BY <1>4, <1>6, <1>9, <3>1 DEF SeqInc
  <2>6. Received(e)' = First(n)
    <3>1. rxRecv'[e] = Append(rxRecv[e], [ep |-> 1, n |-> m + 1]) /\ delivered'[e] = delivered[e]
      BY <1>4, <1>8, <1>9, <2>2
    <3>2. [ep |-> 1, n |-> m + 1] \in Item
      BY DEF Item
    <3>3. delivered[e] \o Append(rxRecv[e], [ep |-> 1, n |-> m + 1])
            = Append(delivered[e] \o rxRecv[e], [ep |-> 1, n |-> m + 1])
      <4>1. \A y, z \in Seq(Item), i \in Item : y \o Append(z, i) = Append(y \o z, i)
        BY AppendConcat
      <4> QED
        BY <1>8, <3>2, <4>1
    <3>4. Append(First(m), [ep |-> 1, n |-> m + 1]) = First(m + 1)
      BY FirstAppend
    <3> QED
      BY <1>3, <1>9, <3>1, <3>3, <3>4 DEF Received
  <2> QED
    BY <1>0, <1>1, <1>5, <1>9, <2>3, <2>4, <2>5, <2>6
<1>10. CASE n # m + 1
  <2>1. p.seq # expectedSeq[e]
    BY <1>3, <1>4, <1>6, <1>10
  <2>2. /\ IF SEQ_GT(e, p.seq, expectedSeq[e]) THEN UNCHANGED <<txQueue, ackVars>>
           ELSE AJ_SerialTx_ReceivedSeq(e, p.seq)
        /\ UNCHANGED <<recvVars, accepted>>
    BY <2>1 DEF RxData
  <2>3. currentTxAck'[e] = currentTxAck[e]
    <3>1. CASE SEQ_GT(e, p.seq, expectedSeq[e])
      BY <2>2, <3>1 DEF ackVars
    <3>2. CASE ~SEQ_GT(e, p.seq, expectedSeq[e])
      <4>1. SEQ_GT(e, currentTxAck[e], p.seq)
        BY <1>6, <1>7, <1>10, <3>2
      <4> QED
        BY <1>8, <2>2, <3>2, <4>1 DEF AJ_SerialTx_ReceivedSeq
    <3> QED
      BY <3>1, <3>2
  <2>4. accepted'[s] = m /\ expectedSeq'[e] = expectedSeq[e] /\ Received(e)' = Received(e)
    BY <1>1, <2>2 DEF recvVars, Received
  <2> QED
    BY <1>1, <1>3, <1>5, <2>3, <2>4
<1> QED
  BY <1>9, <1>10

\* What an end does with a packet of the peer's: the stream of the peer goes on.
LEMMA RxPacketReceives ==
  ASSUME ListsInv, NobodyRestarted, NEW e \in Endpoint, NEW s \in Endpoint, Peer[s] = e,
         Order(s), RxPacket(e)
  PROVE  Order(s)'
<1> DEFINE fr == Head(rxBuf[e])
<1>1. /\ RxTake(e) /\ AJ_SerialTx_ReceivedAck(e, fr.ack) /\ fr.pkt.type # "CTRL"
      /\ IF fr.pkt.type = "DATA" THEN RxData(e, fr.pkt)
         ELSE UNCHANGED <<txQueue, ackVars, recvVars, accepted>>
      /\ windowSize' = windowSize /\ log' = log /\ delivered' = delivered /\ txSeqNum' = txSeqNum
  BY DEF RxPacket, RxTake
<1>2. /\ fr \in GenuineFrame(s) /\ fr = Head(Line(s)) /\ Line(s) \in Seq(Frame) /\ Line(s) # <<>>
      /\ Line(s)' = Tail(Line(s)) /\ NoneSent(s) /\ Line(e)' = Line(e) /\ e # s
      /\ Peer[e] = s
  <2>1. Peer[e] = s /\ e # s
    BY SlapAssumption
  <2>2. /\ Line(s) \in Seq(Frame) /\ Line(s) # <<>>
        /\ Line(s)' = Tail(Line(s)) /\ Head(Line(s)) = fr
        /\ NoneSent(s) /\ Line(e)' = Line(e)
    BY <1>1, <2>1, TakeLine
  <2>3. Head(Line(s)) \in GenuineFrame(s)
    BY <2>2, HeadTailProperties DEF Order, DataLine
  <2> QED
    BY <2>1, <2>2, <2>3
<1> HIDE DEF fr
<1>3. /\ txSent'[s] = txSent[s] /\ txFree'[s] = txFree[s] /\ txQueue'[s] = txQueue[s]
  <2>1. txSent'[s] = txSent[s] /\ txFree'[s] = txFree[s]
    BY <1>1, <1>2 DEF AJ_SerialTx_ReceivedAck, ListsInv, Inv, TypeOK, SendOK
  <2>2. txQueue'[s] = txQueue[s]
    BY <1>1, <1>2 DEF RxData, AJ_SerialTx_ReceivedSeq, ListsInv, Inv, TypeOK, SendOK
  <2> QED
    BY <2>1, <2>2
<1>4. Held(s)' /\ Freed(s)' = Freed(s) /\ Queued(s)' = Queued(s)
  <2>1. SameSend(s)
    BY <1>1, <1>3 DEF SameSend
  <2> QED
    BY <2>1, SameHeld DEF Order
<1>5. /\ accepted'[s] >= accepted[s] /\ accepted'[s] <= Queued(s) /\ accepted'[s] \in Nat
      /\ Received(e)' = First(accepted'[s])
      /\ expectedSeq'[e] = accepted'[s] % 8 /\ currentTxAck'[e] = accepted'[s] % 8
      /\ DataLine(s, Tail(Line(s)), Queued(s), accepted'[s])
  <2>1. DataLine(s, Line(s), Queued(s), accepted[s]) /\ DataLine(s, Tail(Line(s)), Queued(s), accepted[s])
    BY <1>2, PickedTail, PickedKeeps DEF Order
  <2>2. accepted[s] \in Nat /\ accepted[s] <= Queued(s) /\ Received(e) = First(accepted[s])
        /\ expectedSeq[e] = accepted[s] % 8 /\ currentTxAck[e] = accepted[s] % 8
    BY OrderTypes DEF Order, Counted, Mirrored
  <2>3. CASE fr.pkt.type = "DATA"
    <3>1. fr.pkt \in DataPkt /\ fr.pkt \in Genuine(s)
      BY <1>2, <2>3 DEF GenuineFrame, Frame, TxPkt, CtrlPkt, NegoPkt, AckPkt
    <3>2. fr.pkt.item.n <= Queued(s) /\ accepted[s] < fr.pkt.item.n + MaxWindow[s]
      <4>1. 1 \in 1..Len(Line(s)) /\ Line(s)[1] = fr
        BY <1>2, PickedTail
      <4> QED
        BY <2>1, <2>3, <4>1 DEF DataLine, IsData
    <3>3. /\ accepted'[s] \in {accepted[s], fr.pkt.item.n}
          /\ accepted'[s] >= accepted[s] /\ accepted'[s] <= Queued(s) /\ accepted'[s] \in Nat
          /\ Received(e)' = First(accepted'[s])
          /\ expectedSeq'[e] = accepted'[s] % 8 /\ currentTxAck'[e] = accepted'[s] % 8
      BY <1>1, <2>3, <3>1, <3>2, RxDataStream
    <3>4. DataLine(s, Tail(Line(s)), Queued(s), fr.pkt.item.n)
      BY <1>2, <2>1, <2>3, DataLineAccepts DEF IsData
    <3> QED
      BY <2>1, <3>3, <3>4
  <2>4. CASE fr.pkt.type # "DATA"
    <3>1. /\ accepted'[s] = accepted[s] /\ Received(e)' = Received(e)
          /\ expectedSeq'[e] = expectedSeq[e] /\ currentTxAck'[e] = currentTxAck[e]
      BY <1>1, <2>4 DEF recvVars, ackVars, Received
    <3> QED
      BY <2>1, <2>2, <3>1, OrderTypes
  <2> QED
    BY <2>3, <2>4
<1>6. Mirrored(s)' /\ Counted(s)'
  <2>1. Mirrored(s)'
    BY <1>1, <1>5 DEF Order, Mirrored
  <2>2. Counted(s)'
    <3>1. Freed(s) \in Nat /\ Freed(s) <= accepted[s] /\ accepted[s] \in Nat
      BY OrderTypes DEF Order, Counted
    <3> QED
      BY <1>4, <1>5, <3>1 DEF Counted
  <2> QED
    BY <2>1, <2>2
<1>7. DataLine(s, Line(s), Queued(s), accepted[s])'
  BY <1>2, <1>4, <1>5 DEF DataLine
<1>8. AckLine(Line(Peer[s]), Freed(s), accepted[s])'
  <2>1. /\ AckLine(Line(e), Freed(s), accepted[s]) /\ Freed(s) \in Nat /\ accepted[s] \in Nat
        /\ Line(e) \in Seq(Frame)
    BY OrderTypes DEF Order, Counted
  <2>2. AckLine(Line(e), Freed(s), accepted'[s])
    BY <1>5, <2>1, AckLineAccepts
  <2>3. Line(Peer[s])' = Line(e)
    BY <1>2
  <2> QED
    BY <1>4, <2>2, <2>3 DEF AckLine
<1> QED
  BY <1>4, <1>6, <1>7, <1>8 DEF Order

\* An ack that is on its way frees packets that have been accepted, and no others.
LEMMA AckFrees ==
  ASSUME ListsInv, NEW e \in Endpoint, Held(e), Counted(e),
         NEW ack \in 0..7, Pos(ack, Freed(e)) <= accepted[e],
         NEW k \in 0..Len(txSent[e]), \A i \in 1..k : SEQ_GT(e, ack, txSent[e][i].seq)
  PROVE  /\ \A i \in 1..k : txSent[e][i].item.n <= accepted[e]
         /\ Freed(e) + k <= Pos(ack, Freed(e))
<1>1. PICK base \in Nat : base = Freed(e)
  BY DEF Counted
<1>2. PICK m \in Nat : m = Pos(ack, base)
  BY <1>1, PosFacts
<1>3. PICK w \in 1..4 : w = MaxWindow[e]
  BY MaxWindowType
<1>4. PICK x \in 1..4 : x = windowSize[e]
  BY DEF ListsInv, Inv, TypeOK, LinkOK, MIN_WINDOW_SIZE, MAX_WINDOW_SIZE
<1>5. base <= m /\ m % 8 = ack
  BY <1>1, <1>2, PosFacts
<1>6. /\ m <= accepted[e] /\ accepted[e] <= Queued(e) /\ Queued(e) <= base + w
      /\ accepted[e] \in Nat /\ Queued(e) \in Nat
  BY <1>1, <1>2, <1>3, OrderTypes, HeldWindow DEF Counted
<1>7. m <= base + w
  BY <1>6
<1>8. ASSUME NEW i \in 1..k
      PROVE  txSent[e][i].item.n \in Nat /\ txSent[e][i].item.n <= m /\ txSent[e][i].item.n >= base + i
  <2>1. i \in 1..Len(txSent[e])
    BY ListTypes, LenProperties
  <2>2. txSent[e][i] \in DataPkt /\ txSent[e][i] \in Genuine(e)
    BY <2>1, ListTypes, ElementOfSeq DEF Held
  <2>3. PICK n \in Nat : n = txSent[e][i].item.n
    BY <2>2 DEF DataPkt, Item
  <2>4. txSent[e][i].seq = (n - 1) % 8
    BY <2>2, <2>3 DEF Genuine, DataPkt
  <2>5. n >= base + i /\ n <= Queued(e)
    BY <1>1, <2>1, <2>3, HeldWindow
  <2>6. (7 + (m % 8) - ((n - 1) % 8)) % 8 < x
    <3>1. SEQ_GT(e, ack, txSent[e][i].seq)
      OBVIOUS
    <3>2. (7 + ack - txSent[e][i].seq) % 8 < windowSize[e]
      BY <3>1 DEF SEQ_GT
    <3> QED
      BY <1>4, <1>5, <2>4, <3>2
  <2>7. base < n /\ n <= base + w
    BY <1>6, <2>5
  <2>8. n <= m
    BY <1>5, <1>7, <2>6, <2>7, AckCovers
  <2> QED
    BY <2>3, <2>5, <2>8
<1>9. ASSUME NEW i \in 1..k PROVE txSent[e][i].item.n <= accepted[e]
  <2>1. txSent[e][i].item.n \in Nat /\ txSent[e][i].item.n <= m
    BY <1>8
  <2>2. \A n, c \in Nat : n <= m /\ m <= c => n <= c
    OBVIOUS
  <2> QED
    BY <1>6, <2>1, <2>2
<1>10. base + k <= m
  <2>1. CASE k = 0
    BY <1>5, <2>1
  <2>2. CASE k # 0
    <3>1. k \in 1..k /\ k \in Nat
      BY <2>2, ListTypes, LenProperties
    <3> QED
      BY <1>8, <3>1
  <2> QED
    BY <2>1, <2>2
<1> QED
  BY <1>1, <1>2, <1>9, <1>10

\* The ack of the frame that an end takes is one of those that AckLine speaks of.
LEMMA HeadAck ==
  ASSUME ListsInv, NEW e \in Endpoint, Order(e), RxTake(e), Head(rxBuf[e]).pkt.type # "CTRL"
  PROVE  /\ Head(rxBuf[e]).ack \in 0..7
         /\ Pos(Head(rxBuf[e]).ack, Freed(e)) <= accepted[e]
         /\ HasAck(Head(Line(Peer[e])))
<1>1. /\ Line(Peer[e]) \in Seq(Frame) /\ Line(Peer[e]) # <<>>
      /\ Head(Line(Peer[e])) = Head(rxBuf[e])
  BY TakeLine
<1>2. 1 \in 1..Len(Line(Peer[e])) /\ Line(Peer[e])[1] = Head(rxBuf[e])
  BY <1>1, PickedTail
<1>3. HasAck(Line(Peer[e])[1])
  BY <1>2 DEF HasAck
<1>4. Line(Peer[e])[1].ack \in 0..7
  BY <1>1, <1>2, FrameFacts
<1>5. Pos(Line(Peer[e])[1].ack, Freed(e)) <= accepted[e]
  BY <1>2, <1>3 DEF Order, AckLine
<1> QED
  BY <1>1, <1>2, <1>3, <1>4, <1>5

\* What an end does with a packet of the peer's: its own packets are acknowledged.
LEMMA RxPacketFrees ==
  ASSUME ListsInv, NEW e \in Endpoint, Order(e), RxPacket(e)
  PROVE  Order(e)'
<1> DEFINE fr == Head(rxBuf[e])
<1>1. /\ RxTake(e) /\ AJ_SerialTx_ReceivedAck(e, fr.ack) /\ fr.pkt.type # "CTRL"
      /\ IF fr.pkt.type = "DATA" THEN RxData(e, fr.pkt)
         ELSE UNCHANGED <<txQueue, ackVars, recvVars, accepted>>
      /\ windowSize' = windowSize /\ log' = log /\ delivered' = delivered /\ txSeqNum' = txSeqNum
  BY DEF RxPacket, RxTake
<1>2. /\ Peer[e] \in Endpoint /\ Peer[e] # e /\ Peer[Peer[e]] = e
      /\ Line(Peer[e]) \in Seq(Frame) /\ Line(Peer[e]) # <<>>
      /\ Line(Peer[e])' = Tail(Line(Peer[e])) /\ Line(e)' = Line(e)
      /\ Head(Line(Peer[e])) = fr
  BY <1>1, TakeLine, SlapAssumption
<1>3. fr.ack \in 0..7 /\ Pos(fr.ack, Freed(e)) <= accepted[e] /\ HasAck(Head(Line(Peer[e])))
  BY <1>1, HeadAck
<1> HIDE DEF fr
<1>4. PICK k \in 0..Len(txSent[e]) :
        /\ \A i \in 1..k : SEQ_GT(e, fr.ack, txSent[e][i].seq)
        /\ txSent' = [txSent EXCEPT ![e] = SubSeq(@, k + 1, Len(@))]
        /\ txFree' = [txFree EXCEPT ![e] = @ + k]
  BY <1>1 DEF AJ_SerialTx_ReceivedAck
<1>5. Held(e) /\ Counted(e) /\ Mirrored(e)
  BY DEF Order
<1>6. Freed(e) + k <= Pos(fr.ack, Freed(e)) /\ k \in Nat /\ k <= Len(txSent[e]) /\ Freed(e) \in Nat
  <2>1. Freed(e) + k <= Pos(fr.ack, Freed(e))
    BY <1>3, <1>4, <1>5, AckFrees
  <2>2. k \in Nat /\ k <= Len(txSent[e])
    BY ListTypes, LenProperties
  <2> QED
    BY <1>5, <2>1, <2>2 DEF Counted
<1>7. /\ txSent'[e] = SubSeq(txSent[e], k + 1, Len(txSent[e])) /\ txFree'[e] = txFree[e] + k
      /\ txQueue'[e] \in {txQueue[e], QueueUnreliable(txQueue[e], Ack)}
      /\ log'[e] = log[e] /\ txSeqNum'[e] = txSeqNum[e] /\ txFree[e] \in Nat /\ txFree'[e] \in Nat
  <2>1. /\ txSent'[e] = SubSeq(txSent[e], k + 1, Len(txSent[e])) /\ txFree'[e] = txFree[e] + k
        /\ txFree[e] \in Nat
    BY <1>4, ListTypes DEF ListsInv, Inv, TypeOK, SendOK
  <2>2. txQueue'[e] \in {txQueue[e], QueueUnreliable(txQueue[e], Ack)}
    BY <1>1 DEF RxData, AJ_SerialTx_ReceivedSeq, ListsInv, Inv, TypeOK, SendOK
  <2> QED
    BY <1>1, <1>6, <2>1, <2>2
<1>8. Behind(txSent'[e], txQueue'[e], txSent[e], txQueue[e], k)
  <2>1. Behind(txSent'[e], txQueue[e], txSent[e], txQueue[e], k)
    BY <1>4, <1>7, ListTypes, DropBehind
  <2>2. txSent'[e] \in Seq(DataPkt)
    BY RxPacketInv DEF ListsInv, Inv, TypeOK, SendOK
  <2>3. Behind(txSent'[e], txQueue'[e], txSent'[e], txQueue[e], 0)
    BY <1>7, <2>2, ListTypes, ControlPackets, BehindSelf, QueueUnreliableBehind
  <2> QED
    BY <2>1, <2>2, <2>3, ListTypes, WaitingType, BehindBoth
<1>9. txSent'[e] \in Seq(Genuine(e)) /\ txQueue'[e] \in Seq(Genuine(e))
  <2>1. Ack \in Genuine(e) /\ Len(txSent[e]) \in Nat
    BY GenuineControl, ListTypes, LenProperties
  <2>2. \A i, j \in Nat : i > 0 /\ j <= Len(txSent[e]) => SubSeq(txSent[e], i, j) \in Seq(Genuine(e))
    BY <1>5, <2>1, ListsOf DEF Held
  <2>3. QueueUnreliable(txQueue[e], Ack) \in Seq(Genuine(e)) /\ txQueue[e] \in Seq(Genuine(e))
    BY <1>5, <2>1, ListsOf DEF Held
  <2>4. SubSeq(txSent[e], k + 1, Len(txSent[e])) \in Seq(Genuine(e))
    <3>1. k + 1 \in Nat /\ k + 1 > 0
      BY <1>6
    <3>2. Len(txSent[e]) <= Len(txSent[e])
      BY <2>1
    <3> QED
      BY <2>1, <2>2, <3>1, <3>2
  <2> QED
    BY <1>7, <2>3, <2>4
<1>10. Held(e)' /\ Freed(e)' = Freed(e) + k
  <2>1. txFree'[e] <= txFree[e] + k /\ txFree'[e] - txFree[e] = k
    BY <1>6, <1>7
  <2> QED
    BY <1>5, <1>7, <1>8, <1>9, <2>1, HeldBehind
<1>11. Queued(e)' = Queued(e)
  BY <1>1 DEF Queued, Epoch
<1>12. accepted'[e] = accepted[e] /\ SameReceive(Peer[e])
  <2>1. accepted'[e] = accepted[e]
    BY <1>1, <1>2 DEF RxData, ListsInv, Inv, TypeOK, HistOK
  <2>2. SameReceive(Peer[e])
    BY <1>1, <1>2 DEF SameReceive, Received, RxData, AJ_SerialTx_ReceivedSeq, recvVars, ackVars,
       ListsInv, Inv, TypeOK, AckOK, RecvOK
  <2> QED
    BY <2>1, <2>2
<1>13. Counted(e)' /\ Mirrored(e)'
  <2>1. Mirrored(e)'
    BY <1>5, <1>12 DEF Mirrored, SameReceive
  <2>2. Counted(e)'
    <3>1. Pos(fr.ack, Freed(e)) \in Nat /\ accepted[e] \in Nat
      BY <1>3, <1>6, PosFacts, OrderTypes
    <3>2. Freed(e) + k \in Nat /\ Freed(e) + k <= accepted[e]
      BY <1>3, <1>6, <3>1
    <3> QED
      BY <1>5, <1>10, <1>11, <1>12, <3>2 DEF Counted
  <2> QED
    BY <2>1, <2>2
<1>14. DataLine(e, Line(e), Queued(e), accepted[e])'
  BY <1>2, <1>11, <1>12 DEF Order, DataLine
<1>15. AckLine(Line(Peer[e]), Freed(e), accepted[e])'
  <2>1. Freed(e) + k \in Nat /\ Freed(e) <= Freed(e) + k /\ accepted[e] \in Nat
    <3>1. accepted[e] \in Nat
      BY OrderTypes
    <3> QED
      BY <1>6, <3>1
  <2>2. AckLine(Line(Peer[e]), Freed(e), accepted[e])
    BY DEF Order
  <2>3. AckLine(Tail(Line(Peer[e])), Freed(e) + k, accepted[e])
    BY <1>2, <1>3, <1>6, <2>1, <2>2, AckLineTaken
  <2> QED
    BY <1>2, <1>10, <1>12, <2>3 DEF AckLine
<1> QED
  BY <1>10, <1>13, <1>14, <1>15 DEF Order

\* CompletePacket, for the streams of both ends and those of other lines.
LEMMA RxPacketOrder ==
  ASSUME ListsInv, NobodyRestarted, NEW e \in Endpoint, NEW s \in Endpoint, Order(s), RxPacket(e)
  PROVE  Order(s)'
<1>1. CASE s = e
  BY <1>1, RxPacketFrees
<1>2. CASE Peer[s] = e
  BY <1>2, RxPacketReceives
<1>3. CASE s # e /\ Peer[s] # e
  <2>1. RxTake(e) /\ txSeqNum' = txSeqNum /\ log' = log /\ delivered' = delivered /\ windowSize' = windowSize
    BY DEF RxPacket, RxTake
  <2>2. NoneSent(s) /\ NoneSent(Peer[s]) /\ Peer[s] \in Endpoint /\ Peer[e] # s
    BY <1>3, <2>1, TakeLine, SlapAssumption
  <2>3. /\ AJ_SerialTx_ReceivedAck(e, Head(rxBuf[e]).ack)
        /\ RxData(e, Head(rxBuf[e]).pkt) \/ UNCHANGED <<txQueue, ackVars, recvVars, accepted>>
    BY DEF RxPacket
  <2>4. SameSend(s)
    <3>1. txSent'[s] = txSent[s] /\ txFree'[s] = txFree[s]
      BY <1>3, <2>3 DEF AJ_SerialTx_ReceivedAck, ListsInv, Inv, TypeOK, SendOK
    <3>2. txQueue'[s] = txQueue[s]
      BY <1>3, <2>3 DEF RxData, AJ_SerialTx_ReceivedSeq, ListsInv, Inv, TypeOK, SendOK
    <3> QED
      BY <2>1, <3>1, <3>2 DEF SameSend
  <2>5. SameReceive(Peer[s]) /\ accepted'[s] = accepted[s]
    <3>1. accepted'[s] = accepted[s]
      BY <2>2, <2>3 DEF RxData, ListsInv, Inv, TypeOK, HistOK
    <3>2. /\ rxRecv'[Peer[s]] = rxRecv[Peer[s]] /\ expectedSeq'[Peer[s]] = expectedSeq[Peer[s]]
          /\ currentTxAck'[Peer[s]] = currentTxAck[Peer[s]]
      BY <1>3, <2>2, <2>3 DEF RxData, AJ_SerialTx_ReceivedSeq, recvVars, ackVars,
         ListsInv, Inv, TypeOK, AckOK, RecvOK
    <3> QED
      BY <2>1, <3>1, <3>2 DEF SameReceive, Received
  <2> QED
    BY <2>2, <2>4, <2>5, SameHeld, OrderKeeps DEF Order
<1> QED
  BY <1>1, <1>2, <1>3

-----------------------------------------------------------------------------
\* The invariant.

\* Only sending and starting over write the count of the packets queued.
LEMMA LogSteps ==
  ASSUME [Next]_vars
  PROVE  UNCHANGED log \/ (\E f \in Endpoint : SendQueues(f)) \/ (\E f \in Endpoint : AJ_SerialInit(f))
<1>1. CASE UNCHANGED vars
  BY <1>1 DEF vars, histVars
<1>2. CASE Next
  <2>1. PICK e \in Endpoint :
          \/ StartSend(e) \/ AJ_SerialSend(e) \/ AJ_SerialRecv(e) \/ AJ_SerialDisconnect(e)
          \/ RxControl(e) \/ RxDiscard(e) \/ RxPacket(e)
          \/ FillTxBuffers(e) \/ ResendPackets(e) \/ SendAck(e) \/ SendLinkPacket(e)
          \/ Deliver(e) \/ Lose(e)
          \/ AJ_SerialInit(e)
    BY <1>2 DEF Next
  <2>2. CASE AJ_SerialSend(e)
    BY <2>2 DEF AJ_SerialSend, SendGivesUp, SendWaits, vars, histVars
  <2>3. CASE StartSend(e) \/ AJ_SerialRecv(e)
    BY <2>3 DEF StartSend, AJ_SerialRecv, histVars
  <2>4. CASE AJ_SerialDisconnect(e)
    BY <2>4 DEF AJ_SerialDisconnect, Disconnect, DisconnectWaits, DisconnectEnds, histVars
  <2>5. CASE RxControl(e)
    BY <2>5 DEF RxControl, RxTake, histVars
  <2>6. CASE RxDiscard(e)
    BY <2>6 DEF RxDiscard, RxTake, histVars
  <2>7. CASE RxPacket(e)
    BY <2>7 DEF RxPacket, RxTake, histVars
  <2>8. CASE FillTxBuffers(e) \/ ResendPackets(e) \/ SendAck(e) \/ SendLinkPacket(e)
    BY <2>8 DEF FillTxBuffers, ResendPackets, SendAck, SendLinkPacket, histVars
  <2>9. CASE Deliver(e) \/ Lose(e)
    BY <2>9 DEF Deliver, Lose, histVars
  <2> QED
    BY <2>1, <2>2, <2>3, <2>4, <2>5, <2>6, <2>7, <2>8, <2>9
<1> QED
  BY <1>1, <1>2

\* An incarnation ends for good: as long as no end has started over, none had.
LEMMA SessionGoesOn ==
  ASSUME ListsInv, [Next]_vars, NobodyRestarted'
  PROVE  NobodyRestarted /\ \A e \in Endpoint : ~AJ_SerialInit(e)
<1>0. \A e \in Endpoint : log[e] \in Seq(Nat) /\ Len(log[e]) \in Nat /\ Epoch(e) \in Nat \ {0}
  BY EmptySeq, LenProperties DEF ListsInv, Inv, TypeOK, HistOK, Epoch
<1>1. ASSUME NEW e \in Endpoint PROVE Epoch(e) = 1
  <2>1. Len(log'[e]) = 1
    BY DEF NobodyRestarted, Epoch
  <2>2. CASE log'[e] = log[e]
    BY <2>1, <2>2 DEF Epoch
  <2>3. CASE \E f \in Endpoint : SendQueues(f)
    <3>1. PICK f \in Endpoint : SendQueues(f)
      BY <2>3
    <3>2. PICK x : log' = [log EXCEPT ![f][Epoch(f)] = x]
      BY <3>1 DEF SendQueues
    <3>3. log'[e] = [log[e] EXCEPT ![Epoch(e)] = x] \/ log'[e] = log[e]
      BY <3>2 DEF ListsInv, Inv, TypeOK, HistOK
    <3>4. Len([log[e] EXCEPT ![Epoch(e)] = x]) = Len(log[e])
      BY <1>0
    <3> QED
      BY <2>1, <3>3, <3>4 DEF Epoch
  <2>4. CASE \E f \in Endpoint : AJ_SerialInit(f)
    <3>1. log'[e] = log[e] \/ log'[e] = Append(log[e], 0)
      BY <2>4 DEF AJ_SerialInit, ListsInv, Inv, TypeOK, HistOK
    <3>2. Len(Append(log[e], 0)) = Len(log[e]) + 1
      BY <1>0, AppendProperties
    <3> QED
      BY <1>0, <2>1, <3>1, <3>2 DEF Epoch
  <2>5. CASE UNCHANGED log
    BY <2>2, <2>5
  <2> QED
    BY <2>3, <2>4, <2>5, LogSteps
<1>2. ASSUME NEW e \in Endpoint, AJ_SerialInit(e) PROVE FALSE
  <2>1. log'[e] = Append(log[e], 0)
    BY <1>2 DEF AJ_SerialInit, ListsInv, Inv, TypeOK, HistOK
  <2>2. Len(Append(log[e], 0)) = Len(log[e]) + 1
    BY <1>0, AppendProperties
  <2>3. Len(log'[e]) = 1
    BY DEF NobodyRestarted, Epoch
  <2> QED
    BY <1>0, <2>1, <2>2, <2>3 DEF Epoch
<1> QED
  BY <1>1, <1>2 DEF NobodyRestarted

\* Where all is quiet, and d packets have been exchanged.
LEMMA QuietLine ==
  ASSUME NEW e \in Endpoint, NEW d \in Nat,
         Peer[e] \in Endpoint, Peer[Peer[e]] = e,
         txQueue[e] = <<>>, txSent[e] = <<>>, txFree[e] = MaxWindow[e], log[e] = <<d>>,
         txSeqNum[e] = d % 8, accepted[e] = d,
         delivered[Peer[e]] = First(d), rxRecv[Peer[e]] = <<>>,
         expectedSeq[Peer[e]] = d % 8, currentTxAck[Peer[e]] = d % 8,
         windowSize[Peer[e]] >= MaxWindow[e],
         txBuf[e] = <<>>, rxBuf[e] = <<>>, txBuf[Peer[e]] = <<>>, rxBuf[Peer[e]] = <<>>
  PROVE  Order(e)
<1>1. Waiting(<<>>, <<>>) = 0
  BY DEF Waiting, Off
<1>2. Queued(e) = d /\ MaxWindow[e] \in Nat
  BY MaxWindowType DEF Queued, Epoch
<1>3. Freed(e) = d
  BY <1>2 DEF Freed
<1>4. Held(e)
  BY <1>1, <1>2, EmptySeq DEF Held
<1>5. Counted(e)
  BY <1>2, <1>3 DEF Counted
<1>6. Mirrored(e)
  <2>1. First(d) \in Seq(Item)
    BY FirstAppend
  <2>2. First(d) \o <<>> = First(d)
    BY <2>1, ConcatEmptySeq
  <2> QED
    BY <2>2 DEF Mirrored, Received
<1>7. \A f \in {e, Peer[e]} : Line(f) = <<>>
  BY DEF Line
<1>8. DataLine(e, Line(e), Queued(e), accepted[e])
  BY <1>7, EmptySeq DEF DataLine
<1>9. AckLine(Line(Peer[e]), Freed(e), accepted[e])
  BY <1>7, EmptySeq DEF AckLine
<1> QED
  BY <1>4, <1>5, <1>6, <1>8, <1>9 DEF Order

\* A behaviour starts before the first packet, or after Done[e] packets of each end e.
LEMMA OrderInitInv == Init \/ InitUp => OrderInv
<1> SUFFICES ASSUME Init \/ InitUp, NEW e \in Endpoint, WindowFits(e)
             PROVE  Order(e)
  BY ListsInitInv DEF OrderInv, Session
<1>1. Peer[e] \in Endpoint /\ Peer[Peer[e]] = e
  BY SlapAssumption
<1>2. CASE Init
  <2>1. First(0) = <<>>
    BY FirstAppend, EmptySeq
  <2>2. windowSize[Peer[e]] >= MaxWindow[e]
    BY <1>1, <1>2, MaxWindowType DEF Init, WindowFits
  <2> QED
    BY <1>1, <1>2, <2>1, <2>2, QuietLine DEF Init
<1>3. CASE InitUp
  <2>1. Done[e] \in Nat
    BY SlapAssumption
  <2>2. windowSize[Peer[e]] >= MaxWindow[e]
    BY <1>1, <1>3, NegoWindow DEF InitUp
  <2>3. delivered[Peer[e]] = First(Done[e])
    BY <1>1, <1>3 DEF InitUp, First
  <2>4. /\ txQueue[e] = <<>> /\ txSent[e] = <<>> /\ txFree[e] = MaxWindow[e] /\ log[e] = <<Done[e]>>
        /\ txSeqNum[e] = Done[e] % 8 /\ accepted[e] = Done[e]
        /\ rxRecv[Peer[e]] = <<>> /\ expectedSeq[Peer[e]] = Done[e] % 8 /\ currentTxAck[Peer[e]] = Done[e] % 8
        /\ txBuf[e] = <<>> /\ rxBuf[e] = <<>> /\ txBuf[Peer[e]] = <<>> /\ rxBuf[Peer[e]] = <<>>
    BY <1>1, <1>3 DEF InitUp
  <2> QED
    BY <1>1, <2>1, <2>2, <2>3, <2>4, QuietLine
<1> QED
  BY <1>2, <1>3

\* A step in which nothing happens.
LEMMA SameOrder ==
  ASSUME ListsInv, NEW s \in Endpoint, Order(s), UNCHANGED vars
  PROVE  Order(s)'
<1>1. SameSend(s) /\ SameReceive(Peer[s]) /\ accepted'[s] = accepted[s]
  BY DEF SameSend, SameReceive, Received, vars, linkVars, sendVars, ackVars, recvVars, histVars
<1>2. NoneSent(s) /\ NoneSent(Peer[s])
  BY OrderTypes, SameLine DEF vars, bufVars
<1> QED
  BY <1>1, <1>2, SameHeld, OrderKeeps DEF Order

\* Every step keeps the invariant.
LEMMA OrderNextInv == OrderInv /\ [Next]_vars => OrderInv'
<1> SUFFICES ASSUME OrderInv, [Next]_vars, NobodyRestarted', NEW s \in Endpoint, WindowFits(s)
             PROVE  Order(s)'
  BY ListsNextInv DEF OrderInv, Session, WindowFits
<1>1. ListsInv /\ NobodyRestarted /\ Order(s) /\ \A e \in Endpoint : ~AJ_SerialInit(e)
  BY SessionGoesOn DEF OrderInv, Session
<1>2. CASE UNCHANGED vars
  BY <1>1, <1>2, SameOrder
<1>3. CASE Next
  <2>1. PICK e \in Endpoint :
          \/ StartSend(e) \/ AJ_SerialSend(e) \/ AJ_SerialRecv(e) \/ AJ_SerialDisconnect(e)
          \/ RxControl(e) \/ RxDiscard(e) \/ RxPacket(e)
          \/ FillTxBuffers(e) \/ ResendPackets(e) \/ SendAck(e) \/ SendLinkPacket(e)
          \/ Deliver(e) \/ Lose(e)
    BY <1>1, <1>3 DEF Next
  <2>2. CASE StartSend(e) \/ AJ_SerialSend(e) \/ AJ_SerialRecv(e) \/ AJ_SerialDisconnect(e)
    BY <1>1, <2>2, QuietOrder, SendQueuesOrder, AJ_SerialRecvOrder DEF AJ_SerialSend
  <2>3. CASE RxControl(e) \/ RxDiscard(e) \/ RxPacket(e)
    BY <1>1, <2>3, RxControlOrder, RxDiscardOrder, RxPacketOrder
  <2>4. CASE FillTxBuffers(e) \/ ResendPackets(e) \/ SendAck(e) \/ SendLinkPacket(e)
    BY <1>1, <2>4, FillTxBuffersOrder, ResendPacketsOrder, SendAckOrder, SendLinkPacketOrder
  <2>5. CASE Deliver(e) \/ Lose(e)
    BY <1>1, <2>5, LinesOrder
  <2> QED
    BY <2>1, <2>2, <2>3, <2>4, <2>5
<1> QED
  BY <1>2, <1>3

-----------------------------------------------------------------------------
\* What follows from the invariant.

\* No end starts over, and both use the same window, one that a NEGO packet can express.
OneSession == \A e \in Endpoint : MaxEpoch[e] = 1
SameWindows == \A e \in Endpoint : WindowFits(e)

\* The packets that have been received from an end are the first it has queued, in order.
StreamKept == NobodyRestarted =>
  \A e \in Endpoint : WindowFits(e) =>
    Received(Peer[e]) = First(accepted[e]) /\ accepted[e] <= Queued(e)

\* The invariant says this of every stream.
LEMMA OrderKeepsStream == OrderInv => StreamKept
BY DEF OrderInv, Session, Order, Mirrored, Counted, StreamKept

\* With the same windows at both ends it gives the order of every stream.
LEMMA OrderGivesInOrder ==
  ASSUME OrderInv, NobodyRestarted, SameWindows
  PROVE  InOrder /\ AckIsExpectedSeq
<1>1. ASSUME NEW e \in Endpoint
      PROVE  /\ Received(e) = First(accepted[Peer[e]]) /\ accepted[Peer[e]] \in Nat
             /\ currentTxAck[e] = expectedSeq[e]
  <2>1. Peer[e] \in Endpoint /\ Peer[Peer[e]] = e /\ Order(Peer[e])
    BY SlapAssumption DEF OrderInv, Session, SameWindows
  <2> QED
    BY <2>1, OrderTypes DEF OrderInv, Order, Mirrored
<1>2. ASSUME NEW e \in Endpoint, NEW i \in 1..Len(Received(e))
      PROVE  Received(e)[i].n = i /\ Received(e)[i].ep = Received(e)[1].ep
  <2>1. PICK m \in Nat : Received(e) = First(m)
    BY <1>1
  <2>2. Len(First(m)) = m
    BY FirstAppend
  <2>3. i \in 1..m /\ 1 \in 1..m
    BY <2>1, <2>2
  <2> QED
    BY <2>1, <2>3 DEF First
<1> QED
  BY <1>1, <1>2 DEF InOrder, AckIsExpectedSeq

\* At the start every end is in its first incarnation ...
LEMMA SessionInit == Init \/ InitUp => NobodyRestarted
<1> SUFFICES ASSUME Init \/ InitUp, NEW e \in Endpoint
             PROVE  Len(log[e]) = 1
  BY DEF NobodyRestarted, Epoch
<1>1. log[e] = <<0>> \/ log[e] = <<Done[e]>>
  BY DEF Init, InitUp
<1> QED
  BY <1>1

\* ... and stays there if AJ_SerialInit is called once.
LEMMA SessionNext ==
  ASSUME OneSession, ListsInv, NobodyRestarted, [Next]_vars
  PROVE  NobodyRestarted'
<1>1. \A e \in Endpoint : ~AJ_SerialInit(e)
  BY DEF AJ_SerialInit, OneSession, NobodyRestarted
<1>2. \A e \in Endpoint : log[e] \in Seq(Nat) /\ Len(log[e]) = 1
  BY DEF ListsInv, Inv, TypeOK, HistOK, NobodyRestarted, Epoch
<1>3. CASE \E f \in Endpoint : SendQueues(f)
  <2>0. PICK f \in Endpoint : SendQueues(f)
    BY <1>3
  <2>1. PICK x : log' = [log EXCEPT ![f][Epoch(f)] = x]
    BY <2>0 DEF SendQueues
  <2>2. ASSUME NEW e \in Endpoint PROVE Len(log'[e]) = 1
    <3>1. log'[e] = [log[e] EXCEPT ![Epoch(e)] = x] \/ log'[e] = log[e]
      BY <2>1 DEF ListsInv, Inv, TypeOK, HistOK
    <3>2. Len([log[e] EXCEPT ![Epoch(e)] = x]) = Len(log[e])
      BY <1>2
    <3> QED
      BY <1>2, <3>1, <3>2
  <2> QED
    BY <2>2 DEF NobodyRestarted, Epoch
<1>4. CASE UNCHANGED log
  BY <1>4 DEF NobodyRestarted, Epoch
<1> QED
  BY <1>1, <1>3, <1>4, LogSteps

\* Packets return to the free list in AJ_SerialTx_ReceivedAck only.
LEMMA FreedNext ==
  ASSUME OrderInv, NobodyRestarted, SameWindows, [Next]_vars, NEW e \in Endpoint,
         Epoch(e)' = Epoch(e), txFree'[e] > txFree[e],
         NEW i \in 1..(txFree'[e] - txFree[e])
  PROVE  txSent[e][i].item.n <= accepted[e]
<1>1. ListsInv /\ Order(e) /\ txFree \in [Endpoint -> Nat]
  BY DEF OrderInv, Session, SameWindows, ListsInv, Inv, TypeOK, SendOK
<1>2. CASE RxPacket(e)
  <2> DEFINE fr == Head(rxBuf[e])
  <2>1. RxTake(e) /\ AJ_SerialTx_ReceivedAck(e, fr.ack) /\ fr.pkt.type # "CTRL"
    BY <1>2 DEF RxPacket
  <2>2. fr.ack \in 0..7 /\ Pos(fr.ack, Freed(e)) <= accepted[e]
    BY <1>1, <2>1, HeadAck
  <2> HIDE DEF fr
  <2>3. PICK k \in 0..Len(txSent[e]) :
          /\ \A j \in 1..k : SEQ_GT(e, fr.ack, txSent[e][j].seq)
          /\ txFree' = [txFree EXCEPT ![e] = @ + k]
    BY <2>1 DEF AJ_SerialTx_ReceivedAck
  <2>4. \A j \in 1..k : txSent[e][j].item.n <= accepted[e]
    BY <1>1, <2>2, <2>3, AckFrees DEF Order
  <2>5. txFree'[e] - txFree[e] = k
    <3>1. txFree'[e] = txFree[e] + k /\ txFree[e] \in Nat
      BY <1>1, <2>3
    <3>2. k \in Nat
      BY <1>1, ListTypes, LenProperties
    <3> QED
      BY <3>1, <3>2
  <2> QED
    BY <2>4, <2>5
<1>3. CASE AJ_SerialInit(e)
  <2>1. log'[e] = Append(log[e], 0) /\ log[e] \in Seq(Nat) /\ Len(log[e]) \in Nat
    BY <1>1, <1>3, LenProperties DEF AJ_SerialInit, ListsInv, Inv, TypeOK, HistOK
  <2>2. Len(Append(log[e], 0)) = Len(log[e]) + 1
    BY <2>1, AppendProperties
  <2> QED
    BY <2>1, <2>2 DEF Epoch
<1>4. CASE SendQueues(e)
  <2>1. txFree' = [txFree EXCEPT ![e] = @ - Least(txFree[e], left[e])]
    BY <1>4 DEF SendQueues
  <2>2. Least(txFree[e], left[e]) \in Nat /\ txFree[e] \in Nat
    BY <1>1 DEF Least, ListsInv, Inv, TypeOK, AppOK
  <2> QED
    BY <1>1, <2>1, <2>2
<1>5. CASE txFree'[e] = txFree[e]
  BY <1>1, <1>5
<1>6. txFree'[e] = txFree[e] \/ RxPacket(e) \/ AJ_SerialInit(e) \/ SendQueues(e)
  <2>1. CASE UNCHANGED vars
    BY <2>1 DEF vars, sendVars
  <2>2. CASE Next
    <3>1. PICK f \in Endpoint :
            \/ StartSend(f) \/ AJ_SerialSend(f) \/ AJ_SerialRecv(f) \/ AJ_SerialDisconnect(f)
            \/ RxControl(f) \/ RxDiscard(f) \/ RxPacket(f)
            \/ FillTxBuffers(f) \/ ResendPackets(f) \/ SendAck(f) \/ SendLinkPacket(f)
            \/ Deliver(f) \/ Lose(f)
            \/ AJ_SerialInit(f)
      BY <2>2 DEF Next
    <3>2. CASE RxPacket(f) \/ AJ_SerialInit(f) \/ SendQueues(f)
      <4>1. f # e => txFree'[e] = txFree[e]
        BY <1>1, <3>2 DEF RxPacket, AJ_SerialTx_ReceivedAck, AJ_SerialInit, SendQueues
      <4> QED
        BY <3>2, <4>1
    <3>3. CASE ~(RxPacket(f) \/ AJ_SerialInit(f) \/ SendQueues(f))
      <4>1. UNCHANGED txFree
        BY <3>1, <3>3 DEF sendVars, StartSend, AJ_SerialSend, SendGivesUp, SendWaits, AJ_SerialRecv,
           AJ_SerialDisconnect, Disconnect, DisconnectWaits, DisconnectEnds, RxControl, RxDiscard,
           FillTxBuffers, ResendPackets, SendAck, SendLinkPacket, Deliver, Lose
      <4> QED
        BY <4>1
    <3> QED
      BY <3>2, <3>3
  <2> QED
    BY <2>1, <2>2
<1> QED
  BY <1>2, <1>3, <1>4, <1>5, <1>6

-----------------------------------------------------------------------------
\* The steps of Slap are steps of the stream, or change nothing that its users see.

\* What the ends have received: the variable got of SerialStream.
Got == [e \in Endpoint |-> Received(e)]

\* RxPacket puts at most one packet on the receive queue, the next of the stream.
LEMMA ReceivesNext ==
  ASSUME OrderInv, NobodyRestarted, SameWindows, NEW e \in Endpoint, RxPacket(e)
  PROVE  \/ Received(e)' = Received(e)
         \/ /\ Received(e)' = Append(Received(e), [ep |-> 1, n |-> Len(Received(e)) + 1])
            /\ Len(Received(e)) + 1 <= Queued(Peer[e])
            /\ Received(e) # <<>> => Received(e)[1].ep = 1
<1>1. /\ Peer[e] \in Endpoint /\ Peer[Peer[e]] = e /\ Order(Peer[e]) /\ ListsInv
  BY SlapAssumption DEF OrderInv, Session, SameWindows
<1>2. Order(Peer[e])'
  BY <1>1, RxPacketOrder
<1>3. PICK m \in Nat : m = accepted[Peer[e]]
  BY <1>1, OrderTypes
<1>4. Received(e) = First(m)
  BY <1>1, <1>3 DEF Order, Mirrored
<1>5. /\ Received(e)' = First(accepted'[Peer[e]]) /\ accepted'[Peer[e]] \in Nat
      /\ accepted'[Peer[e]] <= Queued(Peer[e])
  <2>1. accepted' \in [Endpoint -> Nat]
    BY <1>1, ListsNextInv DEF Next, ListsInv, Inv, TypeOK, HistOK
  <2>2. log' = log
    BY DEF RxPacket, RxTake
  <2> QED
    BY <1>1, <1>2, <2>1, <2>2 DEF Order, Mirrored, Counted, Queued, Epoch
<1>6. PICK k \in Nat : k = accepted'[Peer[e]]
  BY <1>5
<1>7. rxRecv[e] \in Seq(Item) /\ delivered[e] \in Seq(Item)
  BY <1>1 DEF ListsInv, Inv, TypeOK, RecvOK, HistOK
<1>8. CASE rxRecv'[e] = rxRecv[e]
  BY <1>8 DEF RxPacket, RxTake, Received
<1>9. CASE \E x \in Item : rxRecv'[e] = Append(rxRecv[e], x)
  <2>1. PICK x \in Item : rxRecv'[e] = Append(rxRecv[e], x)
    BY <1>9
  <2>2. Received(e)' = Append(Received(e), x)
    <3>1. \A s, t \in Seq(Item) : s \o Append(t, x) = Append(s \o t, x)
      BY AppendConcat
    <3>2. delivered' = delivered
      BY DEF RxPacket, RxTake
    <3> QED
      BY <1>7, <2>1, <3>1, <3>2 DEF Received
  <2>3. Len(Append(First(m), x)) = m + 1
    <3>1. First(m) \in Seq(Item) /\ Len(First(m)) = m
      BY FirstAppend
    <3> QED
      BY <3>1, AppendProperties
  <2>4. Len(First(k)) = k /\ Len(First(m)) = m
    BY FirstAppend
  <2>5. k = m + 1
    BY <1>4, <1>5, <1>6, <2>2, <2>3, <2>4
  <2>6. Received(e)' = Append(Received(e), [ep |-> 1, n |-> m + 1])
    BY <1>4, <1>5, <1>6, <2>5, FirstAppend
  <2>7. Received(e) # <<>> => Received(e)[1].ep = 1
    <3>1. m = 0 => First(m) = <<>>
      BY <2>4, FirstAppend, EmptySeq
    <3>2. m > 0 => First(m)[1] = [ep |-> 1, n |-> 1]
      BY DEF First
    <3> QED
      BY <1>4, <3>1, <3>2
  <2> QED
    BY <1>4, <1>5, <1>6, <2>4, <2>5, <2>6, <2>7
<1>10. rxRecv'[e] = rxRecv[e] \/ \E x \in Item : rxRecv'[e] = Append(rxRecv[e], x)
  <2>1. Head(rxBuf[e]).pkt.type = "DATA" => Head(rxBuf[e]).pkt.item \in Item
    <3>1. Head(rxBuf[e]) \in Frame
      BY <1>1, HeadTailProperties DEF RxPacket, RxTake, ListsInv, Inv, TypeOK, BufOK
    <3> QED
      BY <3>1 DEF Frame, TxPkt, DataPkt, CtrlPkt, NegoPkt, AckPkt
  <2>2. rxRecv \in [Endpoint -> Seq(Item)]
    BY <1>1 DEF ListsInv, Inv, TypeOK, RecvOK
  <2> QED
    BY <2>1, <2>2 DEF RxPacket, RxData, recvVars
<1> QED
  BY <1>8, <1>9, <1>10

\* RxPacket is a Receive of the stream, or a stutter.
LEMMA RxPacketStream ==
  ASSUME OrderInv, NobodyRestarted, SameWindows, NEW e \in Endpoint, RxPacket(e)
  PROVE  Stream!Receive(e) \/ UNCHANGED <<log, Got>>
<1>1. log' = log
  BY DEF RxPacket, RxTake
<1>2. \A f \in Endpoint : f # e => Received(f)' = Received(f)
  BY DEF RxPacket, RxTake, RxData, recvVars, Received, OrderInv, ListsInv, Inv, TypeOK, RecvOK
<1>3. CASE Received(e)' = Received(e)
  BY <1>1, <1>2, <1>3 DEF Got
<1>4. CASE /\ Received(e)' = Append(Received(e), [ep |-> 1, n |-> Len(Received(e)) + 1])
           /\ Len(Received(e)) + 1 <= Queued(Peer[e])
           /\ Received(e) # <<>> => Received(e)[1].ep = 1
  <2>1. Peer[e] \in Endpoint /\ Len(log[Peer[e]]) = 1
    BY SlapAssumption DEF NobodyRestarted, Epoch
  <2>2. 1 \in 1..Len(log[Peer[e]]) /\ Queued(Peer[e]) = log[Peer[e]][1]
    BY <2>1 DEF Queued, Epoch
  <2>3. Got' = [Got EXCEPT ![e] = Append(@, [ep |-> 1, n |-> Len(Got[e]) + 1])] /\ Got[e] = Received(e)
    BY <1>2, <1>4 DEF Got
  <2> QED
    BY <1>1, <1>4, <2>2, <2>3 DEF Stream!Receive, Got
<1> QED
  BY <1>3, <1>4, ReceivesNext

\* SendQueues is an Offer of the stream: no end has more than four packets to fill.
LEMMA SendQueuesStream ==
  ASSUME ListsInv, NEW e \in Endpoint, SendQueues(e)
  PROVE  Stream!Offer(e) \/ UNCHANGED <<log, Got>>
<1>1. PICK k : /\ k = Least(txFree[e], left[e])
               /\ log' = [log EXCEPT ![e][Epoch(e)] = @ + k]
               /\ recvVars' = recvVars /\ delivered' = delivered
  BY DEF SendQueues
<1>2. k \in 0..4
  <2>1. txFree[e] \in Nat /\ left[e] \in Nat /\ MaxWindow[e] \in 1..4 /\ txFree[e] <= MaxWindow[e]
    <3>1. PacketsConserved /\ Len(txSent[e]) \in Nat /\ MaxWindow[e] \in 1..4 /\ txFree[e] \in Nat
      BY ListsConserve, ListTypes, LenProperties, MaxWindowType
    <3>2. txFree[e] + Len(txSent[e]) <= MaxWindow[e]
      BY <3>1 DEF PacketsConserved
    <3> QED
      BY <3>1, <3>2 DEF ListsInv, Inv, TypeOK, AppOK
  <2> QED
    BY <1>1, <2>1 DEF Least
<1>3. UNCHANGED Got
  BY <1>1 DEF Got, Received, recvVars
<1>4. CASE k = 0
  <2>1. log \in [Endpoint -> Seq(Nat) \ {<<>>}] /\ Epoch(e) \in 1..Len(log[e])
    BY EmptySeq, LenProperties DEF ListsInv, Inv, TypeOK, HistOK, Epoch
  <2>2. log[e][Epoch(e)] \in Nat
    BY <2>1, ElementOfSeq
  <2>3. log[e][Epoch(e)] + k = log[e][Epoch(e)]
    BY <1>4, <2>2
  <2>4. [log[e] EXCEPT ![Epoch(e)] = @ + k] = log[e]
    BY <2>1, <2>3
  <2>5. log' = log
    BY <1>1, <2>1, <2>4
  <2> QED
    BY <1>3, <2>5
<1>5. CASE k \in 1..4
  BY <1>1, <1>3, <1>5 DEF Stream!Offer, Epoch, Got
<1> QED
  BY <1>2, <1>4, <1>5

\* Every step is a step of the stream or a stutter.
LEMMA StreamStep ==
  ASSUME OrderInv, NobodyRestarted, OneSession, SameWindows, [Next]_vars
  PROVE  [Stream!Next]_<<log, Got>>
<1>1. ListsInv
  BY DEF OrderInv
<1>2. CASE UNCHANGED vars
  BY <1>2 DEF vars, histVars, recvVars, Got, Received
<1>3. CASE Next
  <2>1. PICK e \in Endpoint :
          \/ StartSend(e) \/ AJ_SerialSend(e) \/ AJ_SerialRecv(e) \/ AJ_SerialDisconnect(e)
          \/ RxControl(e) \/ RxDiscard(e) \/ RxPacket(e)
          \/ FillTxBuffers(e) \/ ResendPackets(e) \/ SendAck(e) \/ SendLinkPacket(e)
          \/ Deliver(e) \/ Lose(e)
    BY <1>3 DEF Next, AJ_SerialInit, OneSession, NobodyRestarted
  <2>2. CASE RxPacket(e)
    BY <2>2, RxPacketStream DEF Stream!Next
  <2>3. CASE SendQueues(e)
    BY <1>1, <2>3, SendQueuesStream DEF Stream!Next
  <2>4. CASE AJ_SerialRecv(e)
    <3>1. Got' = Got
      BY <1>1, <2>4, RecvKeeps DEF Got
    <3> QED
      BY <2>4, <3>1 DEF AJ_SerialRecv
  <2>5. CASE ~(RxPacket(e) \/ SendQueues(e) \/ AJ_SerialRecv(e))
    <3>1. UNCHANGED <<log, recvVars, delivered>>
      BY <2>1, <2>5 DEF histVars, StartSend, AJ_SerialSend, SendGivesUp, SendWaits,
         AJ_SerialDisconnect, Disconnect, DisconnectWaits, DisconnectEnds, RxControl, RxDiscard, RxTake,
         FillTxBuffers, ResendPackets, SendAck, SendLinkPacket, Deliver, Lose
    <3> QED
      BY <3>1 DEF recvVars, Got, Received
  <2> QED
    BY <2>2, <2>3, <2>4, <2>5
<1> QED
  BY <1>2, <1>3

\* The first state is one of the stream, which starts after Done[e] packets of each end.
LEMMA StreamStart ==
  ASSUME InitUp \/ (Init /\ \A e \in Endpoint : Done[e] = 0)
  PROVE  Stream!Init
<1>1. ASSUME NEW e \in Endpoint
      PROVE  log[e] = <<Done[e]>> /\ Received(e) = First(Done[Peer[e]])
  <2>1. Peer[e] \in Endpoint /\ Done[Peer[e]] \in Nat
    BY SlapAssumption
  <2>2. First(Done[Peer[e]]) \in Seq(Item) /\ First(0) = <<>>
    BY <2>1, FirstAppend, EmptySeq
  <2>3. log[e] = <<Done[e]>> /\ rxRecv[e] = <<>> /\ delivered[e] = First(Done[Peer[e]])
    <3>1. CASE InitUp
      BY <2>1, <3>1 DEF InitUp, First
    <3>2. CASE Init /\ \A f \in Endpoint : Done[f] = 0
      BY <2>1, <2>2, <3>2 DEF Init
    <3> QED
      BY <3>1, <3>2
  <2> QED
    BY <2>2, <2>3, ConcatEmptySeq DEF Received
<1>2. log = [e \in Endpoint |-> log[e]]
  BY DEF Init, InitUp
<1>3. log = [e \in Endpoint |-> <<Done[e]>>]
  BY <1>1, <1>2
<1>4. [e \in Endpoint |-> Received(e)] = [e \in Endpoint |-> [n \in 1..Done[Peer[e]] |-> [ep |-> 1, n |-> n]]]
  BY <1>1 DEF First
<1> QED
  BY <1>3, <1>4 DEF Stream!Init

-----------------------------------------------------------------------------
\* In every behaviour, for as long as no end has started over: what an end has received of a
\* stream whose window fits is a beginning of what has been queued, whatever is lost, resent
\* or acknowledged twice, and whatever the other direction does (CompletePacket, AJ_SerialTx_ReceivedAck).
THEOREM StreamAlwaysKept == Spec \/ SpecUp => []StreamKept
<1>1. Init \/ InitUp => OrderInv
  BY OrderInitInv
<1>2. OrderInv /\ [Next]_vars => OrderInv'
  BY OrderNextInv
<1>3. OrderInv => StreamKept
  BY OrderKeepsStream
<1> QED
  BY <1>1, <1>2, <1>3, PTL DEF Spec, SpecUp

\* With one incarnation of each end and windows that fit, the invariant holds in every state.
LEMMA OrderAlways ==
  ASSUME OneSession, SameWindows
  PROVE  Spec \/ SpecUp => [](OrderInv /\ NobodyRestarted)
<1>1. Init \/ InitUp => OrderInv /\ NobodyRestarted
  BY OrderInitInv, SessionInit
<1>2. OrderInv /\ NobodyRestarted /\ [Next]_vars => OrderInv' /\ NobodyRestarted'
  BY OrderNextInv, SessionNext DEF OrderInv
<1> QED
  BY <1>1, <1>2, PTL DEF Spec, SpecUp

\* Whatever is lost, resent or acknowledged twice, an end accepts the packets of its peer in
\* order and each once: CompletePacket's test of three bits is enough.
THEOREM AlwaysInOrder ==
  ASSUME OneSession, SameWindows
  PROVE  Spec \/ SpecUp => []InOrder
<1>1. OrderInv /\ NobodyRestarted => InOrder
  BY OrderGivesInOrder
<1> QED
  BY <1>1, OrderAlways, PTL

\* AJ_SerialTx_ReceivedSeq and CompletePacket count the same packets: the ack an end sends is
\* the number it expects, and never goes back when a packet is received again.
THEOREM AckAlwaysExpectedSeq ==
  ASSUME OneSession, SameWindows
  PROVE  Spec \/ SpecUp => []AckIsExpectedSeq
<1>1. OrderInv /\ NobodyRestarted => AckIsExpectedSeq
  BY OrderGivesInOrder
<1> QED
  BY <1>1, OrderAlways, PTL

\* AJ_SerialTx_ReceivedAck returns a packet to the free list only if the peer has accepted it:
\* an ack that is late, repeated or eight behind frees nothing that is still needed.
THEOREM FreedAlwaysAccepted ==
  ASSUME OneSession, SameWindows
  PROVE  Spec \/ SpecUp => FreedWasAccepted
<1>1. OrderInv /\ NobodyRestarted /\ [Next]_vars =>
        [\A e \in Endpoint :
           Epoch(e)' = Epoch(e) /\ txFree'[e] > txFree[e] =>
             \A i \in 1..(txFree'[e] - txFree[e]) : txSent[e][i].item.n <= accepted[e]]_vars
  BY FreedNext
<1> QED
  BY <1>1, OrderAlways, PTL DEF Spec, SpecUp, FreedWasAccepted

\* The transport implements the reliable stream of SerialStream.  Its users see what they
\* have offered, in log, and what they have received; every step of the code is an Offer, a
\* Receive or a stutter.
THEOREM SlapImplementsStream ==
  ASSUME OneSession, SameWindows
  PROVE  /\ SpecUp => StreamSpec
         /\ (\A e \in Endpoint : Done[e] = 0) => (Spec => StreamSpec)
<1>1. OrderInv /\ NobodyRestarted /\ [Next]_vars => [Stream!Next]_<<log, Got>>
  BY StreamStep
<1>2. InitUp => Stream!Init
  BY StreamStart
<1>3. (\A e \in Endpoint : Done[e] = 0) => (Init => Stream!Init)
  BY StreamStart
<1> QED
  BY <1>1, <1>2, <1>3, OrderAlways, PTL DEF Spec, SpecUp, StreamSpec, Stream!Spec, Got

-----------------------------------------------------------------------------
(***************************************************************************)
(* What the two ends of Slap agree on: while no end starts over, an end    *)
(* that is ACTIVE has a peer that took its offer, and two ends that are    *)
(* ACTIVE work with the same values.  The invariant LinkInv follows the    *)
(* offers and answers through the queues and the lines.                    *)
(***************************************************************************)

\* The values an end starts with, those of AJ_SerialInit, and the ones that ProcessNegoPacket
\* makes of the offer of its peer.
Own(e) == windowSize[e] = MaxWindow[e] /\ packetSize[e] = MaxPacket[e]
Took(e) ==
  /\ windowSize[e] = Least(MaxWindow[e], DecodeWindow(EncodeWindow(MaxWindow[Peer[e]])))
  /\ packetSize[e] = Least(MaxPacket[e], MaxPacket[Peer[e]])

\* An end that has sent an NRSP: it did so on a NEGO, and after an ACPT.
Answered(e) == Took(e) /\ linkState[e] # "UNINITIALIZED"

\* Packets an end can make: each NEGO offers its own window and one of its two packet sizes,
\* and an NRSP tells that it has answered.
Offers(e, answered) == {p \in TxPkt :
  p.type = "CTRL" =>
    /\ p.kind = "NEGO" => /\ p.win = EncodeWindow(MaxWindow[e])
                          /\ p.size \in {MaxPacket[e], Least(MaxPacket[e], MaxPacket[Peer[e]])}
    /\ p.kind = "NRSP" => answered}

\* The packets of e that are in its queue or on their way are all in S.
Framed(S) == {f \in Frame : f.pkt \in S}
Carries(e, S) ==
  /\ txQueue[e] \in Seq(S)
  /\ txBuf[e] \in Seq(Framed(S)) /\ rxBuf[Peer[e]] \in Seq(Framed(S))

LinkInv == \A e \in Endpoint :
  /\ Own(e) \/ Took(e)
  /\ Carries(e, Offers(e, Answered(e)))
  /\ linkState[e] = "ACTIVE" => Answered(Peer[e])

AgreeInv == ListsInv /\ (NobodyRestarted => LinkInv)

-----------------------------------------------------------------------------
\* What is put in the queue of an end.

\* DATA packets and ACKs say nothing of the link, and an NRSP only that its end has answered.
LEMMA OffersFacts ==
  ASSUME NEW e \in Endpoint, NEW answered \in BOOLEAN
  PROVE  /\ \A p \in TxPkt : p.type # "CTRL" => p \in Offers(e, answered)
         /\ \A kind \in LinkPktType, size \in Nat \ {0} :
              /\ kind = "NEGO" => size \in {MaxPacket[e], Least(MaxPacket[e], MaxPacket[Peer[e]])}
              /\ kind = "NRSP" => answered
              => Ctrl(e, kind, size) \in Offers(e, answered)
<1>1. ASSUME NEW kind \in LinkPktType, NEW size \in Nat \ {0},
             kind = "NEGO" => size \in {MaxPacket[e], Least(MaxPacket[e], MaxPacket[Peer[e]])},
             kind = "NRSP" => answered
      PROVE  Ctrl(e, kind, size) \in Offers(e, answered)
  <2>1. /\ Ctrl(e, kind, size).type = "CTRL" /\ Ctrl(e, kind, size).kind = kind
        /\ kind = "NEGO" => /\ Ctrl(e, kind, size).win = EncodeWindow(MaxWindow[e])
                            /\ Ctrl(e, kind, size).size = size
    BY DEF Ctrl, NegoPktType
  <2>2. Ctrl(e, kind, size) \in TxPkt
    BY ControlPackets
  <2> QED
    BY <1>1, <2>1, <2>2 DEF Offers
<1> QED
  BY <1>1 DEF Offers

\* The frames that FillTxBuffers makes of packets in S, and those that are left.
LEMMA FillCarries ==
  ASSUME ListsInv, NEW e \in Endpoint, FillTxBuffers(e), NEW S, Carries(e, S)
  PROVE  txQueue'[e] \in Seq(S) /\ txBuf'[e] \in Seq(Framed(S))
<1> DEFINE q == txQueue[e]
           k == IF dataSent[e] THEN Least(Len(q), TxBufs[e] - Len(txBuf[e])) ELSE 0
           frames == [i \in 1..k |-> ToFrame(e, q[i])]
<1>1. /\ txBuf' = [txBuf EXCEPT ![e] = @ \o frames]
      /\ txQueue' = [txQueue EXCEPT ![e] = SubSeq(@, k + 1, Len(@))]
  BY DEF FillTxBuffers
<1>2. q \in Seq(TxPkt) /\ q \in Seq(S) /\ Len(q) \in Nat
  BY ListTypes, LenProperties DEF Carries
<1>3. k \in 0..Len(q)
  BY <1>2, SlapAssumption, LenProperties DEF ListsInv, Inv, TypeOK, BufOK, Least
<1> HIDE DEF k, q
<1>4. frames \in Seq(Framed(S))
  <2>1. ASSUME NEW i \in 1..k PROVE ToFrame(e, q[i]) \in Framed(S)
    <3>1. q[i] \in TxPkt /\ q[i] \in S
      BY <1>2, <1>3, ElementOfSeq
    <3>2. currentTxAck[e] \in 0..7
      BY DEF ListsInv, Inv, TypeOK, AckOK
    <3>3. ToFrame(e, q[i]) \in Frame /\ ToFrame(e, q[i]).pkt = q[i]
      BY <3>1, <3>2 DEF ToFrame, Frame
    <3> QED
      BY <3>1, <3>3 DEF Framed
  <2>2. frames \in [1..k -> Framed(S)]
    BY <2>1
  <2> QED
    BY <1>3, <2>2, FunctionIsSeq
<1> HIDE DEF frames
<1>5. txBuf'[e] = txBuf[e] \o frames /\ txQueue'[e] = SubSeq(q, k + 1, Len(q))
  BY <1>1 DEF q, ListsInv, Inv, TypeOK, BufOK, SendOK
<1>6. txBuf'[e] \in Seq(Framed(S))
  BY <1>4, <1>5, ConcatProperties DEF Carries
<1>7. SubSeq(q, k + 1, Len(q)) \in Seq(S)
  <2>1. \A i \in (k + 1)..Len(q) : q[i] \in S
    BY <1>2, <1>3, ElementOfSeq
  <2> QED
    BY <1>2, <1>3, <2>1, SubSeqProperties
<1> QED
  BY <1>5, <1>6, <1>7

\* What an action does to the queue of e: nothing, or an unreliable packet p is queued.
Queues(e, p) == txQueue'[e] \in {txQueue[e], QueueUnreliable(txQueue[e], p)}

\* The frames that an action takes from the two buffers of a line.
LEMMA BufCarries ==
  ASSUME ListsInv, NEW e \in Endpoint, NEW s \in Endpoint, NEW S, Carries(s, S),
         Deliver(e) \/ Lose(e) \/ RxTake(e)
  PROVE  txBuf'[s] \in Seq(Framed(S)) /\ rxBuf'[Peer[s]] \in Seq(Framed(S))
<1>1. /\ txBuf \in [Endpoint -> Seq(Frame)] /\ rxBuf \in [Endpoint -> Seq(Frame)]
      /\ Peer[s] \in Endpoint /\ Peer[e] \in Endpoint /\ Peer[Peer[s]] = s /\ Peer[Peer[e]] = e
  BY SlapAssumption DEF ListsInv, Inv, TypeOK, BufOK
<1>2. txBuf[s] \in Seq(Framed(S)) /\ rxBuf[Peer[s]] \in Seq(Framed(S))
  BY DEF Carries
<1>3. /\ txBuf[s] # <<>> => Tail(txBuf[s]) \in Seq(Framed(S)) /\ Head(txBuf[s]) \in Framed(S)
      /\ rxBuf[Peer[s]] # <<>> => Tail(rxBuf[Peer[s]]) \in Seq(Framed(S))
  BY <1>2, HeadTailProperties
<1>4. txBuf[s] # <<>> => Append(rxBuf[Peer[s]], Head(txBuf[s])) \in Seq(Framed(S))
  BY <1>2, <1>3, AppendProperties
<1>5. CASE RxTake(e)
  BY <1>1, <1>2, <1>3, <1>5 DEF RxTake
<1>6. CASE Lose(e)
  BY <1>1, <1>2, <1>3, <1>6 DEF Lose
<1>7. CASE Deliver(e)
  BY <1>1, <1>2, <1>3, <1>4, <1>7 DEF Deliver
<1> QED
  BY <1>5, <1>6, <1>7

\* After the step too, the packets of e are in S.
CarriesOn(e, S) ==
  /\ txQueue'[e] \in Seq(S)
  /\ txBuf'[e] \in Seq(Framed(S)) /\ rxBuf'[Peer[e]] \in Seq(Framed(S))

\* Actions but those of link control queue DATA packets and ACKs only.
LEMMA PlainCarries ==
  ASSUME ListsInv, NEW e \in Endpoint, NEW s \in Endpoint, NEW S, Carries(s, S),
         \A p \in TxPkt : p.type # "CTRL" => p \in S,
         \/ StartSend(e) \/ AJ_SerialSend(e) \/ AJ_SerialRecv(e) \/ AJ_SerialDisconnect(e)
         \/ RxDiscard(e) \/ RxPacket(e)
         \/ FillTxBuffers(e) \/ ResendPackets(e) \/ SendAck(e)
         \/ Deliver(e) \/ Lose(e)
  PROVE  CarriesOn(s, S)
<1>1. /\ txQueue[s] \in Seq(S) /\ txQueue \in [Endpoint -> Seq(TxPkt)]
      /\ txBuf \in [Endpoint -> Seq(Frame)] /\ rxBuf \in [Endpoint -> Seq(Frame)]
      /\ Peer[s] \in Endpoint
  BY SlapAssumption DEF Carries, ListsInv, Inv, TypeOK, SendOK, BufOK
<1>2. Ack \in S
  BY ControlPackets DEF Ack
<1>3. QueueUnreliable(txQueue[s], Ack) \in Seq(S)
  BY <1>1, <1>2, ListsOf
<1>4. CASE StartSend(e) \/ SendGivesUp(e) \/ SendWaits(e) \/ AJ_SerialRecv(e) \/ AJ_SerialDisconnect(e)
  <2>1. UNCHANGED <<txQueue, txBuf, rxBuf>>
    BY <1>4 DEF StartSend, SendGivesUp, SendWaits, AJ_SerialRecv, AJ_SerialDisconnect, Disconnect,
       DisconnectWaits, DisconnectEnds, sendVars, bufVars
  <2> QED
    BY <2>1 DEF Carries, CarriesOn
<1>5. CASE SendQueues(e)
  <2>1. /\ txQueue' = [txQueue EXCEPT ![e] = @ \o NewPackets(e, Least(txFree[e], left[e]))]
        /\ txBuf' = txBuf /\ rxBuf' = rxBuf
    BY <1>5 DEF SendQueues, bufVars
  <2>2. NewPackets(e, Least(txFree[e], left[e])) \in Seq(DataPkt)
    <3>1. Least(txFree[e], left[e]) \in Nat
      BY DEF ListsInv, Inv, TypeOK, SendOK, AppOK, Least
    <3> QED
      BY <3>1, NewPacketsType DEF ListsInv, Inv
  <2>3. NewPackets(e, Least(txFree[e], left[e])) \in Seq(S)
    <3>1. DataPkt \subseteq S
      BY DataIsTx
    <3> QED
      BY <2>2, <3>1, SeqMonotonic
  <2>4. txQueue'[s] \in {txQueue[s], txQueue[s] \o NewPackets(e, Least(txFree[e], left[e]))}
    BY <1>1, <2>1
  <2>5. txQueue'[s] \in Seq(S)
    <3>1. \A x, y \in Seq(S) : x \o y \in Seq(S)
      BY ConcatProperties
    <3> QED
      BY <1>1, <2>3, <2>4, <3>1
  <2> QED
    BY <2>1, <2>5 DEF Carries, CarriesOn
<1>6. CASE RxDiscard(e)
  <2>1. RxTake(e) /\ txQueue' = txQueue
    BY <1>6 DEF RxDiscard, sendVars
  <2> QED
    BY <2>1, BufCarries DEF Carries, CarriesOn
<1>7. CASE RxPacket(e)
  <2>1. RxTake(e)
    BY <1>7 DEF RxPacket
  <2>2. txQueue'[s] \in {txQueue[s], QueueUnreliable(txQueue[s], Ack)}
    BY <1>1, <1>7 DEF RxPacket, RxData, AJ_SerialTx_ReceivedSeq
  <2> QED
    BY <1>1, <1>3, <2>1, <2>2, BufCarries DEF CarriesOn
<1>8. CASE FillTxBuffers(e)
  <2>1. rxBuf' = rxBuf
    BY <1>8 DEF FillTxBuffers
  <2>2. CASE s = e
    BY <1>8, <2>1, <2>2, FillCarries DEF Carries, CarriesOn
  <2>3. CASE s # e
    <3>1. txQueue'[s] = txQueue[s] /\ txBuf'[s] = txBuf[s]
      BY <1>1, <1>8, <2>3 DEF FillTxBuffers
    <3> QED
      BY <2>1, <3>1 DEF Carries, CarriesOn
  <2> QED
    BY <2>2, <2>3
<1>9. CASE ResendPackets(e)
  <2>1. txBuf' = txBuf /\ rxBuf' = rxBuf
    BY <1>9 DEF ResendPackets, bufVars
  <2>2. txSent[s] \in Seq(DataPkt) /\ txSent[s] \in Seq(S)
    <3>1. DataPkt \subseteq S
      BY DataIsTx
    <3> QED
      BY <3>1, ListTypes, SeqMonotonic
  <2>3. txQueue'[s] \in {txQueue[s], Requeue(txQueue[s], txSent[s])}
        /\ (txSent[s] = <<>> => txQueue'[s] = txQueue[s])
    BY <1>1, <1>9 DEF ResendPackets
  <2>4. txSent[s] # <<>> => Requeue(txQueue[s], txSent[s]) \in Seq(S)
    BY <1>1, <1>2, <2>2, ListsOf
  <2> QED
    BY <1>1, <2>1, <2>3, <2>4 DEF Carries, CarriesOn
<1>10. CASE SendAck(e)
  <2>1. txBuf' = txBuf /\ rxBuf' = rxBuf
    BY <1>10 DEF SendAck, bufVars
  <2>2. txQueue'[s] \in {txQueue[s], QueueUnreliable(txQueue[s], Ack)}
    BY <1>1, <1>10 DEF SendAck
  <2> QED
    BY <1>1, <1>3, <2>1, <2>2 DEF Carries, CarriesOn
<1>11. CASE Deliver(e) \/ Lose(e)
  <2>1. txQueue' = txQueue
    BY <1>11 DEF Deliver, Lose, sendVars
  <2> QED
    BY <1>1, <1>11, <2>1, BufCarries DEF CarriesOn
<1> QED
  BY <1>4, <1>5, <1>6, <1>7, <1>8, <1>9, <1>10, <1>11 DEF AJ_SerialSend

\* Link control queues at most one packet more.
LEMMA ControlCarries ==
  ASSUME ListsInv, NEW e \in Endpoint, NEW s \in Endpoint, NEW S, Carries(s, S),
         NEW p \in S, Queues(s, p), RxTake(e) \/ (txBuf' = txBuf /\ rxBuf' = rxBuf)
  PROVE  CarriesOn(s, S)
<1>1. txQueue[s] \in Seq(S)
  BY DEF Carries
<1>2. txQueue'[s] \in Seq(S)
  BY <1>1, ListsOf DEF Queues
<1>3. txBuf'[s] \in Seq(Framed(S)) /\ rxBuf'[Peer[s]] \in Seq(Framed(S))
  BY BufCarries DEF Carries
<1> QED
  BY <1>2, <1>3 DEF CarriesOn

\* A set may be replaced by a larger one.
LEMMA CarriesMore ==
  ASSUME NEW S, NEW T, S \subseteq T, NEW e, Carries(e, S)
  PROVE  Carries(e, T)
<1>1. Framed(S) \subseteq Framed(T)
  BY DEF Framed
<1> QED
  BY <1>1, SeqMonotonic DEF Carries

-----------------------------------------------------------------------------
\* Link control.

\* Steps but those on a link control packet leave the values alone, and the state or end it.
LEMMA PlainLink ==
  ASSUME NEW e \in Endpoint,
         \/ StartSend(e) \/ AJ_SerialSend(e) \/ AJ_SerialRecv(e) \/ AJ_SerialDisconnect(e)
         \/ RxDiscard(e) \/ RxPacket(e)
         \/ FillTxBuffers(e) \/ ResendPackets(e) \/ SendAck(e) \/ SendLinkPacket(e)
         \/ Deliver(e) \/ Lose(e)
  PROVE  /\ windowSize' = windowSize /\ packetSize' = packetSize
         /\ \/ linkState' = linkState
            \/ \E state \in {"DYING", "DEAD"} : linkState' = [linkState EXCEPT ![e] = state]
BY DEF linkVars, StartSend, AJ_SerialSend, SendGivesUp, SendWaits, SendQueues, AJ_SerialRecv,
   AJ_SerialDisconnect, Disconnect, DisconnectWaits, DisconnectEnds, RxDiscard, RxPacket,
   FillTxBuffers, ResendPackets, SendAck, SendLinkPacket, Deliver, Lose

\* The control packet an end takes is one its peer can have made.
LEMMA HeadOffer ==
  ASSUME ListsInv, LinkInv, NEW e \in Endpoint, RxControl(e)
  PROVE  LET p == Head(rxBuf[e]).pkt IN
         /\ p \in CtrlPkt /\ p \in Offers(Peer[e], Answered(Peer[e]))
         /\ RxTake(e) /\ AJ_Serial_LinkPacket(e, p)
<1>1. Peer[e] \in Endpoint /\ Peer[Peer[e]] = e
  BY SlapAssumption
<1>2. RxTake(e) /\ rxBuf[e] # <<>> /\ Head(rxBuf[e]).pkt.type = "CTRL" /\ AJ_Serial_LinkPacket(e, Head(rxBuf[e]).pkt)
  BY DEF RxControl, RxTake
<1>3. rxBuf[e] \in Seq(Framed(Offers(Peer[e], Answered(Peer[e]))))
  BY <1>1 DEF LinkInv, Carries
<1>4. Head(rxBuf[e]) \in Framed(Offers(Peer[e], Answered(Peer[e])))
  BY <1>2, <1>3, HeadTailProperties
<1>5. Head(rxBuf[e]).pkt \in TxPkt /\ Head(rxBuf[e]).pkt \in Offers(Peer[e], Answered(Peer[e]))
  BY <1>4 DEF Framed, Frame
<1>6. Head(rxBuf[e]).pkt \in CtrlPkt
  BY <1>2, <1>5 DEF TxPkt, DataPkt, AckPkt
<1> QED
  BY <1>2, <1>5, <1>6

\* ProcessNegoPacket: what it makes of an offer does not depend on how often it has been made.
LEMMA TakesOffer ==
  ASSUME ListsInv, LinkInv, NEW e \in Endpoint, RxControl(e)
  PROVE  LET p == Head(rxBuf[e]).pkt
             nego == p.kind = "NEGO" /\ linkState[e] \in {"INITIALIZED", "ACTIVE"}
         IN
         /\ nego => Took(e)'
         /\ ~nego => windowSize'[e] = windowSize[e] /\ packetSize'[e] = packetSize[e]
         /\ \A f \in Endpoint : f # e => windowSize'[f] = windowSize[f] /\ packetSize'[f] = packetSize[f]
<1> DEFINE p == Head(rxBuf[e]).pkt
           nego == p.kind = "NEGO" /\ linkState[e] \in {"INITIALIZED", "ACTIVE"}
<1>1. /\ packetSize' = [packetSize EXCEPT ![e] = IF nego THEN Least(@, p.size) ELSE @]
      /\ windowSize' = [windowSize EXCEPT ![e] =
                          IF nego THEN Least(MaxWindow[e], DecodeWindow(p.win)) ELSE @]
  BY HeadOffer DEF AJ_Serial_LinkPacket
<1>2. /\ windowSize \in [Endpoint -> MIN_WINDOW_SIZE..MAX_WINDOW_SIZE]
      /\ packetSize \in [Endpoint -> Nat \ {0}]
  BY DEF ListsInv, Inv, TypeOK, LinkOK
<1>3. p \in CtrlPkt /\ p \in Offers(Peer[e], Answered(Peer[e]))
  BY HeadOffer
<1> HIDE DEF p
<1>4. /\ Peer[e] \in Endpoint /\ Peer[Peer[e]] = e
      /\ MaxPacket[e] \in Nat /\ MaxPacket[Peer[e]] \in Nat
  BY SlapAssumption
<1>5. ASSUME nego PROVE Took(e)'
  <2>1. p.type = "CTRL" /\ p.kind = "NEGO"
    BY <1>3, <1>5 DEF CtrlPkt, NegoPkt
  <2>2. /\ p.win = EncodeWindow(MaxWindow[Peer[e]])
        /\ p.size \in {MaxPacket[Peer[e]], Least(MaxPacket[Peer[e]], MaxPacket[e])}
    BY <1>3, <1>4, <2>1 DEF Offers
  <2>3. packetSize[e] \in {MaxPacket[e], Least(MaxPacket[e], MaxPacket[Peer[e]])}
    BY DEF LinkInv, Own, Took
  <2>4. /\ packetSize'[e] = Least(packetSize[e], p.size)
        /\ windowSize'[e] = Least(MaxWindow[e], DecodeWindow(p.win))
    BY <1>1, <1>2, <1>5
  <2>5. packetSize'[e] = Least(MaxPacket[e], MaxPacket[Peer[e]])
    <3>1. \A x, y \in Nat : \A u \in {x, Least(x, y)}, v \in {y, Least(y, x)} : Least(u, v) = Least(x, y)
      BY DEF Least
    <3> QED
      BY <1>4, <2>2, <2>3, <2>4, <3>1
  <2> QED
    BY <2>2, <2>4, <2>5 DEF Took
<1>6. ASSUME ~nego PROVE windowSize'[e] = windowSize[e] /\ packetSize'[e] = packetSize[e]
  BY <1>1, <1>2, <1>6
<1>7. \A f \in Endpoint : f # e => windowSize'[f] = windowSize[f] /\ packetSize'[f] = packetSize[f]
  BY <1>1
<1> QED
  BY <1>5, <1>6, <1>7 DEF p

\* The values an end has taken it keeps, and it never goes back to wait for an ACPT.
LEMMA ValuesKept ==
  ASSUME ListsInv, LinkInv, NEW e \in Endpoint, NEW f \in Endpoint,
         \/ StartSend(e) \/ AJ_SerialSend(e) \/ AJ_SerialRecv(e) \/ AJ_SerialDisconnect(e)
         \/ RxControl(e) \/ RxDiscard(e) \/ RxPacket(e)
         \/ FillTxBuffers(e) \/ ResendPackets(e) \/ SendAck(e) \/ SendLinkPacket(e)
         \/ Deliver(e) \/ Lose(e)
  PROVE  /\ Own(f)' \/ Took(f)'
         /\ Answered(f) => Answered(f)'
<1>1. Own(f) \/ Took(f)
  BY DEF LinkInv
<1>2. linkState \in [Endpoint -> LinkState]
  BY DEF ListsInv, Inv, TypeOK, LinkOK
<1>3. CASE RxControl(e)
  <2>1. (Own(f)' \/ Took(f)') /\ (Took(f) => Took(f)')
    <3>1. (windowSize'[f] = windowSize[f] /\ packetSize'[f] = packetSize[f]) \/ Took(f)'
      BY <1>3, TakesOffer
    <3> QED
      BY <1>1, <3>1 DEF Own, Took
  <2>2. linkState[f] # "UNINITIALIZED" => linkState'[f] # "UNINITIALIZED"
    <3>1. PICK kind : linkState' = [linkState EXCEPT ![e] = NextLinkState(linkState[e], kind)]
      BY <1>3, HeadOffer DEF AJ_Serial_LinkPacket
    <3> QED
      BY <1>2, <3>1 DEF NextLinkState
  <2> QED
    BY <2>1, <2>2 DEF Answered
<1>4. CASE ~RxControl(e)
  <2>1. /\ windowSize' = windowSize /\ packetSize' = packetSize
        /\ \/ linkState' = linkState
           \/ \E state \in {"DYING", "DEAD"} : linkState' = [linkState EXCEPT ![e] = state]
    BY <1>4, PlainLink
  <2>2. linkState[f] # "UNINITIALIZED" => linkState'[f] # "UNINITIALIZED"
    BY <1>2, <2>1
  <2> QED
    BY <1>1, <2>1, <2>2 DEF Own, Took, Answered
<1> QED
  BY <1>3, <1>4

\* An end is ACTIVE only after an NRSP of its peer.
LEMMA ActiveIsAnswered ==
  ASSUME ListsInv, LinkInv, NEW e \in Endpoint, NEW f \in Endpoint,
         \/ StartSend(e) \/ AJ_SerialSend(e) \/ AJ_SerialRecv(e) \/ AJ_SerialDisconnect(e)
         \/ RxControl(e) \/ RxDiscard(e) \/ RxPacket(e)
         \/ FillTxBuffers(e) \/ ResendPackets(e) \/ SendAck(e) \/ SendLinkPacket(e)
         \/ Deliver(e) \/ Lose(e),
         linkState'[f] = "ACTIVE"
  PROVE  Answered(Peer[f])'
<1>1. linkState \in [Endpoint -> LinkState] /\ Peer[f] \in Endpoint
  BY SlapAssumption DEF ListsInv, Inv, TypeOK, LinkOK
<1>2. linkState[f] = "ACTIVE" => Answered(Peer[f])
  BY DEF LinkInv
<1>3. Answered(Peer[f])
  <2>1. CASE RxControl(e)
    <3> DEFINE p == Head(rxBuf[e]).pkt
    <3>1. /\ p \in CtrlPkt /\ p \in Offers(Peer[e], Answered(Peer[e]))
          /\ linkState' = [linkState EXCEPT ![e] = NextLinkState(linkState[e], p.kind)]
      BY <2>1, HeadOffer DEF AJ_Serial_LinkPacket
    <3> HIDE DEF p
    <3>2. linkState[f] # "ACTIVE" => f = e /\ p.kind = "NRSP"
      BY <1>1, <3>1 DEF NextLinkState
    <3>3. p.kind = "NRSP" => Answered(Peer[e])
      BY <3>1 DEF Offers, CtrlPkt, NegoPkt
    <3> QED
      BY <1>2, <3>2, <3>3
  <2>2. CASE ~RxControl(e)
    <3>1. \/ linkState' = linkState
          \/ \E state \in {"DYING", "DEAD"} : linkState' = [linkState EXCEPT ![e] = state]
      BY <2>2, PlainLink
    <3>2. linkState[f] = "ACTIVE"
      BY <1>1, <3>1
    <3> QED
      BY <1>2, <3>2
  <2> QED
    BY <2>1, <2>2
<1> QED
  BY <1>1, <1>3, ValuesKept

\* What AJ_Serial_LinkPacket answers is true of the end that answers.
LEMMA RepliesOffer ==
  ASSUME ListsInv, LinkInv, NEW e \in Endpoint, RxControl(e)
  PROVE  \E p \in Offers(e, Answered(e)') : Queues(e, p)
<1> DEFINE kind == Head(rxBuf[e]).pkt.kind
           reply == LinkReply(linkState[e], kind)
<1>1. /\ txQueue' = [txQueue EXCEPT ![e] = IF reply = "none" THEN @
                                            ELSE QueueUnreliable(@, Ctrl(e, reply, packetSize'[e]))]
      /\ linkState' = [linkState EXCEPT ![e] = NextLinkState(linkState[e], kind)]
  BY HeadOffer DEF AJ_Serial_LinkPacket
<1>2. kind = "NEGO" /\ linkState[e] \in {"INITIALIZED", "ACTIVE"} => Took(e)'
  BY TakesOffer
<1> HIDE DEF kind
<1>3. /\ linkState \in [Endpoint -> LinkState] /\ txQueue \in [Endpoint -> Seq(TxPkt)]
      /\ packetSize'[e] \in Nat \ {0}
  BY RxControlInv DEF ListsInv, Inv, TypeOK, LinkOK, SendOK
<1>4. CASE reply = "none"
  <2>1. txQueue'[e] = txQueue[e]
    BY <1>1, <1>3, <1>4
  <2>2. Ack \in Offers(e, Answered(e)')
    BY ControlPackets DEF Ack, Offers
  <2> QED
    BY <2>1, <2>2 DEF Queues
<1>5. CASE reply # "none"
  <2>1. reply \in LinkPktType
    BY <1>5 DEF LinkReply, LinkPktType, NegoPktType
  <2>2. reply = "NRSP" => Answered(e)'
    <3>1. reply = "NRSP" => kind = "NEGO" /\ linkState[e] \in {"INITIALIZED", "ACTIVE"}
      BY DEF LinkReply
    <3>2. reply = "NRSP" => linkState'[e] # "UNINITIALIZED"
      BY <1>1, <1>3, <3>1 DEF NextLinkState
    <3> QED
      BY <1>2, <3>1, <3>2 DEF Answered
  <2>3. packetSize'[e] \in {MaxPacket[e], Least(MaxPacket[e], MaxPacket[Peer[e]])}
    BY ValuesKept DEF Own, Took
  <2> HIDE DEF reply
  <2>4. Ctrl(e, reply, packetSize'[e]) \in Offers(e, Answered(e)')
    <3>1. (Answered(e)') \in BOOLEAN
      BY DEF Answered, Took
    <3> QED
      BY <1>3, <2>1, <2>2, <2>3, <3>1, OffersFacts
  <2>5. txQueue'[e] = QueueUnreliable(txQueue[e], Ctrl(e, reply, packetSize'[e]))
    BY <1>1, <1>3, <1>5
  <2> QED
    BY <2>4, <2>5 DEF Queues
<1> QED
  BY <1>4, <1>5

\* So is what SendLinkPacket sends.
LEMMA TimedOffer ==
  ASSUME ListsInv, LinkInv, NEW e \in Endpoint, SendLinkPacket(e)
  PROVE  \E p \in Offers(e, Answered(e)') : Queues(e, p)
<1> DEFINE kind == TimedPacket[linkState[e]]
           sends == linkState[e] \in DOMAIN TimedPacket
<1>1. txQueue' = [txQueue EXCEPT ![e] = IF sends THEN QueueUnreliable(@, Ctrl(e, kind, packetSize[e])) ELSE @]
  BY DEF SendLinkPacket
<1>2. txQueue \in [Endpoint -> Seq(TxPkt)] /\ packetSize[e] \in Nat \ {0}
  BY DEF ListsInv, Inv, TypeOK, LinkOK, SendOK
<1>3. sends => kind \in LinkPktType /\ kind # "NRSP"
  BY DEF TimedPacket, LinkPktType, NegoPktType
<1> HIDE DEF kind, sends
<1>4. CASE ~sends
  <2>1. txQueue'[e] = txQueue[e]
    BY <1>1, <1>2, <1>4
  <2>2. Ack \in Offers(e, Answered(e)')
    BY ControlPackets DEF Ack, Offers
  <2> QED
    BY <2>1, <2>2 DEF Queues
<1>5. CASE sends
  <2>1. packetSize[e] \in {MaxPacket[e], Least(MaxPacket[e], MaxPacket[Peer[e]])}
    BY DEF LinkInv, Own, Took
  <2>2. Ctrl(e, kind, packetSize[e]) \in Offers(e, Answered(e)')
    <3>1. (Answered(e)') \in BOOLEAN
      BY DEF Answered, Took
    <3> QED
      BY <1>2, <1>3, <1>5, <2>1, <3>1, OffersFacts
  <2>3. txQueue'[e] = QueueUnreliable(txQueue[e], Ctrl(e, kind, packetSize[e]))
    BY <1>1, <1>2, <1>5
  <2> QED
    BY <2>2, <2>3 DEF Queues
<1> QED
  BY <1>4, <1>5

\* The packets on their way stay true.
LEMMA OffersCarried ==
  ASSUME ListsInv, LinkInv, NEW e \in Endpoint, NEW s \in Endpoint,
         \/ StartSend(e) \/ AJ_SerialSend(e) \/ AJ_SerialRecv(e) \/ AJ_SerialDisconnect(e)
         \/ RxControl(e) \/ RxDiscard(e) \/ RxPacket(e)
         \/ FillTxBuffers(e) \/ ResendPackets(e) \/ SendAck(e) \/ SendLinkPacket(e)
         \/ Deliver(e) \/ Lose(e)
  PROVE  Carries(s, Offers(s, Answered(s)))'
<1> DEFINE S == Offers(s, Answered(s)')
<1>1. Carries(s, S)
  <2>1. Offers(s, Answered(s)) \subseteq S
    BY ValuesKept DEF Offers
  <2>2. Carries(s, Offers(s, Answered(s)))
    BY DEF LinkInv
  <2> QED
    BY <2>1, <2>2, CarriesMore
<1>2. \A p \in TxPkt : p.type # "CTRL" => p \in S
  BY DEF Offers
<1>3. (RxControl(e) \/ SendLinkPacket(e)) => \E p \in S : Queues(s, p)
  <2>1. CASE s = e
    BY <2>1, RepliesOffer, TimedOffer
  <2>2. CASE s # e
    <3>1. RxControl(e) \/ SendLinkPacket(e) => txQueue'[s] = txQueue[s]
      BY <2>2 DEF RxControl, AJ_Serial_LinkPacket, SendLinkPacket, ListsInv, Inv, TypeOK, SendOK
    <3>2. Ack \in S
      BY <1>2, ControlPackets DEF Ack
    <3> QED
      BY <3>1, <3>2 DEF Queues
  <2> QED
    BY <2>1, <2>2
<1>4. RxControl(e) => RxTake(e)
  BY DEF RxControl
<1>5. SendLinkPacket(e) => txBuf' = txBuf /\ rxBuf' = rxBuf
  BY DEF SendLinkPacket, bufVars
<1> HIDE DEF S
<1>6. CarriesOn(s, S)
  <2>1. CASE RxControl(e) \/ SendLinkPacket(e)
    BY <1>1, <1>3, <1>4, <1>5, <2>1, ControlCarries
  <2>2. CASE ~(RxControl(e) \/ SendLinkPacket(e))
    BY <1>1, <1>2, <2>2, PlainCarries
  <2> QED
    BY <2>1, <2>2
<1> QED
  BY <1>6 DEF CarriesOn, Carries, S, Framed, Offers

-----------------------------------------------------------------------------
\* The invariant.

\* At the start nothing is on its way, and no end is ACTIVE or both have the values of the
\* handshake.
LEMMA AgreeInitInv == Init \/ InitUp => AgreeInv
<1> SUFFICES ASSUME Init \/ InitUp, NEW e \in Endpoint
             PROVE  /\ Own(e) \/ Took(e)
                    /\ Carries(e, Offers(e, Answered(e)))
                    /\ linkState[e] = "ACTIVE" => Answered(Peer[e])
  BY ListsInitInv DEF AgreeInv, LinkInv
<1>1. Peer[e] \in Endpoint /\ Peer[Peer[e]] = e
  BY SlapAssumption
<1>2. Carries(e, Offers(e, Answered(e)))
  <2>1. txQueue[e] = <<>> /\ txBuf[e] = <<>> /\ rxBuf[Peer[e]] = <<>>
    BY <1>1 DEF Init, InitUp
  <2> QED
    BY <2>1, EmptySeq DEF Carries
<1>3. Own(e) \/ Took(e)
  BY DEF Init, InitUp, Own, Took
<1>4. linkState[e] = "ACTIVE" => Answered(Peer[e])
  BY <1>1 DEF Init, InitUp, Answered, Took
<1> QED
  BY <1>2, <1>3, <1>4

\* Every step keeps it.
LEMMA AgreeNextInv == AgreeInv /\ [Next]_vars => AgreeInv'
<1> SUFFICES ASSUME AgreeInv, [Next]_vars, NobodyRestarted'
             PROVE  LinkInv'
  BY ListsNextInv DEF AgreeInv
<1>1. ListsInv /\ NobodyRestarted /\ LinkInv /\ \A e \in Endpoint : ~AJ_SerialInit(e)
  BY SessionGoesOn DEF AgreeInv
<1>2. CASE UNCHANGED vars
  <2>1. UNCHANGED <<linkState, windowSize, packetSize, txQueue, txBuf, rxBuf>>
    BY <1>2 DEF vars, linkVars, sendVars, bufVars
  <2>2. ASSUME NEW s \in Endpoint
        PROVE  /\ Own(s)' \/ Took(s)'
               /\ Answered(s)' <=> Answered(s)
    BY <1>1, <2>1 DEF LinkInv, Own, Took, Answered
  <2>3. ASSUME NEW s \in Endpoint PROVE Carries(s, Offers(s, Answered(s)))'
    <3>1. Offers(s, Answered(s)) \subseteq Offers(s, Answered(s)')
      BY <2>2 DEF Offers
    <3>2. Carries(s, Offers(s, Answered(s)'))
      BY <1>1, <3>1, CarriesMore DEF LinkInv
    <3> QED
      BY <2>1, <3>2 DEF Carries, Offers, Framed
  <2>4. ASSUME NEW s \in Endpoint, linkState'[s] = "ACTIVE" PROVE Answered(Peer[s])'
    BY <1>1, <2>1, <2>2, <2>4, SlapAssumption DEF LinkInv
  <2> QED
    BY <2>2, <2>3, <2>4 DEF LinkInv
<1>3. CASE Next
  <2>1. PICK e \in Endpoint :
          \/ StartSend(e) \/ AJ_SerialSend(e) \/ AJ_SerialRecv(e) \/ AJ_SerialDisconnect(e)
          \/ RxControl(e) \/ RxDiscard(e) \/ RxPacket(e)
          \/ FillTxBuffers(e) \/ ResendPackets(e) \/ SendAck(e) \/ SendLinkPacket(e)
          \/ Deliver(e) \/ Lose(e)
    BY <1>1, <1>3 DEF Next
  <2>2. ASSUME NEW s \in Endpoint
        PROVE  /\ Own(s)' \/ Took(s)'
               /\ Carries(s, Offers(s, Answered(s)))'
               /\ linkState'[s] = "ACTIVE" => Answered(Peer[s])'
    BY <1>1, <2>1, ValuesKept, OffersCarried, ActiveIsAnswered
  <2> QED
    BY <2>2 DEF LinkInv
<1> QED
  BY <1>2, <1>3

\* A window of 3 is offered as 1, so that its peer does not learn it.
WindowsKnown == \A e \in Endpoint : MaxWindow[e] = 3 => MaxWindow[Peer[e]] \in {1, 3}

\* The peer of an ACTIVE end took its offer.
LEMMA LinkGivesOffer ==
  ASSUME ListsInv, LinkInv
  PROVE  PeerTookMyOffer
<1> SUFFICES ASSUME NEW e \in Endpoint, Answered(Peer[e])
             PROVE  /\ linkState[Peer[e]] # "UNINITIALIZED"
                    /\ windowSize[Peer[e]] <= MaxWindow[e]
                    /\ packetSize[Peer[e]] <= MaxPacket[e]
  BY DEF LinkInv, PeerTookMyOffer
<1>1. /\ Peer[e] \in Endpoint /\ Peer[Peer[e]] = e /\ MaxWindow[e] \in 1..4 /\ MaxWindow[Peer[e]] \in 1..4
      /\ MaxPacket[e] \in Nat /\ MaxPacket[Peer[e]] \in Nat
  BY SlapAssumption, MaxWindowType
<1>2. DecodeWindow(EncodeWindow(MaxWindow[e])) <= MaxWindow[e]
      /\ DecodeWindow(EncodeWindow(MaxWindow[e])) \in 1..4
  BY <1>1 DEF DecodeWindow, EncodeWindow
<1> QED
  BY <1>1, <1>2 DEF Answered, Took, Least

\* Two ACTIVE ends both took the offer of the other, with the same result.
LEMMA LinkAgrees ==
  ASSUME ListsInv, LinkInv, WindowsKnown
  PROVE  BothActiveAgree
<1> SUFFICES ASSUME NEW e \in Endpoint, Took(e), Took(Peer[e])
             PROVE  windowSize[e] = windowSize[Peer[e]] /\ packetSize[e] = packetSize[Peer[e]]
  BY SlapAssumption DEF LinkInv, BothActiveAgree, Answered
<1>1. /\ Peer[e] \in Endpoint /\ Peer[Peer[e]] = e /\ MaxWindow[e] \in 1..4 /\ MaxWindow[Peer[e]] \in 1..4
      /\ MaxPacket[e] \in Nat /\ MaxPacket[Peer[e]] \in Nat
  BY SlapAssumption, MaxWindowType
<1>2. packetSize[e] = packetSize[Peer[e]]
  BY <1>1 DEF Took, Least
<1>3. windowSize[e] = windowSize[Peer[e]]
  <2>1. \A x, y \in 1..4 : (x = 3 => y \in {1, 3}) /\ (y = 3 => x \in {1, 3}) =>
          Least(x, DecodeWindow(EncodeWindow(y))) = Least(y, DecodeWindow(EncodeWindow(x)))
    BY DEF Least, DecodeWindow, EncodeWindow
  <2>2. (MaxWindow[e] = 3 => MaxWindow[Peer[e]] \in {1, 3}) /\ (MaxWindow[Peer[e]] = 3 => MaxWindow[e] \in {1, 3})
    BY <1>1 DEF WindowsKnown
  <2> QED
    BY <1>1, <2>1, <2>2 DEF Took
<1> QED
  BY <1>2, <1>3

-----------------------------------------------------------------------------
\* While no end starts over, the invariant of the link holds.
LEMMA LinkAlways ==
  ASSUME OneSession
  PROVE  Spec \/ SpecUp => [](ListsInv /\ LinkInv)
<1>1. Init \/ InitUp => AgreeInv /\ NobodyRestarted
  BY AgreeInitInv, SessionInit
<1>2. AgreeInv /\ NobodyRestarted /\ [Next]_vars => AgreeInv' /\ NobodyRestarted'
  BY AgreeNextInv, SessionNext DEF AgreeInv
<1>3. AgreeInv /\ NobodyRestarted => ListsInv /\ LinkInv
  BY DEF AgreeInv
<1> QED
  BY <1>1, <1>2, <1>3, PTL DEF Spec, SpecUp

\* An end is ACTIVE only when its own offer has been answered: its peer has left the first
\* state and works with a window and a packet size this end can take, whatever control packets
\* are lost, sent again or late, and whichever windows the ends start with
\* (AJ_Serial_LinkPacket, ProcessNegoPacket, SendLinkPacket).
THEOREM PeerAlwaysTookMyOffer ==
  ASSUME OneSession
  PROVE  Spec \/ SpecUp => []PeerTookMyOffer
BY LinkAlways, LinkGivesOffer, PTL

\* When both ends are ACTIVE they work with the same window and packet size, if a window of 3
\* meets none but 1 and 3: SendNegotiationPacket offers it as 1.
THEOREM AlwaysAgree ==
  ASSUME OneSession, WindowsKnown
  PROVE  Spec \/ SpecUp => []BothActiveAgree
<1>1. ListsInv /\ LinkInv => BothActiveAgree
  BY LinkAgrees
<1> QED
  BY <1>1, LinkAlways, PTL
=============================================================================
