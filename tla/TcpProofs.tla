----------------------------- MODULE TcpProofs ------------------------------
(***************************************************************************)
(* TCP between two hosts, for any number of slots, ring and stream sizes,  *)
(* any width of sequence numbers and whatever the network does: a program  *)
(* reads what the peer's program wrote to this very connection             *)
(* (StreamIsPrefix), and idle slots hold no copy to send again             *)
(* (NoStaleRetx).  Both rest on one invariant, which says of every segment *)
(* ever sent which connection it belongs to and where in it, and of every  *)
(* connection how its counters relate to the streams.                      *)
(***************************************************************************)
EXTENDS Tcp, SequenceTheorems, WellFoundedInduction, TLAPS

Nums == 0 .. SEQ - 1
Bytes == Hosts \X Nums \X Nat
PortNames == {Port[h] : h \in Hosts} \cup {None}
Segs == [to : Hosts, sport : PortNames, dport : PortNames, seq : Nums, ack : Nums,
         flags : SUBSET {"SYN", "ACK", "FIN", "RST"}, data : Seq(Bytes)]
Conns == [state : States, lport : PortNames, rport : PortNames, iss : Nums,
          irs : Nums \cup {None}, snd_una : Nums, snd_nxt : Nums, rcv_nxt : Nums,
          retx : Segs \cup {None}, retx_count : Nat, rx : Seq(Bytes), got : Seq(Bytes)]

\* The states in which data is taken, and in which nothing is sent again.
Taking == {"SYN_RCVD", "ESTABLISHED", "FIN_WAIT_1", "FIN_WAIT_2"}
Quiet == {"CLOSED", "LISTEN", "FIN_WAIT_2", "TIME_WAIT"}

\* A SYN carries its sender's first number, an ACK a number of the addressee's
\* stream, and data is the sender's at its place in the stream.
FirstNumber(s) == "SYN" \in s.flags => s.seq \in Isns(Peer(s.to))
Acknowledges(s) ==
  "ACK" \in s.flags /\ "RST" \notin s.flags =>
    \E x \in Isns(s.to), k \in 1 .. MAX_SENT[s.to] + MAX_FINS + 1 : s.ack = (x + k) % SEQ
DataAt(s, x, o) ==
  /\ o + Len(s.data) <= MAX_SENT[Peer(s.to)]
  /\ s.seq = (x + 1 + o) % SEQ
  /\ \A k \in 1 .. Len(s.data) : s.data[k] = <<Peer(s.to), x, o + k>>
DataIsPlaced(s) == s.data # <<>> => \E x \in Isns(Peer(s.to)), o \in Nat : DataAt(s, x, o)
SegOk(s) == s \in Segs /\ FirstNumber(s) /\ Acknowledges(s) /\ DataIsPlaced(s)

\* The bytes taken and still unread.
Streams(h, c) ==
  /\ Len(c.got) <= MAX_SENT[Peer(h)]
  /\ \A k \in 1 .. Len(c.got) : c.got[k] = <<Peer(h), c.irs, k>>
  /\ EndsOf(c.rx, c.got)
  /\ Len(c.rx) < TCP_RX_BUF_SIZE
  /\ c.state = "SYN_SENT" => c.got = <<>>

\* rcv_nxt is behind the bytes taken and the FINs.
Receives(h, c) ==
  c.state \in Synced \cup {"SYN_RCVD"} =>
    /\ c.irs \in Isns(Peer(h))
    /\ Fins(c) <= MAX_FINS
    /\ c.state \in Taking => Fins(c) = 0

\* How far the peer has acknowledged and how much is sent, SYN and FIN included.
Una(c) == (c.snd_una - c.iss) % SEQ
Nxt(c) == (c.snd_nxt - c.iss) % SEQ
Sends(h, c) ==
  c.state \notin {"CLOSED", "LISTEN"} =>
    /\ c.iss \in Isns(h)
    /\ Una(c) <= Nxt(c) /\ 1 <= Nxt(c) /\ Nxt(c) <= MAX_SENT[h] + 2
    /\ c.state \in {"SYN_SENT", "SYN_RCVD", "ESTABLISHED", "CLOSE_WAIT"} =>
         Nxt(c) <= MAX_SENT[h] + 1
    /\ c.state \in {"FIN_WAIT_1", "CLOSING"} => Una(c) < Nxt(c)

Copies(c) ==
  /\ c.retx # None => SegOk(c.retx)
  /\ c.state \in Quiet => c.retx = None

ConnOk(h, c) ==
  c \in Conns /\ Streams(h, c) /\ Receives(h, c) /\ Sends(h, c) /\ Copies(c)

\* The inductive invariant.
TcpInv ==
  /\ conns \in [Hosts -> [Slots -> Conns]]
  /\ isn \in [Hosts -> Nat]
  /\ \A s \in net : SegOk(s)
  /\ \A h \in Hosts, i \in Slots : ConnOk(h, conns[h][i])
-----------------------------------------------------------------------------
(* Sequence numbers.                                                       *)

\* a % n, kept closed where only the facts below are needed.
Mod(a, n) == a % n

\* What % gives for the sums and differences of sequence numbers.
LEMMA ModIs ==
  ASSUME NEW n \in Nat \ {0}, NEW a \in Int, -2 * n <= a, a < 2 * n
  PROVE  Mod(a, n) = IF a < -n THEN a + 2 * n ELSE IF a < 0 THEN a + n
                     ELSE IF a < n THEN a ELSE a - n
<1>1. \A b \in 0 .. n - 1 : b % n = b
  BY Z3
<1>2. \A b \in 0 .. n - 1 : (b + n) % n = b
  BY Z3
<1>3. \A b \in 0 .. n - 1 : (b - n) % n = b
  BY Z3
<1>4. \A b \in 0 .. n - 1 : (b - 2 * n) % n = b
  BY Z3
<1>5. CASE a < -n
  <2>1. a + 2 * n \in 0 .. n - 1 /\ (a + 2 * n) - 2 * n = a
    BY <1>5
  <2> QED BY <1>4, <1>5, <2>1 DEF Mod
<1>6. CASE -n <= a /\ a < 0
  <2>1. a + n \in 0 .. n - 1 /\ (a + n) - n = a
    BY <1>6
  <2> QED BY <1>3, <1>6, <2>1 DEF Mod
<1>7. CASE 0 <= a /\ a < n
  BY <1>1, <1>7 DEF Mod
<1>8. CASE n <= a
  <2>1. a - n \in 0 .. n - 1 /\ (a - n) + n = a
    BY <1>8
  <2> QED BY <1>2, <1>8, <2>1 DEF Mod
<1> QED BY <1>5, <1>6, <1>7, <1>8

\* The offset of sequence number y in a stream that starts at x.
Off(n, x, y) == Mod(y - x, n)
Plus(n, x, k) == Mod(x + k, n)

\* An offset is the number that leads from x to y, and back.
LEMMA OffIs ==
  ASSUME NEW n \in Nat \ {0}, NEW x \in 0 .. n - 1, NEW y \in 0 .. n - 1
  PROVE  /\ Off(n, x, y) = IF x <= y THEN y - x ELSE y - x + n
         /\ Off(n, x, y) \in 0 .. n - 1
<1>1. Mod(y - x, n) = IF x <= y THEN y - x ELSE y - x + n
  BY ModIs
<1> QED BY <1>1 DEF Off

\* Adding k to a number.
LEMMA PlusIs ==
  ASSUME NEW n \in Nat \ {0}, NEW x \in 0 .. n - 1, NEW k \in 0 .. n
  PROVE  /\ Plus(n, x, k) = IF x + k < n THEN x + k ELSE x + k - n
         /\ Plus(n, x, k) \in 0 .. n - 1
<1>1. Mod(x + k, n) = IF x + k < n THEN x + k ELSE x + k - n
  BY ModIs
<1> QED BY <1>1 DEF Plus

\* Number and offset determine each other.
LEMMA OffPlus ==
  ASSUME NEW n \in Nat \ {0}, NEW x \in 0 .. n - 1
  PROVE  /\ \A k \in 0 .. n - 1 : Off(n, x, Plus(n, x, k)) = k
         /\ \A y \in 0 .. n - 1 : y = Plus(n, x, Off(n, x, y))
<1>1. ASSUME NEW k \in 0 .. n - 1 PROVE Off(n, x, Plus(n, x, k)) = k
  <2>0. k \in 0 .. n
    OBVIOUS
  <2>1. PICK z \in 0 .. n - 1 : z = Plus(n, x, k) /\ z = IF x + k < n THEN x + k ELSE x + k - n
    BY Zenon, <2>0, PlusIs
  <2>2. Off(n, x, z) = IF x <= z THEN z - x ELSE z - x + n
    BY OffIs
  <2> QED BY <2>1, <2>2
<1>2. ASSUME NEW y \in 0 .. n - 1 PROVE y = Plus(n, x, Off(n, x, y))
  <2>1. PICK k \in 0 .. n - 1 : k = Off(n, x, y) /\ k = IF x <= y THEN y - x ELSE y - x + n
    BY Zenon, OffIs
  <2>2. Plus(n, x, k) = IF x + k < n THEN x + k ELSE x + k - n
    BY PlusIs
  <2> QED BY <2>1, <2>2
<1> QED BY <1>1, <1>2

\* Advancing a number advances its offset (snd_nxt in tcp_send and tcp_close).
LEMMA OffAdvance ==
  ASSUME NEW n \in Nat \ {0}, NEW x \in 0 .. n - 1, NEW y \in 0 .. n - 1,
         NEW k \in Nat, Off(n, x, y) + k < n
  PROVE  Off(n, x, Plus(n, y, k)) = Off(n, x, y) + k
<1>1. Off(n, x, y) = (IF x <= y THEN y - x ELSE y - x + n) /\ Off(n, x, y) \in 0 .. n - 1
  BY OffIs
<1>2. k \in 0 .. n
  BY <1>1
<1>3. /\ Plus(n, y, k) = IF y + k < n THEN y + k ELSE y + k - n
      /\ Plus(n, y, k) \in 0 .. n - 1
  BY <1>2, PlusIs
<1>4. Off(n, x, Plus(n, y, k)) =
        IF x <= Plus(n, y, k) THEN Plus(n, y, k) - x ELSE Plus(n, y, k) - x + n
  BY Zenon, <1>3, OffIs
<1> QED BY <1>1, <1>3, <1>4

\* The comparison of sequence numbers, on offsets: an acknowledgement between
\* una and nxt lies between them in the stream, unless it is half of the
\* numbers away (AckStage).
LEMMA AckBetween ==
  ASSUME NEW n \in Nat \ {0}, n % 2 = 0,
         NEW x \in 0 .. n - 1, NEW una \in 0 .. n - 1, NEW nxt \in 0 .. n - 1,
         NEW ack \in 0 .. n - 1,
         Off(n, x, una) <= Off(n, x, nxt), Off(n, x, nxt) < n \div 2
  PROVE  /\ una = nxt \/ Mod(una - nxt, n) >= n \div 2
         /\ /\ una = ack \/ Mod(una - ack, n) >= n \div 2
            /\ ack = nxt \/ Mod(ack - nxt, n) >= n \div 2
            /\ una = nxt => Mod(ack - nxt, n) # n \div 2
            => Off(n, x, una) <= Off(n, x, ack) /\ Off(n, x, ack) <= Off(n, x, nxt)
         /\ ack # nxt => Off(n, x, ack) # Off(n, x, nxt)
<1>1. PICK m \in Nat : n = 2 * m /\ n \div 2 = m
  <2>1. \A k \in Nat : k % 2 = 0 => k = 2 * (k \div 2) /\ k \div 2 \in Nat
    BY Z3
  <2> QED BY <2>1
<1>2. PICK a \in 0 .. n - 1 : a = Off(n, x, una) /\ a = IF x <= una THEN una - x ELSE una - x + n
  BY Zenon, OffIs
<1>3. PICK b \in 0 .. n - 1 : b = Off(n, x, nxt) /\ b = IF x <= nxt THEN nxt - x ELSE nxt - x + n
  BY Zenon, OffIs
<1>4. PICK k \in 0 .. n - 1 : k = Off(n, x, ack) /\ k = IF x <= ack THEN ack - x ELSE ack - x + n
  BY Zenon, OffIs
<1>5. PICK u \in Int : u = Mod(una - ack, n) /\ u = IF una < ack THEN una - ack + n ELSE una - ack
  BY OffIs DEF Off
<1>6. PICK v \in Int : v = Mod(ack - nxt, n) /\ v = IF ack < nxt THEN ack - nxt + n ELSE ack - nxt
  BY OffIs DEF Off
<1>7. PICK w \in Int : w = Mod(una - nxt, n) /\ w = IF una < nxt THEN una - nxt + n ELSE una - nxt
  BY OffIs DEF Off
<1>8. a <= b /\ b < m
  BY <1>1, <1>2, <1>3
<1>9. una = nxt \/ w >= m
  BY <1>1, <1>2, <1>3, <1>7, <1>8
<1>10. ASSUME una = ack \/ u >= m, ack = nxt \/ v >= m, una = nxt => v # m
       PROVE  a <= k /\ k <= b
  BY <1>1, <1>2, <1>3, <1>4, <1>5, <1>6, <1>8, <1>10
<1>11. ack # nxt => k # b
  BY <1>3, <1>4
<1> QED BY <1>1, <1>2, <1>3, <1>4, <1>5, <1>6, <1>7, <1>9, <1>10, <1>11

\* What rcv_nxt counts behind the first number x and g bytes: the FINs.
Behind(n, x, g, r) == Mod(r - x - 1 - g, n)
At(n, x, g, r, f) == Behind(n, x, g, r) = f
Cases(n, d, f) ==
  f \in 0 .. n - 1 /\ f = IF d < -n THEN d + 2 * n ELSE IF d < 0 THEN d + n ELSE d

\* How far rcv_nxt is behind, without %.
LEMMA BehindCases ==
  ASSUME NEW n \in Nat \ {0}, NEW x \in 0 .. n - 1, NEW r \in 0 .. n - 1, NEW g \in 0 .. n - 1
  PROVE  /\ Behind(n, x, g, r) \in 0 .. n - 1
         /\ Cases(n, r - x - 1 - g, Behind(n, x, g, r))
<1>1. r - x - 1 - g \in Int /\ -2 * n <= r - x - 1 - g /\ r - x - 1 - g < n
  OBVIOUS
<1>2. Mod(r - x - 1 - g, n) =
        IF r - x - 1 - g < -n THEN r - x - 1 - g + 2 * n
        ELSE IF r - x - 1 - g < 0 THEN r - x - 1 - g + n ELSE r - x - 1 - g
  BY <1>1, ModIs
<1>3. Mod(r - x - 1 - g, n) \in 0 .. n - 1
  BY <1>1, <1>2
<1> QED BY Zenon, <1>2, <1>3 DEF Behind, Cases

\* rcv_nxt is as far behind x as the bytes and the FINs say.
LEMMA BehindIs ==
  ASSUME NEW n \in Nat \ {0}, NEW x \in 0 .. n - 1, NEW r \in 0 .. n - 1, NEW g \in 0 .. n - 1,
         NEW f, f = Behind(n, x, g, r), 1 + g + f < n
  PROVE  r = Plus(n, x, 1 + g + f)
<1>1. f \in 0 .. n - 1 /\ Cases(n, r - x - 1 - g, f)
  BY Zenon, BehindCases
<1>2. PICK k \in 0 .. n : k = 1 + g + f
  BY <1>1
<1>3. Plus(n, x, k) = IF x + k < n THEN x + k ELSE x + k - n
  BY Zenon, PlusIs
<1> QED BY <1>1, <1>2, <1>3 DEF Cases

\* Bytes move it (DataStage).
LEMMA BehindKept ==
  ASSUME NEW n, NEW x, NEW r, NEW g, NEW f, NEW k, 1 + g + f + k < n, At(n, x, g, r, f),
         n \in Nat \ {0}, x \in 0 .. n - 1, r \in 0 .. n - 1, g \in 0 .. n - 1, k \in 0 .. n
  PROVE  Plus(n, r, k) \in 0 .. n - 1 /\ At(n, x, g + k, Plus(n, r, k), f)
<1>1. f \in 0 .. n - 1 /\ Cases(n, r - x - 1 - g, f)
  BY Zenon, BehindCases DEF At
<1>2. PICK z \in 0 .. n - 1 : z = Plus(n, r, k) /\ z = IF r + k < n THEN r + k ELSE r + k - n
  BY Zenon, PlusIs
<1>3. PICK d \in Int : d = z - x - 1 - (g + k) /\ -2 * n <= d /\ d < n
  BY <1>1
<1>4. Mod(d, n) = IF d < -n THEN d + 2 * n ELSE IF d < 0 THEN d + n ELSE d
  BY <1>3, ModIs
<1>5. Mod(d, n) = f
  BY <1>1, <1>2, <1>3, <1>4 DEF Cases
<1> QED BY <1>2, <1>3, <1>5 DEF Behind, At

\* So does a FIN (FinStage).
LEMMA BehindFin ==
  ASSUME NEW n, NEW x, NEW r, NEW g, NEW f, 2 + g + f < n, At(n, x, g, r, f),
         n \in Nat \ {0}, x \in 0 .. n - 1, r \in 0 .. n - 1, g \in 0 .. n - 1
  PROVE  Plus(n, r, 1) \in 0 .. n - 1 /\ At(n, x, g, Plus(n, r, 1), f + 1)
<1>1. f \in 0 .. n - 1 /\ Cases(n, r - x - 1 - g, f)
  BY Zenon, BehindCases DEF At
<1>2. 1 \in 0 .. n
  OBVIOUS
<1>3. PICK z \in 0 .. n - 1 : z = Plus(n, r, 1) /\ z = IF r + 1 < n THEN r + 1 ELSE r + 1 - n
  BY Zenon, <1>2, PlusIs
<1>4. PICK d \in Int : d = z - x - 1 - g /\ -2 * n <= d /\ d < n
  OBVIOUS
<1>5. Mod(d, n) = IF d < -n THEN d + 2 * n ELSE IF d < 0 THEN d + n ELSE d
  BY <1>4, ModIs
<1>6. Mod(d, n) = f + 1
  BY <1>1, <1>3, <1>4, <1>5 DEF Cases
<1> QED BY <1>3, <1>4, <1>6 DEF Behind, At

\* Nothing is behind the first number of a new connection.
LEMMA BehindFirst ==
  ASSUME NEW n \in Nat \ {0}, NEW x \in 0 .. n - 1
  PROVE  Behind(n, x, 0, Plus(n, x, 1)) = 0
<1>1. 1 \in 0 .. n
  OBVIOUS
<1>2. PICK z \in 0 .. n - 1 : z = Plus(n, x, 1) /\ z = IF x + 1 < n THEN x + 1 ELSE x + 1 - n
  BY Zenon, <1>1, PlusIs
<1>3. PICK d \in Int : d = z - x - 1 - 0 /\ (d = 0 \/ d = -n)
  BY <1>2
<1>4. Mod(d, n) = 0
  BY <1>3, ModIs
<1> QED BY <1>2, <1>3, <1>4 DEF Behind
-----------------------------------------------------------------------------
(* Hosts, segments and connections.                                        *)

\* The two hosts are each other's peers.
LEMMA Peers ==
  ASSUME NEW h \in Hosts
  PROVE  Peer(h) \in Hosts /\ Peer(Peer(h)) = h
<1>1. PICK a \in Hosts, b \in Hosts : a # b /\ Hosts = {a, b}
  BY Zenon, TcpAssumption
<1>2. \E g \in Hosts : g # h
  BY <1>1
<1>3. Peer(h) \in Hosts /\ Peer(h) # h
  BY Zenon, <1>2 DEF Peer
<1>4. \E g \in Hosts : g # Peer(h)
  BY Zenon, <1>3
<1>5. Peer(Peer(h)) \in Hosts /\ Peer(Peer(h)) # Peer(h)
  BY Zenon, <1>4 DEF Peer
<1> QED BY Zenon, <1>1, <1>3, <1>5

\* What the limits say of a host's streams.
LEMMA Limited ==
  ASSUME Limits, NEW h \in Hosts
  PROVE  /\ SEQ \in Nat \ {0} /\ SEQ % 2 = 0
         /\ \A x \in Isns(h) : x \in Nums
         /\ MAX_SENT[h] \in Nat /\ MAX_FINS \in Nat
         /\ MAX_SENT[h] + MAX_FINS + 2 < SEQ \div 2
         /\ SEQ \div 2 <= SEQ
<1>1. SEQ \in Nat \ {0} /\ SEQ % 2 = 0
  BY TcpAssumption
<1>2. ISNs[h] \in Seq(Nums)
  BY Zenon DEF Limits, Nums
<1>3. \A k \in 1 .. Len(ISNs[h]) : ISNs[h][k] \in Nums
  BY <1>2
<1>4. \A x \in Isns(h) : x \in Nums
  BY Zenon, <1>3 DEF Isns
<1>5. MAX_SENT[h] \in Nat /\ MAX_FINS \in Nat /\ MAX_SENT[h] + MAX_FINS + 2 < SEQ \div 2
  BY Zenon DEF Limits
<1>6. SEQ \div 2 <= SEQ
  BY <1>1, Z3
<1> QED BY <1>1, <1>4, <1>5, <1>6

\* A number of a host's stream that an acknowledgement may carry.
Placed(h, ack) ==
  \E x \in Isns(h), k \in 1 .. MAX_SENT[h] + MAX_FINS + 1 : ack = (x + k) % SEQ

\* The segments tcp_send_raw builds.
LEMMA SegMade ==
  ASSUME NEW h \in Hosts, NEW c \in Conns, NEW flags \in SUBSET {"SYN", "ACK", "FIN"},
         NEW seq \in Nums, NEW ack \in Nums, NEW data \in Seq(Bytes),
         "SYN" \in flags => seq \in Isns(h),
         "ACK" \in flags => Placed(Peer(h), ack),
         data # <<>> => \E x \in Isns(h), o \in Nat :
                          /\ o + Len(data) <= MAX_SENT[h]
                          /\ seq = (x + 1 + o) % SEQ
                          /\ \A k \in 1 .. Len(data) : data[k] = <<h, x, o + k>>
  PROVE  SegOk(Seg(h, c, flags, seq, ack, data))
<1>1. PICK s : s = Seg(h, c, flags, seq, ack, data)
  OBVIOUS
<1>2. Peer(h) \in Hosts /\ Peer(Peer(h)) = h
  BY Peers
<1>3. c.lport \in PortNames /\ c.rport \in PortNames
  BY DEF Conns
<1>4. s = [to |-> Peer(h), sport |-> c.lport, dport |-> c.rport, seq |-> seq,
           ack |-> ack, flags |-> flags, data |-> data]
  BY Zenon, <1>1 DEF Seg
<1>5. /\ s.to = Peer(h) /\ s.seq = seq /\ s.ack = ack /\ s.flags = flags /\ s.data = data
      /\ s \in Segs
  BY <1>2, <1>3, <1>4 DEF Segs
<1>6. FirstNumber(s) /\ Acknowledges(s)
  BY Zenon, <1>2, <1>5 DEF FirstNumber, Acknowledges, Placed
<1>7. DataIsPlaced(s)
  BY Zenon, <1>2, <1>5 DEF DataIsPlaced, DataAt
<1> QED BY Zenon, <1>1, <1>5, <1>6, <1>7 DEF SegOk

\* A reset says nothing of the streams.
LEMMA RstMade ==
  ASSUME NEW h \in Hosts, NEW s \in Segs
  PROVE  SegOk(send_rst_reply(h, s))
<1>1. PICK r : r = send_rst_reply(h, s)
  OBVIOUS
<1>2. Peer(h) \in Hosts /\ s.sport \in PortNames /\ s.dport \in PortNames
  BY Peers DEF Segs
<1>3. PICK q, a, f :
        /\ q = (IF "ACK" \in s.flags THEN s.ack ELSE 0)
        /\ a = (IF "ACK" \in s.flags THEN 0 ELSE (s.seq + 1) % SEQ)
        /\ f = (IF "ACK" \in s.flags THEN {"RST"} ELSE {"RST", "ACK"})
  BY Zenon
<1>4. r = [to |-> Peer(h), sport |-> s.dport, dport |-> s.sport, data |-> <<>>,
           seq |-> q, ack |-> a, flags |-> f]
  BY Zenon, <1>1, <1>3 DEF send_rst_reply
<1>5. q \in Nums /\ a \in Nums
  <2>1. s.ack \in Nums /\ s.seq \in Nums
    BY DEF Segs
  <2>2. SEQ \in Nat \ {0}
    BY TcpAssumption
  <2>3. 0 \in Nums /\ 1 \in 0 .. SEQ
    BY <2>2 DEF Nums
  <2>4. Plus(SEQ, s.seq, 1) \in Nums
    BY Zenon, <2>1, <2>2, <2>3, PlusIs DEF Nums
  <2>5. (s.seq + 1) % SEQ \in Nums
    BY Zenon, <2>4 DEF Plus, Mod
  <2> QED BY Zenon, <1>3, <2>1, <2>3, <2>5
<1>6. f \in SUBSET {"SYN", "ACK", "FIN", "RST"} /\ "SYN" \notin f /\ "RST" \in f
  BY Zenon, <1>3
<1>7. <<>> \in Seq(Bytes)
  OBVIOUS
<1>8. r \in Segs /\ r.flags = f /\ r.data = <<>>
  BY <1>2, <1>4, <1>5, <1>6, <1>7 DEF Segs
<1> QED BY Zenon, <1>1, <1>6, <1>8 DEF SegOk, FirstNumber, Acknowledges, DataIsPlaced

\* The types of a connection's fields.
LEMMA FieldTypes ==
  ASSUME NEW c \in Conns
  PROVE  /\ c.state \in States /\ c.iss \in Nums /\ c.snd_una \in Nums /\ c.snd_nxt \in Nums
         /\ c.rcv_nxt \in Nums /\ c.irs \in Nums \cup {None} /\ c.retx_count \in Nat
         /\ c.rx \in Seq(Bytes) /\ c.got \in Seq(Bytes)
         /\ Len(c.rx) \in Nat /\ Len(c.got) \in Nat
<1>1. /\ c.state \in States /\ c.iss \in Nums /\ c.snd_una \in Nums /\ c.snd_nxt \in Nums
      /\ c.rcv_nxt \in Nums /\ c.irs \in Nums \cup {None} /\ c.retx_count \in Nat
      /\ c.rx \in Seq(Bytes) /\ c.got \in Seq(Bytes)
  BY DEF Conns
<1>2. Len(c.rx) \in Nat /\ Len(c.got) \in Nat
  BY <1>1
<1> QED BY Zenon, <1>1, <1>2

\* The counters as offsets.
LEMMA CountersAre ==
  ASSUME NEW c
  PROVE  /\ Una(c) = Off(SEQ, c.iss, c.snd_una) /\ Nxt(c) = Off(SEQ, c.iss, c.snd_nxt)
         /\ Fins(c) = Behind(SEQ, c.irs, Len(c.got), c.rcv_nxt)
  BY Zenon DEF Una, Nxt, Fins, Off, Behind, Mod

\* A part of the invariant stays when the fields it is about do.
LEMMA StreamsKept ==
  ASSUME NEW h, NEW c, NEW d, Streams(h, c),
         d.got = c.got, d.rx = c.rx, d.irs = c.irs, d.state # "SYN_SENT" \/ d.state = c.state
  PROVE  Streams(h, d)
  BY Zenon DEF Streams
LEMMA ReceivesKept ==
  ASSUME NEW h, NEW c, NEW d, Receives(h, c),
         d.got = c.got, d.irs = c.irs, d.rcv_nxt = c.rcv_nxt,
         d.state \in Synced \cup {"SYN_RCVD"} => c.state \in Synced \cup {"SYN_RCVD"},
         d.state \in Taking => c.state \in Taking
  PROVE  Receives(h, d)
  BY Zenon DEF Receives, Fins
LEMMA SendsKept ==
  ASSUME NEW h, NEW c, NEW d, Sends(h, c),
         d.iss = c.iss, d.snd_una = c.snd_una, d.snd_nxt = c.snd_nxt,
         d.state \notin {"CLOSED", "LISTEN"} => c.state \notin {"CLOSED", "LISTEN"},
         d.state \in {"SYN_SENT", "SYN_RCVD", "ESTABLISHED", "CLOSE_WAIT"}
           => c.state \in {"SYN_SENT", "SYN_RCVD", "ESTABLISHED", "CLOSE_WAIT"},
         d.state \in {"FIN_WAIT_1", "CLOSING"} => c.state \in {"FIN_WAIT_1", "CLOSING"}
  PROVE  Sends(h, d)
  BY Zenon DEF Sends, Una, Nxt

\* What a connection acknowledges is a number of its peer's stream.
LEMMA AckPlaced ==
  ASSUME Limits, NEW h \in Hosts, NEW c \in Conns, Streams(h, c), Receives(h, c),
         c.state \in Synced \cup {"SYN_RCVD"}
  PROVE  Placed(Peer(h), c.rcv_nxt)
<1>1. PICK m \in Nat : m = MAX_SENT[Peer(h)]
  BY Peers, Limited
<1>2. /\ SEQ \in Nat \ {0} /\ MAX_FINS \in Nat /\ m + MAX_FINS + 2 < SEQ \div 2
      /\ SEQ \div 2 <= SEQ /\ \A x \in Isns(Peer(h)) : x \in Nums
  BY Zenon, <1>1, Peers, Limited
<1>3. PICK x \in Isns(Peer(h)) : x = c.irs
  BY Zenon DEF Receives
<1>4. PICK g \in Nat : g = Len(c.got) /\ g <= m
  BY Zenon, <1>1, FieldTypes DEF Streams
<1>5. x \in 0 .. SEQ - 1 /\ c.rcv_nxt \in 0 .. SEQ - 1 /\ g \in 0 .. SEQ - 1
  <2>1. x \in 0 .. SEQ - 1 /\ c.rcv_nxt \in 0 .. SEQ - 1
    BY Zenon, <1>2, FieldTypes DEF Nums
  <2> QED BY <1>2, <1>4, <2>1
<1>6. PICK f \in 0 .. SEQ - 1 : f = Behind(SEQ, x, g, c.rcv_nxt)
  BY Zenon, <1>2, <1>5, BehindCases
<1>7. f <= MAX_FINS
  BY Zenon, <1>3, <1>4, <1>6, CountersAre DEF Receives
<1>8. PICK k \in 1 .. m + MAX_FINS + 1 : k = 1 + g + f /\ k < SEQ
  BY <1>2, <1>4, <1>6, <1>7
<1>9. c.rcv_nxt = (x + k) % SEQ
  <2>1. c.rcv_nxt = Plus(SEQ, x, 1 + g + f)
    BY <1>2, <1>5, <1>6, <1>8, BehindIs
  <2> QED BY Zenon, <1>8, <2>1 DEF Plus, Mod
<1> QED BY Zenon, <1>1, <1>8, <1>9 DEF Placed

\* The control segments of a connection.
LEMMA CtrlMade ==
  ASSUME Limits, NEW h \in Hosts, NEW c \in Conns, Streams(h, c), Receives(h, c),
         c.state \in Synced \cup {"SYN_RCVD"}, NEW flags \in SUBSET {"ACK", "FIN"}
  PROVE  SegOk(send_ctrl(h, c, flags))
<1>1. Placed(Peer(h), c.rcv_nxt)
  BY Zenon, AckPlaced
<1>2. c.snd_nxt \in Nums /\ c.rcv_nxt \in Nums /\ <<>> \in Seq(Bytes)
  BY FieldTypes
<1>3. flags \in SUBSET {"SYN", "ACK", "FIN"} /\ "SYN" \notin flags
  BY Zenon
<1>4. SegOk(Seg(h, c, flags, c.snd_nxt, c.rcv_nxt, <<>>))
  BY Zenon, <1>1, <1>2, <1>3, SegMade
<1> QED BY Zenon, <1>4 DEF send_ctrl

\* The difference of two numbers is that of their places.
LEMMA ModDiff ==
  ASSUME NEW n \in Nat \ {0}, NEW x \in 0 .. n - 1, NEW y \in 0 .. n - 1,
         NEW j \in 0 .. n, NEW k \in 0 .. n
  PROVE  Mod(Plus(n, y, k) - Plus(n, x, j), n) = Mod(y + k - x - j, n)
<1>1. PICK p \in 0 .. n - 1 : p = Plus(n, x, j) /\ p = IF x + j < n THEN x + j ELSE x + j - n
  BY Zenon, PlusIs
<1>2. PICK q \in 0 .. n - 1 : q = Plus(n, y, k) /\ q = IF y + k < n THEN y + k ELSE y + k - n
  BY Zenon, PlusIs
<1>3. PICK d \in Int : d = y + k - x - j /\ -2 * n <= d /\ d < 2 * n
  OBVIOUS
<1>4. PICK e \in Int : e = q - p /\ -2 * n <= e /\ e < 2 * n
  OBVIOUS
<1>5. Mod(d, n) = IF d < -n THEN d + 2 * n ELSE IF d < 0 THEN d + n
                  ELSE IF d < n THEN d ELSE d - n
  BY <1>3, ModIs
<1>6. Mod(e, n) = IF e < -n THEN e + 2 * n ELSE IF e < 0 THEN e + n
                  ELSE IF e < n THEN e ELSE e - n
  BY <1>4, ModIs
<1>7. Mod(d, n) = Mod(e, n)
  BY <1>1, <1>2, <1>3, <1>4, <1>5, <1>6
<1> QED BY <1>1, <1>2, <1>3, <1>4, <1>7

\* The fields retransmission does not touch.
Like(c, d) ==
  /\ d.state = c.state /\ d.lport = c.lport /\ d.rport = c.rport /\ d.iss = c.iss
  /\ d.irs = c.irs /\ d.snd_una = c.snd_una /\ d.snd_nxt = c.snd_nxt
  /\ d.rcv_nxt = c.rcv_nxt /\ d.rx = c.rx /\ d.got = c.got

LEMMA LikeKept ==
  ASSUME NEW h, NEW c, NEW d, Like(c, d), Streams(h, c), Receives(h, c), Sends(h, c)
  PROVE  Streams(h, d) /\ Receives(h, d) /\ Sends(h, d)
<1>1. Streams(h, d)
  BY Zenon, StreamsKept DEF Like
<1>2. Receives(h, d)
  BY Zenon, ReceivesKept DEF Like
<1>3. Sends(h, d)
  BY Zenon, SendsKept DEF Like
<1> QED BY Zenon, <1>1, <1>2, <1>3

\* retx_clear and retx_arm.
LEMMA ClearFields ==
  ASSUME NEW c \in Conns
  PROVE  retx_clear(c) \in Conns /\ Like(c, retx_clear(c)) /\ retx_clear(c).retx = None
<1>1. retx_clear(c) \in Conns
  BY DEF retx_clear, Conns
<1>2. Like(c, retx_clear(c)) /\ retx_clear(c).retx = None
  BY DEF retx_clear, Conns, Like
<1> QED BY <1>1, <1>2

LEMMA ArmFields ==
  ASSUME NEW c \in Conns, NEW seg \in Segs
  PROVE  retx_arm(c, seg) \in Conns /\ Like(c, retx_arm(c, seg)) /\ retx_arm(c, seg).retx = seg
<1>1. retx_arm(c, seg) \in Conns
  BY DEF retx_arm, Conns
<1>2. Like(c, retx_arm(c, seg)) /\ retx_arm(c, seg).retx = seg
  BY DEF retx_arm, Conns, Like
<1> QED BY <1>1, <1>2

\* Clearing keeps the invariant.
LEMMA ClearOk ==
  ASSUME NEW h, NEW c, ConnOk(h, c)
  PROVE  ConnOk(h, retx_clear(c))
<1>1. c \in Conns /\ Streams(h, c) /\ Receives(h, c) /\ Sends(h, c)
  BY Zenon DEF ConnOk
<1>2. PICK d : d = retx_clear(c)
  OBVIOUS
<1>3. d \in Conns /\ Like(c, d) /\ d.retx = None
  BY Zenon, <1>1, <1>2, ClearFields
<1>4. Streams(h, d) /\ Receives(h, d) /\ Sends(h, d)
  BY Zenon, <1>1, <1>3, LikeKept
<1>5. Copies(d)
  BY Zenon, <1>3 DEF Copies
<1> QED BY Zenon, <1>2, <1>3, <1>4, <1>5 DEF ConnOk

\* A slot at boot.
LEMMA ClosedMade ==
  /\ Closed \in Conns /\ Closed.state = "CLOSED" /\ Closed.retx = None
  /\ Closed.rx = <<>> /\ Closed.got = <<>>
<1>1. SEQ \in Nat \ {0}
  BY TcpAssumption
<1>2. 0 \in Nums /\ 0 \in 0 .. SEQ - 1 /\ 1 \in 0 .. SEQ
  BY <1>1 DEF Nums
<1>3. Plus(SEQ, 0, 1) \in Nums
  BY Zenon, <1>1, <1>2, PlusIs DEF Nums
<1>4. (0 + 1) % SEQ \in Nums
  BY Zenon, <1>3 DEF Plus, Mod
<1>5. "CLOSED" \in States /\ None \in PortNames /\ <<>> \in Seq(Bytes)
  BY DEF States, PortNames
<1>6. Closed \in Conns
  BY <1>2, <1>4, <1>5 DEF Closed, Conn, Conns
<1>7. /\ Closed.state = "CLOSED" /\ Closed.retx = None
      /\ Closed.rx = <<>> /\ Closed.got = <<>>
  BY DEF Closed, Conn
<1> QED BY Zenon, <1>6, <1>7

\* A closed slot whose copy is gone: only the unread bytes are left of it.
LEMMA FreedOk ==
  ASSUME NEW h, NEW c, c \in Conns, Streams(h, c), c.retx = None
  PROVE  ConnOk(h, Freed(c)) /\ Freed(c).state = "CLOSED"
<1>1. PICK d : d = Freed(c)
  OBVIOUS
<1>2. Closed \in Conns
  BY Zenon, ClosedMade
<1>3. Closed.state = "CLOSED"
  BY Zenon, ClosedMade
<1>4. /\ d \in Conns /\ d.state = "CLOSED" /\ d.irs = c.irs /\ d.rx = c.rx
      /\ d.got = c.got /\ d.retx = None
  BY <1>1, <1>2, <1>3 DEF Freed, Conns
<1>5. Streams(h, d)
  BY Zenon, <1>4, StreamsKept
<1>6. Receives(h, d) /\ Sends(h, d) /\ Copies(d)
  BY Zenon, <1>4 DEF Receives, Sends, Copies, Synced
<1> QED BY Zenon, <1>1, <1>4, <1>5, <1>6 DEF ConnOk
-----------------------------------------------------------------------------
(* The stages of tcp_rx.                                                   *)

\* Is the acknowledgement taken, and the connection after it.
Valid(c, s) ==
  /\ c.state \in {"ESTABLISHED", "FIN_WAIT_1", "CLOSE_WAIT", "CLOSING"}
  /\ seq_leq(c.snd_una, s.ack) /\ seq_leq(s.ack, c.snd_nxt)
Acked(c, s) ==
  IF ~Valid(c, s) THEN c
  ELSE IF seq_leq(c.snd_nxt, s.ack) THEN retx_clear([c EXCEPT !.snd_una = s.ack])
  ELSE [c EXCEPT !.snd_una = s.ack]

LEMMA AckStageIs ==
  ASSUME NEW c, NEW s
  PROVE  AckStage(c, s) =
           IF "ACK" \notin s.flags THEN c
           ELSE IF c.state = "FIN_WAIT_1" /\ s.ack = c.snd_nxt
           THEN [Acked(c, s) EXCEPT !.state = "FIN_WAIT_2"]
           ELSE IF c.state = "CLOSING" /\ s.ack = c.snd_nxt
           THEN [Acked(c, s) EXCEPT !.state = "TIME_WAIT"]
           ELSE IF c.state = "LAST_ACK" /\ s.ack = c.snd_nxt
           THEN Freed(retx_clear(Acked(c, s)))
           ELSE Acked(c, s)
  BY Zenon DEF AckStage, Acked, Valid

\* What an acknowledgement changes.
LEMMA AckedFields ==
  ASSUME NEW c \in Conns, NEW s \in Segs
  PROVE  LET d == Acked(c, s) IN
         /\ d \in Conns
         /\ d.state = c.state /\ d.iss = c.iss /\ d.irs = c.irs /\ d.snd_nxt = c.snd_nxt
         /\ d.rcv_nxt = c.rcv_nxt /\ d.rx = c.rx /\ d.got = c.got
         /\ d.snd_una = IF Valid(c, s) THEN s.ack ELSE c.snd_una
         /\ d.retx = c.retx \/ d.retx = None
         /\ Valid(c, s) /\ s.ack = c.snd_nxt => d.retx = None
<1>1. PICK u : u = [c EXCEPT !.snd_una = s.ack]
  OBVIOUS
<1>2. s.ack \in Nums
  BY DEF Segs
<1>3. /\ u \in Conns
      /\ u.state = c.state /\ u.iss = c.iss /\ u.irs = c.irs /\ u.snd_nxt = c.snd_nxt
      /\ u.rcv_nxt = c.rcv_nxt /\ u.rx = c.rx /\ u.got = c.got
      /\ u.snd_una = s.ack /\ u.retx = c.retx
  BY <1>1, <1>2 DEF Conns
<1>4. PICK v : v = retx_clear(u)
  OBVIOUS
<1>5. v \in Conns /\ Like(u, v) /\ v.retx = None
  BY Zenon, <1>3, <1>4, ClearFields
<1>6. CASE ~Valid(c, s)
  BY Zenon, <1>6 DEF Acked
<1>7. CASE Valid(c, s) /\ seq_leq(c.snd_nxt, s.ack)
  <2>1. Acked(c, s) = v
    BY Zenon, <1>1, <1>4, <1>7 DEF Acked
  <2> QED BY Zenon, <1>3, <1>5, <1>7, <2>1 DEF Like
<1>8. CASE Valid(c, s) /\ ~seq_leq(c.snd_nxt, s.ack)
  <2>1. Acked(c, s) = u
    BY Zenon, <1>1, <1>8 DEF Acked
  <2>2. s.ack # c.snd_nxt
    BY Zenon, <1>8 DEF seq_leq
  <2> QED BY Zenon, <1>3, <1>8, <2>1, <2>2
<1> QED BY Zenon, <1>6, <1>7, <1>8

\* An acknowledgement that is taken lies between what was acknowledged and
\* what was sent, and the last one is always taken.
LEMMA AckTaken ==
  ASSUME Limits, IsnsApart, NEW h \in Hosts, NEW c, ConnOk(h, c), NEW s, SegOk(s),
         s.to = h, "ACK" \in s.flags, "RST" \notin s.flags,
         c.state \in {"ESTABLISHED", "FIN_WAIT_1", "CLOSE_WAIT", "CLOSING"}
  PROVE  LET k == Off(SEQ, c.iss, s.ack) IN
         /\ s.ack = c.snd_nxt => Valid(c, s)
         /\ Valid(c, s) => Una(c) <= k /\ k <= Nxt(c)
         /\ s.ack # c.snd_nxt => k # Nxt(c)
<1>1. c \in Conns /\ Sends(h, c) /\ s \in Segs /\ Acknowledges(s)
  BY Zenon DEF ConnOk, SegOk
<1>2. PICK m \in Nat : m = MAX_SENT[h]
  BY Zenon, Limited
<1>3. /\ SEQ \in Nat \ {0} /\ SEQ % 2 = 0 /\ MAX_FINS \in Nat /\ m + MAX_FINS + 2 < SEQ \div 2
      /\ SEQ \div 2 <= SEQ /\ \A x \in Isns(h) : x \in Nums
  BY Zenon, <1>2, Limited
<1>4. PICK x \in Isns(h) : x = c.iss
  BY Zenon, <1>1 DEF Sends
<1>5. PICK una \in Nums, nxt \in Nums, ack \in Nums :
        una = c.snd_una /\ nxt = c.snd_nxt /\ ack = s.ack
  BY <1>1, FieldTypes DEF Segs
<1>6. /\ x \in 0 .. SEQ - 1 /\ una \in 0 .. SEQ - 1 /\ nxt \in 0 .. SEQ - 1
      /\ ack \in 0 .. SEQ - 1
  BY Zenon, <1>3, <1>4, <1>5 DEF Nums
<1>7. Una(c) = Off(SEQ, x, una) /\ Nxt(c) = Off(SEQ, x, nxt)
  BY Zenon, <1>4, <1>5, CountersAre
<1>8. PICK b \in 0 .. SEQ - 1 : b = Off(SEQ, x, nxt)
  BY Zenon, <1>3, <1>6, OffIs
<1>9. /\ Off(SEQ, x, una) <= b /\ 1 <= b /\ b <= m + 2
      /\ c.state \in {"ESTABLISHED", "CLOSE_WAIT"} => b <= m + 1
      /\ c.state \in {"FIN_WAIT_1", "CLOSING"} => Off(SEQ, x, una) < b
  BY Zenon, <1>1, <1>2, <1>7, <1>8 DEF Sends
<1>10. Off(SEQ, x, nxt) < SEQ \div 2
  BY <1>3, <1>8, <1>9
<1>11. una = nxt => Mod(ack - nxt, SEQ) # SEQ \div 2
  <2> SUFFICES ASSUME una = nxt PROVE Mod(ack - nxt, SEQ) # SEQ \div 2
    OBVIOUS
  <2>1. b <= m + 1
    <3>1. ~(Off(SEQ, x, una) < b)
      BY <1>8
    <3> QED BY Zenon, <1>9, <3>1
  <2>2. PICK y \in Isns(h), k \in 1 .. m + MAX_FINS + 1 : ack = (y + k) % SEQ
    BY Zenon, <1>1, <1>2, <1>5 DEF Acknowledges
  <2>3. y \in 0 .. SEQ - 1 /\ b \in 0 .. SEQ /\ k \in 0 .. SEQ /\ b \in 1 .. m + 1
    <3>1. y \in 0 .. SEQ - 1
      BY Zenon, <1>3 DEF Nums
    <3> QED BY <1>3, <1>9, <2>1, <2>2, <3>1
  <2>4. (y + k - x - b) % SEQ # SEQ \div 2
    <3>1. b \in 1 .. MAX_SENT[h] + 1 /\ k \in 1 .. MAX_SENT[h] + MAX_FINS + 1
      BY Zenon, <1>2, <2>2, <2>3
    <3>2. \A j \in 1 .. MAX_SENT[h] + 1, l \in 1 .. MAX_SENT[h] + MAX_FINS + 1 :
            (y + l - x - j) % SEQ # SEQ \div 2
      BY Zenon DEF IsnsApart
    <3> QED BY Zenon, <3>1, <3>2
  <2>5. ack = Plus(SEQ, y, k) /\ nxt = Plus(SEQ, x, b)
    <3>1. ack = Plus(SEQ, y, k)
      BY Zenon, <2>2 DEF Plus, Mod
    <3>2. nxt = Plus(SEQ, x, Off(SEQ, x, nxt))
      BY Zenon, <1>3, <1>6, OffPlus
    <3> QED BY Zenon, <1>8, <3>1, <3>2
  <2>6. Mod(Plus(SEQ, y, k) - Plus(SEQ, x, b), SEQ) = Mod(y + k - x - b, SEQ)
    <3>1. /\ SEQ \in Nat \ {0} /\ x \in 0 .. SEQ - 1 /\ y \in 0 .. SEQ - 1
          /\ b \in 0 .. SEQ /\ k \in 0 .. SEQ
      BY Zenon, <1>3, <1>6, <2>3
    <3>2. \A j, l \in 0 .. SEQ : Mod(Plus(SEQ, y, l) - Plus(SEQ, x, j), SEQ) = Mod(y + l - x - j, SEQ)
      BY Zenon, <3>1, ModDiff
    <3> QED BY Zenon, <3>1, <3>2
  <2>7. Mod(y + k - x - b, SEQ) # SEQ \div 2
    BY Zenon, <2>4 DEF Mod
  <2> QED BY Zenon, <2>5, <2>6, <2>7
<1>12. /\ una = nxt \/ Mod(una - nxt, SEQ) >= SEQ \div 2
       /\ /\ una = ack \/ Mod(una - ack, SEQ) >= SEQ \div 2
          /\ ack = nxt \/ Mod(ack - nxt, SEQ) >= SEQ \div 2
          => Off(SEQ, x, una) <= Off(SEQ, x, ack) /\ Off(SEQ, x, ack) <= Off(SEQ, x, nxt)
       /\ ack # nxt => Off(SEQ, x, ack) # Off(SEQ, x, nxt)
  BY Zenon, <1>3, <1>6, <1>8, <1>9, <1>10, <1>11, AckBetween
<1>13. s.ack = c.snd_nxt => Valid(c, s)
  BY Zenon, <1>5, <1>12 DEF Valid, seq_leq, seq_lt, Mod
<1>14. Valid(c, s) => /\ una = ack \/ Mod(una - ack, SEQ) >= SEQ \div 2
                      /\ ack = nxt \/ Mod(ack - nxt, SEQ) >= SEQ \div 2
  BY Zenon, <1>5 DEF Valid, seq_leq, seq_lt, Mod
<1> QED BY Zenon, <1>4, <1>5, <1>7, <1>12, <1>13, <1>14

\* The ACK stage keeps the invariant and what has been received.
StaysOk(h, c, d) ==
  /\ ConnOk(h, d)
  /\ \/ d.state = "CLOSED"
     \/ d.state \in Synced /\ d.irs = c.irs /\ d.got = c.got /\ d.rcv_nxt = c.rcv_nxt

LEMMA AckStageOk ==
  ASSUME Limits, IsnsApart, NEW h \in Hosts, NEW c, ConnOk(h, c), c.state \in Synced,
         NEW s, SegOk(s), s.to = h, "RST" \notin s.flags
  PROVE  StaysOk(h, c, AckStage(c, s))
<1>1. CASE "ACK" \notin s.flags
  BY Zenon, <1>1, AckStageIs DEF StaysOk
<1>2. CASE "ACK" \in s.flags
  <2>1. /\ c \in Conns /\ Streams(h, c) /\ Receives(h, c) /\ Sends(h, c) /\ Copies(c)
        /\ s \in Segs
    BY Zenon DEF ConnOk, SegOk
  <2>2. PICK a : a = Acked(c, s)
    OBVIOUS
  <2>3. /\ a \in Conns
        /\ a.state = c.state /\ a.iss = c.iss /\ a.irs = c.irs /\ a.snd_nxt = c.snd_nxt
        /\ a.rcv_nxt = c.rcv_nxt /\ a.rx = c.rx /\ a.got = c.got
        /\ a.snd_una = IF Valid(c, s) THEN s.ack ELSE c.snd_una
        /\ a.retx = c.retx \/ a.retx = None
        /\ Valid(c, s) /\ s.ack = c.snd_nxt => a.retx = None
    BY Zenon, <2>1, <2>2, AckedFields
  <2>4. /\ c.iss \in Isns(h)
        /\ Una(c) <= Nxt(c) /\ 1 <= Nxt(c) /\ Nxt(c) <= MAX_SENT[h] + 2
        /\ c.state \in {"SYN_SENT", "SYN_RCVD", "ESTABLISHED", "CLOSE_WAIT"} =>
             Nxt(c) <= MAX_SENT[h] + 1
        /\ c.state \in {"FIN_WAIT_1", "CLOSING"} => Una(c) < Nxt(c)
    BY Zenon, <2>1 DEF Sends, Synced
  <2>5. Una(a) \in Nat /\ Nxt(c) \in Nat /\ Nxt(a) = Nxt(c)
    <3>1. c.iss \in Nums /\ a.snd_una \in Nums /\ c.snd_nxt \in Nums /\ a.iss \in Nums
      BY Zenon, <2>1, <2>3, FieldTypes
    <3>2. SEQ \in Nat \ {0}
      BY TcpAssumption
    <3>3. Off(SEQ, a.iss, a.snd_una) \in 0 .. SEQ - 1 /\ Off(SEQ, c.iss, c.snd_nxt) \in 0 .. SEQ - 1
      BY <3>1, <3>2, OffIs DEF Nums
    <3>4. Una(a) \in 0 .. SEQ - 1 /\ Nxt(c) \in 0 .. SEQ - 1
      BY Zenon, <3>3, CountersAre
    <3>5. Nxt(a) = Nxt(c)
      BY Zenon, <2>3 DEF Nxt
    <3> QED BY <3>2, <3>4, <3>5
  <2>6. Una(a) <= Nxt(c) /\ (c.state \in {"FIN_WAIT_1", "CLOSING"} /\ s.ack # c.snd_nxt
                               => Una(a) < Nxt(c))
    <3>1. CASE ~Valid(c, s)
      <4>1. Una(a) = Una(c)
        BY Zenon, <2>3, <3>1 DEF Una
      <4> QED BY Zenon, <2>4, <4>1
    <3>2. CASE Valid(c, s)
      <4>1. Una(a) = Off(SEQ, c.iss, s.ack)
        BY Zenon, <2>3, <3>2, CountersAre
      <4>2. c.state \in {"ESTABLISHED", "FIN_WAIT_1", "CLOSE_WAIT", "CLOSING"}
        BY Zenon, <3>2 DEF Valid
      <4>3. /\ Off(SEQ, c.iss, s.ack) <= Nxt(c)
            /\ s.ack # c.snd_nxt => Off(SEQ, c.iss, s.ack) # Nxt(c)
        BY Zenon, <1>2, <3>2, <4>2, AckTaken
      <4>4. Una(a) <= Nxt(c) /\ (s.ack # c.snd_nxt => Una(a) # Nxt(c))
        BY Zenon, <4>1, <4>3
      <4> QED BY <2>5, <4>4
    <3> QED BY Zenon, <3>1, <3>2
  <2>7. Streams(h, a) /\ Receives(h, a)
    <3>1. Streams(h, a)
      BY Zenon, <2>1, <2>3, StreamsKept
    <3>2. Receives(h, a)
      BY Zenon, <2>1, <2>3, ReceivesKept
    <3> QED BY Zenon, <3>1, <3>2
  <2>8. (a.retx # None => SegOk(a.retx)) /\ (c.state \in Quiet => a.retx = None)
    BY Zenon, <2>1, <2>3 DEF Copies
  <2>9. ASSUME c.state \in {"FIN_WAIT_1", "CLOSING"}, s.ack = c.snd_nxt
        PROVE  a.retx = None
    <3>1. Valid(c, s)
      BY Zenon, <1>2, <2>9, AckTaken
    <3> QED BY Zenon, <2>3, <2>9, <3>1
  <2>10. ASSUME NEW d, NEW q \in {"FIN_WAIT_2", "TIME_WAIT"}, d = [a EXCEPT !.state = q],
                c.state \in {"FIN_WAIT_1", "CLOSING"}, s.ack = c.snd_nxt,
                q = "FIN_WAIT_2" => c.state = "FIN_WAIT_1"
         PROVE  ConnOk(h, d) /\ d.state \in Synced /\ d.irs = c.irs /\ d.got = c.got
                /\ d.rcv_nxt = c.rcv_nxt
    <3>1. q \in States
      BY Zenon DEF States, Synced
    <3>2. /\ d \in Conns /\ d.state = q /\ d.iss = a.iss /\ d.irs = a.irs
          /\ d.snd_una = a.snd_una /\ d.snd_nxt = a.snd_nxt /\ d.rcv_nxt = a.rcv_nxt
          /\ d.rx = a.rx /\ d.got = a.got /\ d.retx = a.retx
      BY <2>3, <2>10, <3>1 DEF Conns
    <3>3. Streams(h, d)
      BY Zenon, <2>7, <3>2, StreamsKept
    <3>4. Receives(h, d)
      <4>1. d.state \in Taking => a.state \in Taking
        BY Zenon, <2>3, <2>10, <3>2 DEF Taking
      <4>2. a.state \in Synced
        BY Zenon, <2>3
      <4> QED BY Zenon, <2>7, <3>2, <4>1, <4>2, ReceivesKept
    <3>5. Sends(h, d)
      <4>1. Una(d) = Una(a) /\ Nxt(d) = Nxt(c)
        BY Zenon, <2>3, <3>2 DEF Una, Nxt
      <4> QED BY Zenon, <2>3, <2>4, <2>6, <3>2, <4>1 DEF Sends
    <3>6. Copies(d)
      BY Zenon, <2>9, <2>10, <3>2 DEF Copies
    <3> QED BY Zenon, <2>3, <3>2, <3>3, <3>4, <3>5, <3>6 DEF ConnOk, Synced
  <2>11. CASE c.state = "FIN_WAIT_1" /\ s.ack = c.snd_nxt
    <3>1. AckStage(c, s) = [a EXCEPT !.state = "FIN_WAIT_2"]
      BY Zenon, <1>2, <2>2, <2>11, AckStageIs
    <3> QED BY Zenon, <2>10, <2>11, <3>1 DEF StaysOk
  <2>12. CASE c.state = "CLOSING" /\ s.ack = c.snd_nxt
    <3>1. AckStage(c, s) = [a EXCEPT !.state = "TIME_WAIT"]
      BY Zenon, <1>2, <2>2, <2>12, AckStageIs
    <3> QED BY Zenon, <2>10, <2>12, <3>1 DEF StaysOk
  <2>13. CASE c.state = "LAST_ACK" /\ s.ack = c.snd_nxt
    <3>1. AckStage(c, s) = Freed(retx_clear(a))
      BY Zenon, <1>2, <2>2, <2>13, AckStageIs
    <3>2. retx_clear(a) \in Conns /\ Like(a, retx_clear(a)) /\ retx_clear(a).retx = None
      BY Zenon, <2>3, ClearFields
    <3>3. Streams(h, retx_clear(a))
      BY Zenon, <2>7, <3>2, StreamsKept DEF Like
    <3> QED BY Zenon, <3>1, <3>2, <3>3, FreedOk DEF StaysOk
  <2>14. CASE ~(c.state \in {"FIN_WAIT_1", "CLOSING", "LAST_ACK"} /\ s.ack = c.snd_nxt)
    <3>1. AckStage(c, s) = a
      BY Zenon, <1>2, <2>2, <2>14, AckStageIs
    <3>2. Sends(h, a)
      BY Zenon, <2>3, <2>4, <2>5, <2>6, <2>14 DEF Sends
    <3>3. Copies(a)
      BY Zenon, <2>3, <2>8 DEF Copies
    <3> QED BY Zenon, <2>3, <2>7, <3>1, <3>2, <3>3 DEF ConnOk, StaysOk
  <2> QED BY Zenon, <2>11, <2>12, <2>13, <2>14
<1> QED BY Zenon, <1>1, <1>2

\* The end of a sequence, element by element.
LEMMA EndsByElements ==
  ASSUME NEW S, NEW s \in Seq(S), NEW t \in Seq(S)
  PROVE  EndsOf(s, t) <=> /\ Len(s) <= Len(t)
                          /\ \A k \in 1 .. Len(s) : s[k] = t[(Len(t) - Len(s)) + k]
<1>1. PICK a \in Nat, b \in Nat : a = Len(s) /\ b = Len(t)
  OBVIOUS
<1>2. ASSUME a <= b
      PROVE  /\ SubSeq(t, (b - a) + 1, b) \in Seq(S) /\ Len(SubSeq(t, (b - a) + 1, b)) = a
             /\ \A k \in 1 .. a : SubSeq(t, (b - a) + 1, b)[k] = t[(b - a) + k]
  <2>1. PICK m \in Int : m = (b - a) + 1 /\ b - m + 1 = a /\ (m <= b \/ a = 0)
                          /\ \A k \in 1 .. a : m + k - 1 = (b - a) + k
    BY <1>2
  <2>2. \A k \in m .. b : t[k] \in S
    BY <1>1, <1>2, <2>1
  <2>3. /\ SubSeq(t, m, b) \in Seq(S) /\ Len(SubSeq(t, m, b)) = IF m <= b THEN b - m + 1 ELSE 0
        /\ \A k \in 1 .. b - m + 1 : SubSeq(t, m, b)[k] = t[m + k - 1]
    BY <2>2, SubSeqProperties
  <2>4. Len(SubSeq(t, m, b)) = a
    BY <2>1, <2>3
  <2> QED BY <2>1, <2>3, <2>4
<1>3. CASE a <= b
  <2>1. PICK w : w = SubSeq(t, (b - a) + 1, b)
    BY Zenon
  <2>2. w \in Seq(S) /\ Len(w) = a /\ \A k \in 1 .. a : w[k] = t[(b - a) + k]
    BY Zenon, <1>2, <1>3, <2>1
  <2>3. s = w <=> \A k \in 1 .. a : s[k] = w[k]
    BY Zenon, <1>1, <2>2, SeqEqual
  <2>4. EndsOf(s, t) <=> s = w
    BY Zenon, <1>1, <1>3, <2>1 DEF EndsOf
  <2>5. (\A k \in 1 .. a : s[k] = w[k]) <=> \A k \in 1 .. a : s[k] = t[(b - a) + k]
    BY Zenon, <2>2
  <2> QED BY Zenon, <1>1, <1>3, <2>3, <2>4, <2>5
<1>4. CASE ~(a <= b)
  BY Zenon, <1>1, <1>4 DEF EndsOf
<1> QED BY Zenon, <1>3, <1>4

\* An unread part stays the end of what was taken when both grow by u.
LEMMA EndsGrow ==
  ASSUME NEW S, NEW s \in Seq(S), NEW t \in Seq(S), NEW u \in Seq(S), EndsOf(s, t)
  PROVE  EndsOf(s \o u, t \o u)
<1>1. PICK a \in Nat, b \in Nat, n \in Nat : a = Len(s) /\ b = Len(t) /\ n = Len(u)
  OBVIOUS
<1>2. a <= b /\ \A k \in 1 .. a : s[k] = t[(b - a) + k]
  BY Zenon, <1>1, EndsByElements
<1>3. PICK p, q : p = s \o u /\ q = t \o u
  BY Zenon
<1>4. /\ p \in Seq(S) /\ Len(p) = a + n
      /\ \A k \in 1 .. a + n : p[k] = IF k <= a THEN s[k] ELSE u[k - a]
  BY Zenon, <1>1, <1>3, ConcatProperties
<1>5. /\ q \in Seq(S) /\ Len(q) = b + n
      /\ \A k \in 1 .. b + n : q[k] = IF k <= b THEN t[k] ELSE u[k - b]
  BY Zenon, <1>1, <1>3, ConcatProperties
<1>6. ASSUME NEW k \in 1 .. a + n PROVE p[k] = q[((b + n) - (a + n)) + k]
  <2>1. PICK l \in 1 .. b + n : l = ((b + n) - (a + n)) + k /\ l = (b - a) + k
                                /\ (k <= a <=> l <= b) /\ l - b = k - a
    BY <1>2
  <2>2. p[k] = (IF k <= a THEN s[k] ELSE u[k - a]) /\ q[l] = (IF l <= b THEN t[l] ELSE u[l - b])
    BY Zenon, <1>4, <1>5, <2>1
  <2>3. k <= a => k \in 1 .. a
    OBVIOUS
  <2> QED BY Zenon, <1>2, <2>1, <2>2, <2>3
<1>7. a + n <= b + n
  BY <1>2
<1>8. EndsOf(p, q)
  BY Zenon, <1>4, <1>5, <1>6, <1>7, EndsByElements
<1> QED BY Zenon, <1>3, <1>8

\* The unread part of a ring after a read of n bytes is still the end.
LEMMA EndsShrink ==
  ASSUME NEW S, NEW s \in Seq(S), NEW t \in Seq(S), EndsOf(s, t), NEW n \in 0 .. Len(s)
  PROVE  /\ EndsOf(SubSeq(s, 1 + n, Len(s)), t)
         /\ SubSeq(s, 1 + n, Len(s)) \in Seq(S)
         /\ Len(SubSeq(s, 1 + n, Len(s))) <= Len(s)
<1>1. PICK a \in Nat, b \in Nat : a = Len(s) /\ b = Len(t)
  OBVIOUS
<1>2. a <= b /\ \A k \in 1 .. a : s[k] = t[(b - a) + k]
  BY Zenon, <1>1, EndsByElements
<1>3. PICK r : r = SubSeq(s, 1 + n, a)
  BY Zenon
<1>4. r \in Seq(S) /\ Len(r) = a - n /\ \A k \in 1 .. a - n : r[k] = s[n + k]
  <2>1. PICK m \in Int : m = 1 + n /\ a - m + 1 = a - n /\ (m <= a \/ a - n = 0)
                          /\ \A k \in 1 .. a - n : m + k - 1 = n + k
    BY <1>1
  <2>2. \A k \in m .. a : s[k] \in S
    BY <1>1, <2>1
  <2>3. /\ SubSeq(s, m, a) \in Seq(S) /\ Len(SubSeq(s, m, a)) = IF m <= a THEN a - m + 1 ELSE 0
        /\ \A k \in 1 .. a - m + 1 : SubSeq(s, m, a)[k] = s[m + k - 1]
    BY <2>2, SubSeqProperties
  <2>4. Len(SubSeq(s, m, a)) = a - n
    BY <1>1, <2>1, <2>3
  <2>5. r = SubSeq(s, m, a)
    BY Zenon, <1>3, <2>1
  <2>6. \A k \in 1 .. a - n : r[k] = s[n + k]
    BY Zenon, <2>1, <2>3, <2>5
  <2> QED BY Zenon, <2>3, <2>4, <2>5, <2>6
<1>5. ASSUME NEW k \in 1 .. a - n PROVE r[k] = t[(b - (a - n)) + k]
  <2>1. PICK l \in 1 .. a : l = n + k /\ (b - a) + l = (b - (a - n)) + k
    BY <1>1
  <2> QED BY Zenon, <1>2, <1>4, <2>1
<1>6. a - n <= b /\ a - n <= a
  BY <1>1, <1>2
<1>7. EndsOf(r, t)
  BY Zenon, <1>1, <1>4, <1>5, <1>6, EndsByElements
<1> QED BY Zenon, <1>1, <1>3, <1>4, <1>6, <1>7

\* The smaller of two numbers.
LEMMA MinOfTwo ==
  ASSUME NEW a \in Nat, NEW b \in Nat
  PROVE  Min({a, b}) \in Nat /\ Min({a, b}) <= a /\ Min({a, b}) <= b
         /\ Min({a, b}) \in {a, b}
<1>1. \E x \in {a, b} : \A y \in {a, b} : x <= y
  OBVIOUS
<1>2. Min({a, b}) \in {a, b} /\ \A y \in {a, b} : Min({a, b}) <= y
  BY Zenon, <1>1 DEF Min
<1> QED BY <1>2

\* Data that starts at rcv_nxt is the peer's next bytes: its place and its
\* connection follow from the sequence number.
LEMMA DataIsNext ==
  ASSUME Limits, IsnsApart, NEW h \in Hosts, NEW c, ConnOk(h, c), NEW s, SegOk(s),
         c.state \in Taking, s.to = h, s.data # <<>>, s.seq = c.rcv_nxt
  PROVE  DataAt(s, c.irs, Len(c.got))
<1>1. c \in Conns /\ Streams(h, c) /\ Receives(h, c) /\ s \in Segs /\ DataIsPlaced(s)
  BY Zenon DEF ConnOk, SegOk
<1>2. PICK m \in Nat : m = MAX_SENT[Peer(h)]
  BY Zenon, Peers, Limited
<1>3. /\ SEQ \in Nat \ {0} /\ MAX_FINS \in Nat /\ m + MAX_FINS + 2 < SEQ \div 2
      /\ SEQ \div 2 <= SEQ /\ \A x \in Isns(Peer(h)) : x \in Nums
  BY Zenon, <1>2, Peers, Limited
<1>4. PICK x \in Isns(Peer(h)), o \in Nat : DataAt(s, x, o)
  BY Zenon, <1>1 DEF DataIsPlaced
<1>5. PICK l \in Nat : l = Len(s.data)
  BY <1>1 DEF Segs
<1>6. o + l <= m /\ s.seq = (x + 1 + o) % SEQ
  BY Zenon, <1>2, <1>4, <1>5 DEF DataAt
<1>7. /\ c.irs \in Isns(Peer(h)) /\ Fins(c) = 0
  BY Zenon, <1>1 DEF Receives, Taking, Synced
<1>8. PICK y \in Isns(Peer(h)), g \in Nat, r \in Nums :
        y = c.irs /\ g = Len(c.got) /\ g <= m /\ r = c.rcv_nxt
  BY Zenon, <1>1, <1>2, <1>7, FieldTypes DEF Streams
<1>9. x \in 0 .. SEQ - 1 /\ y \in 0 .. SEQ - 1 /\ r \in 0 .. SEQ - 1
  BY Zenon, <1>3, <1>8 DEF Nums
<1>10. /\ g \in 0 .. SEQ - 1 /\ 1 + g < SEQ /\ 1 + g + 0 = 1 + g
       /\ o \in 0 .. m /\ g \in 0 .. m /\ 1 + o \in 0 .. SEQ - 1 /\ 1 + g \in 0 .. SEQ - 1
  BY <1>3, <1>5, <1>6, <1>8
<1>11. r = Plus(SEQ, y, 1 + g)
  <2>1. 0 = Behind(SEQ, y, g, r) /\ 1 + g + 0 < SEQ
    BY Zenon, <1>7, <1>8, <1>10, CountersAre
  <2>2. r = Plus(SEQ, y, 1 + g + 0)
    BY <1>3, <1>9, <1>10, <2>1, BehindIs
  <2> QED BY Zenon, <1>10, <2>2
<1>12. x + 1 + o = x + (1 + o) /\ y + 1 + g = y + (1 + g)
  BY <1>9
<1>13. r = (x + 1 + o) % SEQ /\ r = (y + 1 + g) % SEQ
  BY Zenon, <1>6, <1>8, <1>11, <1>12 DEF Plus, Mod
<1>14. x = y
  <2>1. \A j, k \in 0 .. MAX_SENT[Peer(h)] : (x + 1 + j) % SEQ = (y + 1 + k) % SEQ => x = y
    BY Zenon, Peers DEF IsnsApart
  <2> QED BY Zenon, <1>2, <1>10, <1>13, <2>1
<1>15. o = g
  <2>1. r = Plus(SEQ, x, 1 + o)
    BY Zenon, <1>12, <1>13 DEF Plus, Mod
  <2>2. Off(SEQ, x, r) = 1 + o /\ Off(SEQ, x, r) = 1 + g
    BY Zenon, <1>3, <1>9, <1>10, <1>11, <1>14, <2>1, OffPlus
  <2> QED BY <2>2
<1> QED BY Zenon, <1>4, <1>8, <1>14, <1>15

\* The sums that occur in it.
LEMMA TakenSums ==
  ASSUME NEW S \in Nat, NEW H \in Nat, NEW F \in Nat, NEW R \in Nat, NEW m \in Nat,
         NEW g \in Nat, NEW l \in Nat, NEW n \in Nat, NEW a \in Nat,
         m + F + 2 < H, H <= S, n <= l, g + l <= m, n <= R - 1 - a
  PROVE  /\ n \in 0 .. S /\ g \in 0 .. S - 1 /\ 1 + g + n < S
         /\ g + n <= m /\ a + n < R
  OBVIOUS

\* The first n elements of a sequence.
LEMMA FirstOf ==
  ASSUME NEW S, NEW s \in Seq(S), NEW n \in Nat, n <= Len(s)
  PROVE  /\ SubSeq(s, 1, n) \in Seq(S) /\ Len(SubSeq(s, 1, n)) = n
         /\ \A k \in 1 .. n : SubSeq(s, 1, n)[k] = s[k] /\ k \in 1 .. Len(s)
<1>1. \A k \in 1 .. n : s[k] \in S /\ k \in 1 .. Len(s)
  OBVIOUS
<1>2. /\ SubSeq(s, 1, n) \in Seq(S) /\ Len(SubSeq(s, 1, n)) = IF 1 <= n THEN n - 1 + 1 ELSE 0
      /\ \A k \in 1 .. n - 1 + 1 : SubSeq(s, 1, n)[k] = s[1 + k - 1]
  BY <1>1, SubSeqProperties
<1>3. n - 1 + 1 = n /\ \A k \in 1 .. n : 1 + k - 1 = k
  OBVIOUS
<1>4. Len(SubSeq(s, 1, n)) = n
  BY <1>2
<1> QED BY Zenon, <1>1, <1>2, <1>3, <1>4

\* t is the stream of P that starts at x, from its o-th byte on.
From(t, P, x, o) == \A k \in 1 .. Len(t) : t[k] = <<P, x, o + k>>

\* The stream and its unread end when the next bytes come.
LEMMA StreamGrows ==
  ASSUME NEW S, NEW rx, NEW got, NEW u, NEW P, NEW x,
         From(u, P, x, Len(got)), From(got, P, x, 0), EndsOf(rx, got),
         rx \in Seq(S), got \in Seq(S), u \in Seq(S)
  PROVE  /\ rx \o u \in Seq(S) /\ Len(rx \o u) = Len(rx) + Len(u)
         /\ got \o u \in Seq(S) /\ Len(got \o u) = Len(got) + Len(u)
         /\ \A k \in 1 .. Len(got) + Len(u) : (got \o u)[k] = <<P, x, k>>
         /\ EndsOf(rx \o u, got \o u)
<1>0. PICK g \in Nat, n \in Nat : g = Len(got) /\ n = Len(u)
  BY Zenon, LenProperties
<1>1. rx \o u \in Seq(S) /\ Len(rx \o u) = Len(rx) + n
  BY Zenon, <1>0, ConcatProperties
<1>2. /\ got \o u \in Seq(S) /\ Len(got \o u) = g + n
      /\ \A k \in 1 .. g + n : (got \o u)[k] = IF k <= g THEN got[k] ELSE u[k - g]
  BY Zenon, <1>0, ConcatProperties
<1>3. ASSUME NEW k \in 1 .. g + n PROVE (got \o u)[k] = <<P, x, k>>
  <2>1. (k <= g => k \in 1 .. g) /\ (~(k <= g) => k - g \in 1 .. n /\ g + (k - g) = k)
    BY <1>0
  <2>2. \A j \in 1 .. g : got[j] = <<P, x, j>>
    <3>1. \A j \in 1 .. g : 0 + j = j
      OBVIOUS
    <3> QED BY Zenon, <1>0, <3>1 DEF From
  <2>3. \A j \in 1 .. n : u[j] = <<P, x, g + j>>
    BY Zenon, <1>0 DEF From
  <2> QED BY Zenon, <1>2, <2>1, <2>2, <2>3
<1>4. EndsOf(rx \o u, got \o u)
  BY Zenon, EndsGrow
<1> QED BY Zenon, <1>0, <1>1, <1>2, <1>3, <1>4

\* Taking the first n bytes of it.
Takes(h, c, s, n, d) ==
  /\ ConnOk(h, c) /\ SegOk(s) /\ c.state \in Taking
  /\ s.to = h /\ s.data # <<>> /\ s.seq = c.rcv_nxt
  /\ n <= Len(s.data) /\ n <= rx_free(c)
  /\ d = [c EXCEPT !.rx = c.rx \o SubSeq(s.data, 1, n),
                   !.got = c.got \o SubSeq(s.data, 1, n),
                   !.rcv_nxt = (c.rcv_nxt + n) % SEQ]

LEMMA TakenOk ==
  ASSUME Limits, IsnsApart, NEW h \in Hosts, NEW c, NEW s, NEW n \in Nat, NEW d
  PROVE  Takes(h, c, s, n, d) => ConnOk(h, d) /\ d.state = c.state /\ d.irs = c.irs /\ Fins(d) = Fins(c)
<1>0. SUFFICES
        ASSUME /\ ConnOk(h, c) /\ SegOk(s) /\ c.state \in Taking
               /\ s.to = h /\ s.data # <<>> /\ s.seq = c.rcv_nxt
               /\ n <= Len(s.data) /\ n <= rx_free(c),
               d = [c EXCEPT !.rx = c.rx \o SubSeq(s.data, 1, n),
                             !.got = c.got \o SubSeq(s.data, 1, n),
                             !.rcv_nxt = (c.rcv_nxt + n) % SEQ]
        PROVE  ConnOk(h, d) /\ d.state = c.state /\ d.irs = c.irs /\ Fins(d) = Fins(c)
  BY Zenon DEF Takes
<1>1. /\ c \in Conns /\ Streams(h, c) /\ Receives(h, c) /\ Sends(h, c) /\ Copies(c)
      /\ s \in Segs
  BY Zenon, <1>0 DEF ConnOk, SegOk
<1>2. PICK m \in Nat : m = MAX_SENT[Peer(h)]
  BY Zenon, Peers, Limited
<1>3. /\ SEQ \in Nat \ {0} /\ MAX_FINS \in Nat /\ m + MAX_FINS + 2 < SEQ \div 2
      /\ SEQ \div 2 <= SEQ /\ \A x \in Isns(Peer(h)) : x \in Nums
  BY Zenon, <1>2, Peers, Limited
<1>4. SEQ \in Nat /\ SEQ \div 2 \in Nat /\ TCP_RX_BUF_SIZE \in Nat
  BY TcpAssumption, Z3 DEF Limits
<1>5. DataAt(s, c.irs, Len(c.got))
  BY Zenon, <1>0, DataIsNext
<1>6. s.data \in Seq(Bytes)
  BY <1>1 DEF Segs
<1>7. PICK rx \in Seq(Bytes), got \in Seq(Bytes), data \in Seq(Bytes) :
        rx = c.rx /\ got = c.got /\ data = s.data
  BY Zenon, <1>1, <1>6, FieldTypes
<1>8. PICK g \in Nat, a \in Nat, l \in Nat : g = Len(got) /\ a = Len(rx) /\ l = Len(data)
  BY Zenon, LenProperties
<1>9. /\ n <= l /\ n <= TCP_RX_BUF_SIZE - 1 - a /\ g + l <= m
  BY Zenon, <1>0, <1>2, <1>5, <1>7, <1>8 DEF DataAt, rx_free
<1>10. /\ n \in 0 .. SEQ /\ g \in 0 .. SEQ - 1 /\ 1 + g + n < SEQ
       /\ g + n <= m /\ a + n < TCP_RX_BUF_SIZE
  <2>1. PICK S \in Nat, H \in Nat, R \in Nat, F \in Nat :
          /\ S = SEQ /\ H = SEQ \div 2 /\ R = TCP_RX_BUF_SIZE /\ F = MAX_FINS
          /\ m + F + 2 < H /\ H <= S
    BY Zenon, <1>3, <1>4
  <2>2. n <= l /\ g + l <= m /\ n <= R - 1 - a
    BY Zenon, <1>9, <2>1
  <2>3. n \in 0 .. S /\ g \in 0 .. S - 1 /\ 1 + g + n < S /\ g + n <= m /\ a + n < R
    BY <2>1, <2>2, TakenSums
  <2> QED BY Zenon, <2>1, <2>3
<1>11. PICK u \in Seq(Bytes) : u = SubSeq(s.data, 1, n) /\ n = Len(u)
                               /\ From(u, Peer(h), c.irs, g)
  <2>1. \A k \in 1 .. l : data[k] = <<Peer(h), c.irs, g + k>>
    BY Zenon, <1>0, <1>5, <1>7, <1>8 DEF DataAt
  <2>2. n <= Len(data)
    BY Zenon, <1>8, <1>9
  <2>3. /\ SubSeq(data, 1, n) \in Seq(Bytes) /\ Len(SubSeq(data, 1, n)) = n
        /\ \A k \in 1 .. n : SubSeq(data, 1, n)[k] = data[k] /\ k \in 1 .. Len(data)
    BY <2>2, FirstOf
  <2>4. PICK u : u = SubSeq(data, 1, n)
    BY Zenon
  <2>5. u \in Seq(Bytes) /\ Len(u) = n /\ \A k \in 1 .. n : u[k] = data[k] /\ k \in 1 .. l
    BY Zenon, <1>8, <2>3, <2>4
  <2>6. \A k \in 1 .. n : u[k] = <<Peer(h), c.irs, g + k>>
    BY Zenon, <2>1, <2>5
  <2>7. From(u, Peer(h), c.irs, g)
    BY Zenon, <2>5, <2>6 DEF From
  <2> QED BY Zenon, <1>7, <2>4, <2>5, <2>7
<1>12. EndsOf(rx, got) /\ From(got, Peer(h), c.irs, 0)
  <2>1. EndsOf(rx, got) /\ \A k \in 1 .. Len(got) : got[k] = <<Peer(h), c.irs, k>>
    BY Zenon, <1>1, <1>7 DEF Streams
  <2>2. \A k \in 1 .. Len(got) : 0 + k = k
    BY <1>8
  <2> QED BY Zenon, <2>1, <2>2 DEF From
<1>13. PICK p \in Seq(Bytes), q \in Seq(Bytes) :
         /\ p = c.rx \o SubSeq(s.data, 1, n) /\ q = c.got \o SubSeq(s.data, 1, n)
         /\ Len(p) = a + n /\ Len(q) = g + n
         /\ \A k \in 1 .. g + n : q[k] = <<Peer(h), c.irs, k>>
         /\ EndsOf(p, q)
  <2>1. /\ rx \o u \in Seq(Bytes) /\ Len(rx \o u) = Len(rx) + n
        /\ got \o u \in Seq(Bytes) /\ Len(got \o u) = g + n
        /\ \A k \in 1 .. g + n : (got \o u)[k] = <<Peer(h), c.irs, k>>
        /\ EndsOf(rx \o u, got \o u)
    <3>1. /\ From(u, Peer(h), c.irs, g) /\ From(got, Peer(h), c.irs, 0) /\ EndsOf(rx, got)
          /\ g = Len(got) /\ n = Len(u)
      BY Zenon, <1>8, <1>11, <1>12
    <3>2. \A P, x : From(u, P, x, Len(got)) /\ From(got, P, x, 0) /\ EndsOf(rx, got)
             => /\ rx \o u \in Seq(Bytes) /\ Len(rx \o u) = Len(rx) + Len(u)
                /\ got \o u \in Seq(Bytes) /\ Len(got \o u) = Len(got) + Len(u)
                /\ \A k \in 1 .. Len(got) + Len(u) : (got \o u)[k] = <<P, x, k>>
                /\ EndsOf(rx \o u, got \o u)
      BY Zenon, StreamGrows
    <3> QED BY Zenon, <3>1, <3>2
  <2> QED BY Zenon, <1>7, <1>8, <1>11, <2>1
<1>14. PICK r \in 0 .. SEQ - 1, x \in 0 .. SEQ - 1 : r = c.rcv_nxt /\ x = c.irs /\ Behind(SEQ, x, g, r) = 0
  <2>1. c.irs \in Isns(Peer(h)) /\ Fins(c) = 0
    BY Zenon, <1>0, <1>1 DEF Receives, Taking, Synced
  <2>2. c.irs \in 0 .. SEQ - 1 /\ c.rcv_nxt \in 0 .. SEQ - 1
    BY Zenon, <1>1, <1>3, <2>1, FieldTypes DEF Nums
  <2> QED BY Zenon, <1>7, <1>8, <2>1, <2>2, CountersAre
<1>15. PICK z \in Nums : z = (c.rcv_nxt + n) % SEQ /\ Behind(SEQ, x, g + n, z) = 0
  <2>1. Plus(SEQ, r, n) \in 0 .. SEQ - 1 /\ Behind(SEQ, x, g + n, Plus(SEQ, r, n)) = 0
    <3>1. PICK f : At(SEQ, x, g, r, f) /\ f = 0
      BY Zenon, <1>14 DEF At
    <3>2. f = 0
      BY Zenon, <3>1
    <3>3. /\ 1 + g + f + n < SEQ /\ SEQ \in Nat \ {0}
          /\ x \in 0 .. SEQ - 1 /\ r \in 0 .. SEQ - 1 /\ g \in 0 .. SEQ - 1 /\ n \in 0 .. SEQ
      BY <1>3, <1>10, <3>2
    <3>4. Plus(SEQ, r, n) \in 0 .. SEQ - 1 /\ At(SEQ, x, g + n, Plus(SEQ, r, n), f)
      <4>1. At(SEQ, x, g, r, f)
        BY Zenon, <3>1
      <4> QED BY Zenon, <3>3, <4>1, BehindKept
    <3> QED BY Zenon, <3>2, <3>4 DEF At
  <2>2. Plus(SEQ, r, n) = (c.rcv_nxt + n) % SEQ
    BY Zenon, <1>14 DEF Plus, Mod
  <2> QED BY Zenon, <2>1, <2>2 DEF Nums
<1>16. d = [c EXCEPT !.rx = p, !.got = q, !.rcv_nxt = z]
  BY Zenon, <1>0, <1>13, <1>15
<1>17. /\ d \in Conns /\ d.state = c.state /\ d.iss = c.iss /\ d.irs = c.irs
       /\ d.snd_una = c.snd_una /\ d.snd_nxt = c.snd_nxt /\ d.retx = c.retx
       /\ d.rx = p /\ d.got = q /\ d.rcv_nxt = z
  BY <1>1, <1>16 DEF Conns
<1>18. Streams(h, d)
  <2>1. d.state # "SYN_SENT"
    BY Zenon, <1>0, <1>17 DEF Taking
  <2> QED BY Zenon, <1>2, <1>10, <1>13, <1>17, <2>1 DEF Streams
<1>19. Fins(d) = Fins(c)
  <2>1. Fins(d) = 0
    BY Zenon, <1>13, <1>14, <1>15, <1>17, CountersAre
  <2>2. Fins(c) = 0
    BY Zenon, <1>7, <1>8, <1>14, CountersAre
  <2> QED BY Zenon, <2>1, <2>2
<1>20. Receives(h, d)
  BY Zenon, <1>1, <1>17, <1>19 DEF Receives
<1>21. Sends(h, d)
  BY Zenon, <1>1, <1>17, SendsKept
<1>22. Copies(d)
  BY Zenon, <1>1, <1>17 DEF Copies
<1> QED BY Zenon, <1>17, <1>18, <1>19, <1>20, <1>21, <1>22 DEF ConnOk

\* The data stage keeps the invariant, and acknowledges what it took.
Took(c, s) ==
  LET n == Min({Len(s.data), rx_free(c)})
  IN  IF s.seq = c.rcv_nxt
      THEN [c EXCEPT !.rx = @ \o SubSeq(s.data, 1, n), !.got = @ \o SubSeq(s.data, 1, n),
                     !.rcv_nxt = (@ + n) % SEQ]
      ELSE c

LEMMA TookOk ==
  ASSUME Limits, IsnsApart, NEW h \in Hosts, NEW c, NEW s
  PROVE  /\ ConnOk(h, c) /\ SegOk(s) /\ c.state \in Taking /\ s.to = h /\ s.data # <<>>
         => /\ ConnOk(h, Took(c, s)) /\ Took(c, s).state = c.state
            /\ Took(c, s).irs = c.irs /\ Fins(Took(c, s)) = Fins(c)
<1>0. SUFFICES ASSUME ConnOk(h, c), SegOk(s), c.state \in Taking, s.to = h, s.data # <<>>
               PROVE  /\ ConnOk(h, Took(c, s)) /\ Took(c, s).state = c.state
                      /\ Took(c, s).irs = c.irs /\ Fins(Took(c, s)) = Fins(c)
  BY Zenon
<1>1. CASE s.seq # c.rcv_nxt
  <2>1. Took(c, s) = c
    BY Zenon, <1>1 DEF Took
  <2> QED BY Zenon, <1>0, <2>1
<1>2. CASE s.seq = c.rcv_nxt
  <2>1. PICK n : n = Min({Len(s.data), rx_free(c)})
    BY Zenon
  <2>2. Len(s.data) \in Nat /\ rx_free(c) \in Nat
    <3>1. c \in Conns /\ s \in Segs /\ Len(c.rx) < TCP_RX_BUF_SIZE
      BY Zenon, <1>0 DEF ConnOk, SegOk, Streams
    <3>2. s.data \in Seq(Bytes)
      BY <3>1 DEF Segs
    <3>3. PICK a \in Nat, l \in Nat : a = Len(c.rx) /\ l = Len(s.data)
      BY Zenon, <3>1, <3>2, FieldTypes, LenProperties
    <3>4. PICK R \in Nat : R = TCP_RX_BUF_SIZE /\ a < R
      BY Zenon, <3>1, <3>3 DEF Limits
    <3>5. R - 1 - a \in Nat
      BY <3>4
    <3> QED BY Zenon, <3>3, <3>4, <3>5 DEF rx_free
  <2>3. n \in Nat /\ n <= Len(s.data) /\ n <= rx_free(c)
    BY Zenon, <2>1, <2>2, MinOfTwo
  <2>4. PICK d : d = Took(c, s)
    BY Zenon
  <2>5. d = [c EXCEPT !.rx = c.rx \o SubSeq(s.data, 1, n),
                      !.got = c.got \o SubSeq(s.data, 1, n),
                      !.rcv_nxt = (c.rcv_nxt + n) % SEQ]
    BY Zenon, <1>2, <2>1, <2>4 DEF Took
  <2>6. Takes(h, c, s, n, d)
    BY Zenon, <1>0, <1>2, <2>3, <2>5 DEF Takes
  <2>7. ConnOk(h, d) /\ d.state = c.state /\ d.irs = c.irs /\ Fins(d) = Fins(c)
    BY Zenon, <2>3, <2>6, TakenOk
  <2> QED BY Zenon, <2>4, <2>7
<1> QED BY Zenon, <1>1, <1>2

Follows(h, c, d) ==
  /\ ConnOk(h, d.c) /\ d.c.state = c.state /\ d.c.irs = c.irs /\ Fins(d.c) = Fins(c)
  /\ \A o \in d.out : SegOk(o)

LEMMA DataStageOk ==
  ASSUME Limits, IsnsApart, NEW h \in Hosts, NEW c, NEW s
  PROVE  /\ ConnOk(h, c) /\ SegOk(s) /\ c.state \in Synced /\ s.to = h
         => Follows(h, c, DataStage(h, c, s))
<1>0. SUFFICES ASSUME ConnOk(h, c), SegOk(s), c.state \in Synced, s.to = h,
                      NEW d, d = DataStage(h, c, s)
               PROVE  /\ ConnOk(h, d.c) /\ d.c.state = c.state /\ d.c.irs = c.irs
                      /\ Fins(d.c) = Fins(c) /\ \A o \in d.out : SegOk(o)
  BY Zenon DEF Follows
<1>1. CASE s.data # <<>> /\ c.state \in {"ESTABLISHED", "FIN_WAIT_1", "FIN_WAIT_2"}
  <2>1. PICK t : t = Took(c, s)
    BY Zenon
  <2>2. d = [c |-> t, out |-> {send_ctrl(h, t, {"ACK"})}]
    BY Zenon, <1>0, <1>1, <2>1 DEF DataStage, Took
  <2>3. d.c = t /\ d.out = {send_ctrl(h, t, {"ACK"})}
    BY <2>2
  <2>4. ConnOk(h, t) /\ t.state = c.state /\ t.irs = c.irs /\ Fins(t) = Fins(c)
    <3>1. c.state \in Taking
      BY Zenon, <1>1 DEF Taking
    <3> QED BY Zenon, <1>0, <1>1, <2>1, <3>1, TookOk
  <2>5. SegOk(send_ctrl(h, t, {"ACK"}))
    <3>1. t \in Conns /\ Streams(h, t) /\ Receives(h, t) /\ t.state \in Synced \cup {"SYN_RCVD"}
      BY Zenon, <1>0, <2>4 DEF ConnOk
    <3>2. {"ACK"} \in SUBSET {"ACK", "FIN"}
      BY Zenon
    <3> QED BY Zenon, <3>1, <3>2, CtrlMade
  <2> QED BY Zenon, <2>3, <2>4, <2>5
<1>2. CASE ~(s.data # <<>> /\ c.state \in {"ESTABLISHED", "FIN_WAIT_1", "FIN_WAIT_2"})
  <2>1. d = [c |-> c, out |-> {}]
    BY Zenon, <1>0, <1>2 DEF DataStage
  <2>2. d.c = c /\ d.out = {}
    BY <2>1
  <2> QED BY Zenon, <1>0, <2>2
<1> QED BY Zenon, <1>1, <1>2

\* The FIN stage: one more number taken, and data no more.
Finned(c) ==
  [c EXCEPT !.rcv_nxt = (@ + 1) % SEQ,
            !.state = IF @ = "ESTABLISHED" THEN "CLOSE_WAIT"
                      ELSE IF @ = "FIN_WAIT_1" THEN "CLOSING"
                      ELSE IF @ = "FIN_WAIT_2" THEN "TIME_WAIT" ELSE @]

LEMMA FinnedOk ==
  ASSUME Limits, IsnsApart, NEW h \in Hosts, NEW c
  PROVE  ConnOk(h, c) /\ c.state \in Synced /\ Fins(c) < MAX_FINS
         => ConnOk(h, Finned(c)) /\ Finned(c).state \in Synced
<1>0. SUFFICES ASSUME ConnOk(h, c), c.state \in Synced, Fins(c) < MAX_FINS, NEW d, d = Finned(c)
               PROVE  ConnOk(h, d) /\ d.state \in Synced
  BY Zenon
<1>1. c \in Conns /\ Streams(h, c) /\ Receives(h, c) /\ Sends(h, c) /\ Copies(c)
  BY Zenon, <1>0 DEF ConnOk
<1>2. PICK m \in Nat, S \in Nat, H \in Nat, F \in Nat :
        /\ m = MAX_SENT[Peer(h)] /\ S = SEQ /\ H = SEQ \div 2 /\ F = MAX_FINS
        /\ m + F + 2 < H /\ H <= S /\ SEQ \in Nat \ {0} /\ \A x \in Isns(Peer(h)) : x \in Nums
  <2>1. SEQ \in Nat /\ SEQ \div 2 \in Nat
    BY TcpAssumption, Z3
  <2> QED BY Zenon, <2>1, Peers, Limited
<1>3. PICK x \in 0 .. SEQ - 1, r \in 0 .. SEQ - 1 : x = c.irs /\ r = c.rcv_nxt
  <2>1. c.irs \in Isns(Peer(h))
    BY Zenon, <1>0, <1>1 DEF Receives
  <2> QED BY Zenon, <1>1, <1>2, <2>1, FieldTypes DEF Nums
<1>4. PICK g \in Nat : g = Len(c.got) /\ g <= m
  BY Zenon, <1>1, <1>2, FieldTypes DEF Streams
<1>5. g \in 0 .. SEQ - 1
  BY <1>2, <1>4
<1>6. PICK f \in Nat : f = Fins(c) /\ At(SEQ, x, g, r, f)
  <2>1. Behind(SEQ, x, g, r) \in 0 .. SEQ - 1
    BY Zenon, <1>2, <1>5, BehindCases
  <2>2. Behind(SEQ, x, g, r) \in Nat
    BY <1>2, <2>1
  <2>3. Fins(c) = Behind(SEQ, x, g, r)
    BY Zenon, <1>3, <1>4, CountersAre
  <2> QED BY Zenon, <2>2, <2>3 DEF At
<1>7. 2 + g + f < SEQ /\ f + 1 <= F
  <2>1. f < F
    BY Zenon, <1>0, <1>2, <1>6
  <2>2. 2 + g + f < S /\ f + 1 <= F
    BY <1>2, <1>4, <2>1
  <2> QED BY Zenon, <1>2, <2>2
<1>8. Plus(SEQ, r, 1) \in 0 .. SEQ - 1 /\ At(SEQ, x, g, Plus(SEQ, r, 1), f + 1)
  <2>1. 2 + g + f < SEQ /\ At(SEQ, x, g, r, f) /\ SEQ \in Nat \ {0}
    BY Zenon, <1>2, <1>6, <1>7
  <2> QED BY Zenon, <1>5, <2>1, BehindFin
<1>9. PICK z \in Nums : z = (c.rcv_nxt + 1) % SEQ /\ At(SEQ, x, g, z, f + 1)
  BY Zenon, <1>3, <1>8 DEF Plus, Mod, Nums
<1>10. PICK q : q = IF c.state = "ESTABLISHED" THEN "CLOSE_WAIT"
                    ELSE IF c.state = "FIN_WAIT_1" THEN "CLOSING"
                    ELSE IF c.state = "FIN_WAIT_2" THEN "TIME_WAIT" ELSE c.state
  BY Zenon
<1>11. q \in Synced /\ q \notin Taking /\ q \in States /\ q # "SYN_SENT"
  BY Zenon, <1>0, <1>10 DEF Synced, Taking, States
<1>12. d = [c EXCEPT !.rcv_nxt = z, !.state = q]
  BY Zenon, <1>0, <1>9, <1>10 DEF Finned
<1>13. /\ d \in Conns /\ d.state = q /\ d.iss = c.iss /\ d.irs = c.irs
       /\ d.snd_una = c.snd_una /\ d.snd_nxt = c.snd_nxt /\ d.retx = c.retx
       /\ d.rx = c.rx /\ d.got = c.got /\ d.rcv_nxt = z
  BY <1>1, <1>11, <1>12 DEF Conns
<1>14. Streams(h, d)
  BY Zenon, <1>1, <1>11, <1>13, StreamsKept
<1>15. Receives(h, d)
  <2>1. Fins(d) = f + 1
    BY Zenon, <1>3, <1>4, <1>9, <1>13, CountersAre DEF At
  <2> QED BY Zenon, <1>0, <1>1, <1>2, <1>7, <1>11, <1>13, <2>1 DEF Receives
<1>16. Sends(h, d)
  <2>1. /\ d.state \notin {"CLOSED", "LISTEN"} => c.state \notin {"CLOSED", "LISTEN"}
        /\ d.state \in {"SYN_SENT", "SYN_RCVD", "ESTABLISHED", "CLOSE_WAIT"}
             => c.state \in {"SYN_SENT", "SYN_RCVD", "ESTABLISHED", "CLOSE_WAIT"}
        /\ d.state \in {"FIN_WAIT_1", "CLOSING"} => c.state \in {"FIN_WAIT_1", "CLOSING"}
    BY Zenon, <1>0, <1>10, <1>13 DEF Synced
  <2> QED BY Zenon, <1>1, <1>13, <2>1, SendsKept
<1>17. Copies(d)
  <2>1. d.state \in Quiet => c.state \in Quiet
    BY Zenon, <1>0, <1>10, <1>13 DEF Synced, Quiet
  <2> QED BY Zenon, <1>1, <1>13, <2>1 DEF Copies
<1> QED BY Zenon, <1>11, <1>13, <1>14, <1>15, <1>16, <1>17 DEF ConnOk

\* What a stage of tcp_rx gives: a sound connection, and sound segments to send.
Good(h, r) == ConnOk(h, r.c) /\ \A o \in r.out : SegOk(o)

LEMMA FinStageOk ==
  ASSUME Limits, IsnsApart, NEW h \in Hosts, NEW c, NEW s
  PROVE  ConnOk(h, c) /\ c.state \in Synced /\ ("FIN" \in s.flags => Fins(c) < MAX_FINS)
         => Good(h, FinStage(h, c, s))
<1>0. SUFFICES ASSUME ConnOk(h, c), c.state \in Synced, "FIN" \in s.flags => Fins(c) < MAX_FINS,
                      NEW f, f = FinStage(h, c, s)
               PROVE  Good(h, f)
  BY Zenon
<1>1. CASE "FIN" \notin s.flags
  <2>1. f = [c |-> c, out |-> {}]
    BY Zenon, <1>0, <1>1 DEF FinStage
  <2>2. f.c = c /\ f.out = {}
    BY <2>1
  <2> QED BY Zenon, <1>0, <2>2 DEF Good
<1>2. CASE "FIN" \in s.flags
  <2>1. PICK d : d = Finned(c)
    BY Zenon
  <2>2. f = [c |-> d, out |-> IF d.state # c.state THEN {send_ctrl(h, d, {"ACK"})} ELSE {}]
    BY Zenon, <1>0, <1>2, <2>1 DEF FinStage, Finned
  <2>3. f.c = d /\ f.out = IF d.state # c.state THEN {send_ctrl(h, d, {"ACK"})} ELSE {}
    BY <2>2
  <2>4. ConnOk(h, d) /\ d.state \in Synced
    BY Zenon, <1>0, <1>2, <2>1, FinnedOk
  <2>5. SegOk(send_ctrl(h, d, {"ACK"}))
    <3>1. d \in Conns /\ Streams(h, d) /\ Receives(h, d) /\ d.state \in Synced \cup {"SYN_RCVD"}
      BY Zenon, <2>4 DEF ConnOk
    <3>2. {"ACK"} \in SUBSET {"ACK", "FIN"}
      BY Zenon
    <3> QED BY Zenon, <3>1, <3>2, CtrlMade
  <2>6. \A o \in f.out : SegOk(o)
    BY Zenon, <2>3, <2>5
  <2> QED BY Zenon, <2>3, <2>4, <2>6 DEF Good
<1> QED BY Zenon, <1>1, <1>2

\* The three stages together.  A FIN comes only while there is room for it.
Comes(h, c, s) ==
  /\ ConnOk(h, c) /\ SegOk(s) /\ s.to = h
  /\ "FIN" \in s.flags /\ c.irs # None => Fins(c) < MAX_FINS

LEMMA IrsIsNumber ==
  ASSUME Limits, NEW h \in Hosts, NEW c
  PROVE  ConnOk(h, c) /\ c.state \in Synced \cup {"SYN_RCVD"} => c.irs # None
<1>0. SUFFICES ASSUME ConnOk(h, c), c.state \in Synced \cup {"SYN_RCVD"} PROVE c.irs # None
  BY Zenon
<1>1. c.irs \in Isns(Peer(h))
  BY Zenon, <1>0 DEF ConnOk, Receives
<1>2. c.irs \in Nums
  BY Zenon, <1>1, Peers, Limited
<1> QED BY Zenon, <1>2, TcpAssumption DEF Nums

LEMMA SyncedRxOk ==
  ASSUME Limits, IsnsApart, NEW h \in Hosts, NEW c, NEW s
  PROVE  Comes(h, c, s) /\ c.state \in Synced /\ "RST" \notin s.flags
         => Good(h, SyncedRx(h, c, s))
<1>0. SUFFICES ASSUME Comes(h, c, s), c.state \in Synced, "RST" \notin s.flags
               PROVE  Good(h, SyncedRx(h, c, s))
  BY Zenon
<1>1. /\ ConnOk(h, c) /\ SegOk(s) /\ s.to = h
      /\ "FIN" \in s.flags => Fins(c) < MAX_FINS
  BY Zenon, <1>0, IrsIsNumber DEF Comes
<1>2. PICK a : a = AckStage(c, s)
  BY Zenon
<1>3. /\ ConnOk(h, a)
      /\ \/ a.state = "CLOSED"
         \/ a.state \in Synced /\ a.irs = c.irs /\ a.got = c.got /\ a.rcv_nxt = c.rcv_nxt
  <2>1. StaysOk(h, c, a)
    BY Zenon, <1>0, <1>1, <1>2, AckStageOk
  <2> QED BY Zenon, <2>1 DEF StaysOk
<1>4. PICK d : d = DataStage(h, a, s)
  BY Zenon
<1>5. PICK f : f = FinStage(h, d.c, s)
  BY Zenon
<1>6. PICK r : r = SyncedRx(h, c, s)
  BY Zenon
<1>7. r = IF a.state = "CLOSED" THEN [c |-> a, out |-> {}]
          ELSE [c |-> f.c, out |-> d.out \cup f.out]
  BY Zenon, <1>2, <1>4, <1>5, <1>6 DEF SyncedRx
<1>8. CASE a.state = "CLOSED"
  <2>1. r.c = a /\ r.out = {}
    BY <1>7, <1>8
  <2> QED BY Zenon, <1>3, <1>6, <2>1 DEF Good
<1>9. CASE a.state # "CLOSED"
  <2>1. r.c = f.c /\ r.out = d.out \cup f.out
    BY <1>7, <1>9
  <2>2. Fins(a) = Fins(c) /\ a.state \in Synced
    BY Zenon, <1>3, <1>9 DEF Fins
  <2>3. /\ ConnOk(h, d.c) /\ d.c.state = a.state /\ Fins(d.c) = Fins(a)
        /\ \A o \in d.out : SegOk(o)
    <3>1. ConnOk(h, a) /\ SegOk(s) /\ a.state \in Synced /\ s.to = h
      BY Zenon, <1>1, <1>3, <2>2
    <3>2. Follows(h, a, DataStage(h, a, s))
      BY Zenon, <3>1, DataStageOk
    <3> QED BY Zenon, <1>4, <3>2 DEF Follows
  <2>4. d.c.state \in Synced /\ ("FIN" \in s.flags => Fins(d.c) < MAX_FINS)
    BY Zenon, <1>1, <2>2, <2>3
  <2>5. Good(h, f)
    BY Zenon, <1>5, <2>3, <2>4, FinStageOk
  <2> QED BY Zenon, <1>6, <2>1, <2>3, <2>5 DEF Good
<1> QED BY Zenon, <1>8, <1>9
-----------------------------------------------------------------------------
(* Opening a connection.                                                   *)

\* The handshake completes: everything sent is acknowledged.
LEMMA OpenedOk ==
  ASSUME NEW h \in Hosts, NEW c, NEW d
  PROVE  /\ c \in Conns /\ d \in Conns /\ Sends(h, c) /\ c.state \in {"SYN_SENT", "SYN_RCVD"}
         /\ d.state = "ESTABLISHED" /\ d.iss = c.iss /\ d.snd_nxt = c.snd_nxt
         /\ d.snd_una = c.snd_nxt /\ d.retx = None
         => Sends(h, d) /\ Copies(d)
<1>0. SUFFICES ASSUME c \in Conns, d \in Conns, Sends(h, c), c.state \in {"SYN_SENT", "SYN_RCVD"},
                      d.state = "ESTABLISHED", d.iss = c.iss, d.snd_nxt = c.snd_nxt,
                      d.snd_una = c.snd_nxt, d.retx = None
               PROVE  Sends(h, d) /\ Copies(d)
  BY Zenon
<1>1. Una(d) = Nxt(c) /\ Nxt(d) = Nxt(c)
  BY Zenon, <1>0 DEF Una, Nxt
<1>2. Nxt(c) <= Nxt(c)
  <2>1. SEQ \in Nat \ {0} /\ c.iss \in Nums /\ c.snd_nxt \in Nums
    BY Zenon, <1>0, TcpAssumption, FieldTypes
  <2>2. Off(SEQ, c.iss, c.snd_nxt) \in 0 .. SEQ - 1
    BY Zenon, <2>1, OffIs DEF Nums
  <2>3. PICK b \in 0 .. SEQ - 1 : b = Nxt(c)
    BY Zenon, <2>2, CountersAre
  <2>4. b <= b
    OBVIOUS
  <2> QED BY Zenon, <2>3, <2>4
<1>3. c.iss \in Isns(h) /\ 1 <= Nxt(c) /\ Nxt(c) <= MAX_SENT[h] + 2 /\ Nxt(c) <= MAX_SENT[h] + 1
  BY Zenon, <1>0 DEF Sends
<1>4. Sends(h, d)
  BY Zenon, <1>0, <1>1, <1>2, <1>3 DEF Sends
<1>5. Copies(d)
  BY Zenon, <1>0 DEF Copies, Quiet
<1> QED BY Zenon, <1>4, <1>5

LEMMA SynRcvdRxOk ==
  ASSUME Limits, IsnsApart, NEW h \in Hosts, NEW c, NEW s
  PROVE  Comes(h, c, s) /\ c.state = "SYN_RCVD" /\ "RST" \notin s.flags
         => Good(h, SynRcvdRx(h, c, s))
<1>0. SUFFICES ASSUME Comes(h, c, s), c.state = "SYN_RCVD", "RST" \notin s.flags
               PROVE  Good(h, SynRcvdRx(h, c, s))
  BY Zenon
<1>1. /\ c \in Conns /\ Streams(h, c) /\ Receives(h, c) /\ Sends(h, c) /\ ConnOk(h, c)
      /\ SegOk(s) /\ s \in Segs /\ s.to = h
  BY Zenon, <1>0 DEF Comes, ConnOk, SegOk
<1>2. PICK r : r = SynRcvdRx(h, c, s)
  BY Zenon
<1>3. CASE "ACK" \in s.flags /\ s.ack = c.snd_nxt
  <2>1. PICK e : e = [c EXCEPT !.state = "ESTABLISHED", !.snd_una = s.ack]
    BY Zenon
  <2>2. PICK d : d = retx_clear(e)
    BY Zenon
  <2>3. r = SyncedRx(h, d, s)
    BY Zenon, <1>2, <1>3, <2>1, <2>2 DEF SynRcvdRx
  <2>4. /\ e \in Conns /\ e.state = "ESTABLISHED" /\ e.iss = c.iss /\ e.irs = c.irs
        /\ e.snd_una = s.ack /\ e.snd_nxt = c.snd_nxt /\ e.rcv_nxt = c.rcv_nxt
        /\ e.rx = c.rx /\ e.got = c.got
    <3>1. s.ack \in Nums /\ "ESTABLISHED" \in States
      BY <1>1 DEF Segs, States, Synced
    <3> QED BY <1>1, <2>1, <3>1 DEF Conns
  <2>5. d \in Conns /\ Like(e, d) /\ d.retx = None
    BY Zenon, <2>2, <2>4, ClearFields
  <2>6. /\ d.state = "ESTABLISHED" /\ d.iss = c.iss /\ d.irs = c.irs
        /\ d.snd_una = c.snd_nxt /\ d.snd_nxt = c.snd_nxt /\ d.rcv_nxt = c.rcv_nxt
        /\ d.rx = c.rx /\ d.got = c.got
    BY Zenon, <1>3, <2>4, <2>5 DEF Like
  <2>7. Sends(h, d) /\ Copies(d)
    BY Zenon, <1>0, <1>1, <2>5, <2>6, OpenedOk
  <2>8. Streams(h, d)
    BY Zenon, <1>1, <2>6, StreamsKept
  <2>9. Receives(h, d)
    <3>1. c.state \in Synced \cup {"SYN_RCVD"} /\ c.state \in Taking
      BY Zenon, <1>0 DEF Taking
    <3> QED BY Zenon, <1>1, <2>6, <3>1, ReceivesKept
  <2>10. ConnOk(h, d)
    BY Zenon, <2>5, <2>7, <2>8, <2>9 DEF ConnOk
  <2>11. Comes(h, d, s)
    <3>1. Fins(d) = Fins(c)
      BY Zenon, <2>6 DEF Fins
    <3> QED BY Zenon, <1>0, <2>6, <2>10, <3>1 DEF Comes
  <2>12. d.state \in Synced
    BY Zenon, <2>6 DEF Synced
  <2> QED BY Zenon, <1>0, <1>2, <2>3, <2>11, <2>12, SyncedRxOk
<1>4. CASE ~("ACK" \in s.flags /\ s.ack = c.snd_nxt)
  <2>1. r = [c |-> c, out |-> {}]
    BY Zenon, <1>2, <1>4 DEF SynRcvdRx
  <2>2. r.c = c /\ r.out = {}
    BY <2>1
  <2> QED BY Zenon, <1>1, <1>2, <2>2 DEF Good
<1> QED BY Zenon, <1>3, <1>4

\* rcv_nxt behind the first number the peer's SYN carries.
LEMMA FirstReceives ==
  ASSUME Limits, NEW h \in Hosts, NEW d, NEW q
  PROVE  /\ q \in Isns(Peer(h)) /\ d.irs = q /\ d.rcv_nxt = (q + 1) % SEQ /\ d.got = <<>>
         => Receives(h, d)
<1>0. SUFFICES ASSUME q \in Isns(Peer(h)), d.irs = q, d.rcv_nxt = (q + 1) % SEQ, d.got = <<>>
               PROVE  Receives(h, d)
  BY Zenon
<1>1. SEQ \in Nat \ {0} /\ MAX_FINS \in Nat /\ q \in 0 .. SEQ - 1
  BY Zenon, <1>0, Peers, Limited DEF Nums
<1>2. Behind(SEQ, q, 0, Plus(SEQ, q, 1)) = 0
  BY Zenon, <1>1, BehindFirst
<1>3. Len(d.got) = 0 /\ d.rcv_nxt = Plus(SEQ, q, 1)
  <2>1. Len(<<>>) = 0
    OBVIOUS
  <2> QED BY Zenon, <1>0, <2>1 DEF Plus, Mod
<1>4. Fins(d) = 0
  BY Zenon, <1>0, <1>2, <1>3, CountersAre
<1>5. 0 <= MAX_FINS
  BY <1>1
<1> QED BY Zenon, <1>0, <1>4, <1>5 DEF Receives

LEMMA SynSentRxOk ==
  ASSUME Limits, IsnsApart, NEW h \in Hosts, NEW c, NEW s
  PROVE  Comes(h, c, s) /\ c.state = "SYN_SENT" => Good(h, SynSentRx(h, c, s))
<1>0. SUFFICES ASSUME Comes(h, c, s), c.state = "SYN_SENT"
               PROVE  Good(h, SynSentRx(h, c, s))
  BY Zenon
<1>1. /\ c \in Conns /\ Streams(h, c) /\ Receives(h, c) /\ Sends(h, c) /\ ConnOk(h, c)
      /\ SegOk(s) /\ s \in Segs /\ s.to = h
  BY Zenon, <1>0 DEF Comes, ConnOk, SegOk
<1>2. PICK r : r = SynSentRx(h, c, s)
  BY Zenon
<1>3. CASE "ACK" \notin s.flags \/ (s.ack = c.snd_nxt /\ "SYN" \notin s.flags)
  <2>1. r = [c |-> c, out |-> {}]
    BY Zenon, <1>2, <1>3 DEF SynSentRx
  <2>2. r.c = c /\ r.out = {}
    BY <2>1
  <2> QED BY Zenon, <1>1, <1>2, <2>2 DEF Good
<1>4. CASE "ACK" \in s.flags /\ s.ack # c.snd_nxt
  <2>1. r = [c |-> c, out |-> {send_rst_reply(h, s)}]
    BY Zenon, <1>2, <1>4 DEF SynSentRx
  <2>2. r.c = c /\ r.out = {send_rst_reply(h, s)}
    BY <2>1
  <2>3. SegOk(send_rst_reply(h, s))
    BY Zenon, <1>1, RstMade
  <2> QED BY Zenon, <1>1, <1>2, <2>2, <2>3 DEF Good
<1>5. CASE "ACK" \in s.flags /\ s.ack = c.snd_nxt /\ "SYN" \in s.flags
  <2>1. PICK q, z : q = s.seq /\ z = (s.seq + 1) % SEQ
    BY Zenon
  <2>2. q \in Isns(Peer(h)) /\ q \in Nums
    <3>1. q \in Isns(Peer(h))
      BY Zenon, <1>1, <1>5, <2>1 DEF SegOk, FirstNumber
    <3> QED BY Zenon, <3>1, Peers, Limited
  <2>3. z \in Nums
    <3>1. SEQ \in Nat \ {0} /\ q \in 0 .. SEQ - 1
      BY Zenon, <2>2, TcpAssumption DEF Nums
    <3>2. 1 \in 0 .. SEQ
      BY <3>1
    <3>3. Plus(SEQ, q, 1) \in Nums
      BY Zenon, <3>1, <3>2, PlusIs DEF Nums
    <3> QED BY Zenon, <2>1, <3>3 DEF Plus, Mod
  <2>4. PICK e : e = [c EXCEPT !.state = "ESTABLISHED", !.snd_una = s.ack, !.irs = q,
                               !.rcv_nxt = z]
    BY Zenon
  <2>5. PICK d : d = retx_clear(e)
    BY Zenon
  <2>6. r = [c |-> d, out |-> {send_ctrl(h, d, {"ACK"})}]
    BY Zenon, <1>2, <1>5, <2>1, <2>4, <2>5 DEF SynSentRx
  <2>7. r.c = d /\ r.out = {send_ctrl(h, d, {"ACK"})}
    BY <2>6
  <2>8. /\ e \in Conns /\ e.state = "ESTABLISHED" /\ e.iss = c.iss /\ e.irs = q
        /\ e.snd_una = s.ack /\ e.snd_nxt = c.snd_nxt /\ e.rcv_nxt = z
        /\ e.rx = c.rx /\ e.got = c.got
    <3>1. s.ack \in Nums /\ "ESTABLISHED" \in States
      BY <1>1 DEF Segs, States, Synced
    <3> QED BY <1>1, <2>2, <2>3, <2>4, <3>1 DEF Conns
  <2>9. d \in Conns /\ Like(e, d) /\ d.retx = None
    BY Zenon, <2>5, <2>8, ClearFields
  <2>10. /\ d.state = "ESTABLISHED" /\ d.iss = c.iss /\ d.irs = q
         /\ d.snd_una = c.snd_nxt /\ d.snd_nxt = c.snd_nxt /\ d.rcv_nxt = z
         /\ d.rx = c.rx /\ d.got = c.got
    BY Zenon, <1>5, <2>8, <2>9 DEF Like
  <2>11. Sends(h, d) /\ Copies(d)
    BY Zenon, <1>0, <1>1, <2>9, <2>10, OpenedOk
  <2>12. c.got = <<>>
    BY Zenon, <1>0, <1>1 DEF Streams
  <2>13. Streams(h, d)
    <3>1. \A k \in 1 .. Len(<<>>) : FALSE
      OBVIOUS
    <3> QED BY Zenon, <1>1, <2>10, <2>12, <3>1 DEF Streams
  <2>14. Receives(h, d)
    BY Zenon, <2>1, <2>2, <2>10, <2>12, FirstReceives
  <2>15. SegOk(send_ctrl(h, d, {"ACK"}))
    <3>1. {"ACK"} \in SUBSET {"ACK", "FIN"} /\ d.state \in Synced \cup {"SYN_RCVD"}
      BY Zenon, <2>10 DEF Synced
    <3> QED BY Zenon, <2>9, <2>13, <2>14, <3>1, CtrlMade
  <2> QED BY Zenon, <1>2, <2>7, <2>9, <2>11, <2>13, <2>14, <2>15 DEF Good, ConnOk
<1> QED BY Zenon, <1>3, <1>4, <1>5

\* tcp_rx for a connection.
LEMMA ConnRxOk ==
  ASSUME Limits, IsnsApart, NEW h \in Hosts, NEW c, NEW s
  PROVE  Comes(h, c, s) /\ c.state \notin {"CLOSED", "LISTEN"} => Good(h, ConnRx(h, c, s))
<1>0. SUFFICES ASSUME Comes(h, c, s), c.state \notin {"CLOSED", "LISTEN"}
               PROVE  Good(h, ConnRx(h, c, s))
  BY Zenon
<1>1. /\ c \in Conns /\ Streams(h, c) /\ ConnOk(h, c)
  BY Zenon, <1>0 DEF Comes, ConnOk
<1>2. c.state \in Synced \cup {"SYN_SENT", "SYN_RCVD"}
  BY Zenon, <1>0, <1>1, FieldTypes DEF States
<1>3. CASE "RST" \in s.flags
  <2>1. PICK d, r : d = (IF c.state = "SYN_SENT" \/ InWindow(c, s) THEN Freed(retx_clear(c)) ELSE c)
                    /\ r = ConnRx(h, c, s)
    BY Zenon
  <2>2. r = [c |-> d, out |-> {}]
    BY Zenon, <1>3, <2>1 DEF ConnRx
  <2>3. r.c = d /\ r.out = {}
    BY <2>2
  <2>4. ConnOk(h, Freed(retx_clear(c)))
    <3>1. PICK e : e = retx_clear(c)
      BY Zenon
    <3>2. e \in Conns /\ Like(c, e) /\ e.retx = None
      BY Zenon, <1>1, <3>1, ClearFields
    <3>3. Streams(h, e)
      BY Zenon, <1>1, <3>2, StreamsKept DEF Like
    <3> QED BY Zenon, <3>1, <3>2, <3>3, FreedOk
  <2>5. ConnOk(h, d)
    BY Zenon, <1>1, <2>1, <2>4
  <2> QED BY Zenon, <2>1, <2>3, <2>5 DEF Good
<1>4. CASE "RST" \notin s.flags /\ c.state = "SYN_SENT"
  <2>1. ConnRx(h, c, s) = SynSentRx(h, c, s)
    BY Zenon, <1>4 DEF ConnRx
  <2> QED BY Zenon, <1>0, <1>4, <2>1, SynSentRxOk
<1>5. CASE "RST" \notin s.flags /\ c.state = "SYN_RCVD"
  <2>1. ConnRx(h, c, s) = SynRcvdRx(h, c, s)
    BY Zenon, <1>5 DEF ConnRx
  <2> QED BY Zenon, <1>0, <1>5, <2>1, SynRcvdRxOk
<1>6. CASE "RST" \notin s.flags /\ c.state \in Synced
  <2>1. ConnRx(h, c, s) = SyncedRx(h, c, s)
    BY Zenon, <1>6 DEF ConnRx, Synced
  <2> QED BY Zenon, <1>0, <1>6, <2>1, SyncedRxOk
<1> QED BY Zenon, <1>2, <1>3, <1>4, <1>5, <1>6

\* A connection before anything came.
LEMMA EmptyStreams ==
  ASSUME Limits, NEW h \in Hosts, NEW d
  PROVE  d.rx = <<>> /\ d.got = <<>> => Streams(h, d)
<1>0. SUFFICES ASSUME d.rx = <<>>, d.got = <<>> PROVE Streams(h, d)
  BY Zenon
<1>1. Len(<<>>) = 0 /\ <<>> \in Seq(Bytes) /\ (\A k \in 1 .. 0 : FALSE) /\ 0 <= 0
  OBVIOUS
<1>2. EndsOf(<<>>, <<>>)
  <2>1. EndsOf(<<>>, <<>>) <=> /\ Len(<<>>) <= Len(<<>>)
                               /\ \A k \in 1 .. Len(<<>>) : <<>>[k] = <<>>[(Len(<<>>) - Len(<<>>)) + k]
    BY Zenon, <1>1, EndsByElements
  <2> QED BY Zenon, <1>1, <2>1
<1>3. 0 <= MAX_SENT[Peer(h)] /\ 0 < TCP_RX_BUF_SIZE
  <2>1. PICK m \in Nat, R \in Nat \ {0} : m = MAX_SENT[Peer(h)] /\ R = TCP_RX_BUF_SIZE
    BY Zenon, Peers, Limited DEF Limits
  <2>2. 0 <= m /\ 0 < R
    OBVIOUS
  <2> QED BY Zenon, <2>1, <2>2
<1> QED BY Zenon, <1>0, <1>1, <1>2, <1>3 DEF Streams

\* A slot that conn_alloc initialises.
Made(c, state, iss, irs, rcv_nxt) ==
  /\ c \in Conns /\ c.state = state /\ c.iss = iss /\ c.irs = irs
  /\ c.snd_una = iss /\ c.snd_nxt = (iss + 1) % SEQ /\ c.rcv_nxt = rcv_nxt
  /\ c.retx = None /\ c.rx = <<>> /\ c.got = <<>>

LEMMA ConnMade ==
  ASSUME Limits, NEW state \in States, NEW lport \in PortNames, NEW rport \in PortNames,
         NEW iss \in Nums, NEW irs \in Nums \cup {None}, NEW rcv_nxt \in Nums
  PROVE  Made(Conn(state, lport, rport, iss, irs, rcv_nxt), state, iss, irs, rcv_nxt)
<1>1. PICK z \in Nums : z = (iss + 1) % SEQ
  <2>1. SEQ \in Nat \ {0} /\ iss \in 0 .. SEQ - 1
    BY Zenon, TcpAssumption DEF Nums
  <2>2. 1 \in 0 .. SEQ
    BY <2>1
  <2>3. Plus(SEQ, iss, 1) \in Nums
    BY Zenon, <2>1, <2>2, PlusIs DEF Nums
  <2> QED BY Zenon, <2>3 DEF Plus, Mod
<1>2. PICK c : c = Conn(state, lport, rport, iss, irs, rcv_nxt)
  BY Zenon
<1>3. c = [state |-> state, lport |-> lport, rport |-> rport, iss |-> iss, irs |-> irs,
           snd_una |-> iss, snd_nxt |-> z, rcv_nxt |-> rcv_nxt,
           retx |-> None, retx_count |-> 0, rx |-> <<>>, got |-> <<>>]
  BY Zenon, <1>1, <1>2 DEF Conn
<1>4. <<>> \in Seq(Bytes) /\ 0 \in Nat
  OBVIOUS
<1>5. c \in Conns
  BY <1>3, <1>4 DEF Conns
<1>6. /\ c.state = state /\ c.iss = iss /\ c.irs = irs
      /\ c.snd_una = iss /\ c.snd_nxt = z /\ c.rcv_nxt = rcv_nxt
      /\ c.retx = None /\ c.rx = <<>> /\ c.got = <<>>
  BY <1>3
<1> QED BY Zenon, <1>1, <1>2, <1>5, <1>6 DEF Made

\* An idle slot: closed at boot, or listening.
LEMMA IdleOk ==
  ASSUME Limits, NEW h \in Hosts, NEW c
  PROVE  /\ c \in Conns /\ c.state \in {"CLOSED", "LISTEN"} /\ c.retx = None
         /\ c.rx = <<>> /\ c.got = <<>>
         => ConnOk(h, c)
<1>0. SUFFICES ASSUME c \in Conns, c.state \in {"CLOSED", "LISTEN"}, c.retx = None,
                      c.rx = <<>>, c.got = <<>>
               PROVE  ConnOk(h, c)
  BY Zenon
<1>1. Streams(h, c)
  BY Zenon, <1>0, EmptyStreams
<1>2. Receives(h, c) /\ Sends(h, c) /\ Copies(c)
  BY Zenon, <1>0 DEF Receives, Sends, Copies, Synced
<1> QED BY Zenon, <1>0, <1>1, <1>2 DEF ConnOk

\* A connection whose SYN is sent.
LEMMA FreshSends ==
  ASSUME Limits, NEW h \in Hosts, NEW x, NEW c
  PROVE  x \in Isns(h) /\ c.iss = x /\ c.snd_una = x /\ c.snd_nxt = (x + 1) % SEQ
         /\ c.state \in {"SYN_SENT", "SYN_RCVD"}
         => Sends(h, c)
<1>0. SUFFICES ASSUME x \in Isns(h), c.iss = x, c.snd_una = x, c.snd_nxt = (x + 1) % SEQ,
                      c.state \in {"SYN_SENT", "SYN_RCVD"}
               PROVE  Sends(h, c)
  BY Zenon
<1>1. PICK m \in Nat, F \in Nat : m = MAX_SENT[h] /\ F = MAX_FINS /\ m + F + 2 < SEQ \div 2
  BY Zenon, Limited
<1>2. SEQ \in Nat \ {0} /\ SEQ \div 2 <= SEQ /\ x \in 0 .. SEQ - 1
  BY Zenon, <1>0, Limited DEF Nums
<1>3. 1 \in 0 .. SEQ - 1
  BY <1>1, <1>2
<1>4. Off(SEQ, x, x) = 0
  <2>1. Off(SEQ, x, x) = IF x <= x THEN x - x ELSE x - x + SEQ
    BY Zenon, <1>2, OffIs
  <2> QED BY <1>2, <2>1
<1>5. Off(SEQ, x, Plus(SEQ, x, 1)) = 1
  BY Zenon, <1>2, <1>3, OffPlus
<1>6. Una(c) = 0 /\ Nxt(c) = 1
  <2>1. c.snd_nxt = Plus(SEQ, x, 1)
    BY Zenon, <1>0 DEF Plus, Mod
  <2> QED BY Zenon, <1>0, <1>4, <1>5, <2>1, CountersAre
<1>7. 0 <= 1 /\ 1 <= 1 /\ 1 <= m + 2 /\ 1 <= m + 1
  OBVIOUS
<1> QED BY Zenon, <1>0, <1>1, <1>6, <1>7 DEF Sends

\* A fresh connection is sound, with and without the copy of its SYN.
LEMMA ArmedOk ==
  ASSUME Limits, NEW h \in Hosts, NEW c, NEW seg, NEW d
  PROVE  /\ c \in Conns /\ Streams(h, c) /\ Receives(h, c) /\ Sends(h, c)
         /\ c.state \notin Quiet /\ SegOk(seg) /\ d \in Armed(c, seg)
         => ConnOk(h, d)
<1>0. SUFFICES ASSUME c \in Conns, Streams(h, c), Receives(h, c), Sends(h, c),
                      c.state \notin Quiet, SegOk(seg), d \in Armed(c, seg)
               PROVE  ConnOk(h, d)
  BY Zenon
<1>1. d = retx_arm(c, seg) \/ d = retx_clear(c)
  BY Zenon, <1>0 DEF Armed
<1>2. d \in Conns /\ Like(c, d) /\ (d.retx = seg \/ d.retx = None)
  BY Zenon, <1>0, <1>1, ArmFields, ClearFields DEF SegOk
<1>3. Streams(h, d) /\ Receives(h, d) /\ Sends(h, d)
  BY Zenon, <1>0, <1>2, LikeKept
<1>4. Copies(d)
  BY Zenon, <1>0, <1>2 DEF Copies, Like
<1> QED BY Zenon, <1>2, <1>3, <1>4 DEF ConnOk
-----------------------------------------------------------------------------
(* The steps.                                                              *)

\* A set of slots has a first one, so that Min picks one of the set.
LEMMA FirstSlot ==
  ASSUME Limits, NEW S, S \subseteq Slots, S # {}
  PROVE  Min(S) \in S
<1> DEFINE R == OpToRel(<, Nat)
<1>0. S \subseteq Nat
  BY DEF Limits, Slots
<1>1. \E x \in S : \A y \in S : ~(<<y, x>> \in R)
  BY Zenon, <1>0, WFMin, NatLessThanWellFounded
<1>2. \A x, y \in Nat : <<y, x>> \in R <=> y < x
  BY DEF OpToRel
<1> HIDE DEF R
<1>3. PICK x \in S : \A y \in S : ~(<<y, x>> \in R)
  BY Zenon, <1>1
<1>4. \A y \in S : x <= y
  <2> SUFFICES ASSUME NEW y \in S PROVE ~(y < x)
    BY <1>0
  <2> QED BY Zenon, <1>0, <1>2, <1>3
<1> QED BY Zenon, <1>4 DEF Min

\* One slot changes and sound segments are sent.
LEMMA OneSlot ==
  ASSUME TcpInv, NEW h \in Hosts, NEW i \in Slots, NEW c, ConnOk(h, c),
         conns' = [conns EXCEPT ![h][i] = c],
         isn' \in [Hosts -> Nat], \A s \in net' : SegOk(s)
  PROVE  TcpInv'
<1>1. conns \in [Hosts -> [Slots -> Conns]] /\ c \in Conns
  BY Zenon DEF TcpInv, ConnOk
<1>2. conns' \in [Hosts -> [Slots -> Conns]]
  BY <1>1
<1>3. \A g \in Hosts, j \in Slots : conns'[g][j] = IF g = h /\ j = i THEN c ELSE conns[g][j]
  BY <1>1
<1>4. ASSUME NEW g \in Hosts, NEW j \in Slots PROVE ConnOk(g, conns'[g][j])
  BY Zenon, <1>3 DEF TcpInv
<1> QED BY Zenon, <1>2, <1>4 DEF TcpInv

\* The same when nothing is sent.
LEMMA OneSlotOnly ==
  ASSUME TcpInv, NEW h \in Hosts, NEW i \in Slots, NEW c, ConnOk(h, c),
         conns' = [conns EXCEPT ![h][i] = c],
         UNCHANGED <<isn, net>>
  PROVE  TcpInv'
<1>1. isn' \in [Hosts -> Nat]
  BY Zenon DEF TcpInv
<1>2. \A s \in net' : SegOk(s)
  BY Zenon DEF TcpInv
<1> QED BY Zenon, <1>1, <1>2, OneSlot

\* The next number of a host is one of its numbers.
LEMMA NextIsn ==
  ASSUME Limits, TcpInv, NEW h \in Hosts, HasISN(h)
  PROVE  Next_ISN(h) \in Isns(h) /\ Next_ISN(h) \in Nums
<1>1. PICK k \in Nat, l \in Nat : k = isn[h] /\ l = Len(ISNs[h])
  <2>1. isn[h] \in Nat
    BY Zenon DEF TcpInv
  <2>2. ISNs[h] \in Seq(0 .. SEQ - 1)
    BY Zenon DEF Limits
  <2> QED BY Zenon, <2>1, <2>2, LenProperties
<1>2. k < l
  BY Zenon, <1>1 DEF HasISN
<1>3. k + 1 \in 1 .. l
  BY <1>2
<1>4. Next_ISN(h) \in Isns(h)
  BY Zenon, <1>1, <1>3 DEF Isns, Next_ISN
<1> QED BY Zenon, <1>4, Limited

\* Taking the next number.
LEMMA IsnTaken ==
  ASSUME TcpInv, NEW h \in Hosts, isn' = [isn EXCEPT ![h] = @ + 1]
  PROVE  isn' \in [Hosts -> Nat]
<1>1. isn \in [Hosts -> Nat]
  BY Zenon DEF TcpInv
<1> QED BY <1>1

\* A new connection of a host that answers a SYN.
LEMMA PassiveOpenOk ==
  ASSUME Limits, IsnsApart, TcpInv, NEW h \in Hosts, NEW s, SegOk(s), s.to = h,
         "SYN" \in s.flags, PassiveOpen(h, s)
  PROVE  TcpInv'
<1>1. FreeSlots(h) # {} /\ HasISN(h) /\ isn' = [isn EXCEPT ![h] = @ + 1]
  BY Zenon DEF PassiveOpen
<1>2. PICK i : i = Min(FreeSlots(h))
  BY Zenon
<1>3. i \in Slots
  <2>1. FreeSlots(h) \subseteq Slots
    BY Zenon DEF FreeSlots
  <2> QED BY Zenon, <1>1, <1>2, <2>1, FirstSlot
<1>4. PICK x : x = Next_ISN(h) /\ x \in Isns(h) /\ x \in Nums
  BY Zenon, <1>1, NextIsn
<1>5. PICK q, z : q = s.seq /\ z = (s.seq + 1) % SEQ
  BY Zenon
<1>6. q \in Isns(Peer(h)) /\ q \in Nums /\ s.sport \in PortNames /\ s.dport \in PortNames
  <2>1. q \in Isns(Peer(h)) /\ s \in Segs
    BY Zenon, <1>5 DEF SegOk, FirstNumber
  <2>2. s.sport \in PortNames /\ s.dport \in PortNames
    BY <2>1 DEF Segs
  <2> QED BY Zenon, <2>1, <2>2, Peers, Limited
<1>7. z \in Nums
  <2>1. SEQ \in Nat \ {0} /\ q \in 0 .. SEQ - 1
    BY Zenon, <1>6, TcpAssumption DEF Nums
  <2>2. 1 \in 0 .. SEQ
    BY <2>1
  <2>3. Plus(SEQ, q, 1) \in Nums
    BY Zenon, <2>1, <2>2, PlusIs DEF Nums
  <2> QED BY Zenon, <1>5, <2>3 DEF Plus, Mod
<1>8. PICK c : c = Conn("SYN_RCVD", s.dport, s.sport, x, q, z)
  BY Zenon
<1>9. /\ c \in Conns /\ c.state = "SYN_RCVD" /\ c.iss = x /\ c.irs = q
      /\ c.snd_una = x /\ c.snd_nxt = (x + 1) % SEQ /\ c.rcv_nxt = z
      /\ c.rx = <<>> /\ c.got = <<>>
  <2>1. "SYN_RCVD" \in States
    BY Zenon DEF States
  <2>2. Made(Conn("SYN_RCVD", s.dport, s.sport, x, q, z), "SYN_RCVD", x, q, z)
    <3>1. x \in Nums /\ q \in Nums \cup {None}
      BY Zenon, <1>4, <1>6
    <3> QED BY Zenon, <1>6, <1>7, <2>1, <3>1, ConnMade
  <2> QED BY Zenon, <1>8, <2>2 DEF Made
<1>10. Streams(h, c)
  BY Zenon, <1>9, EmptyStreams
<1>11. Receives(h, c)
  BY Zenon, <1>5, <1>6, <1>9, FirstReceives
<1>12. Sends(h, c)
  BY Zenon, <1>4, <1>9, FreshSends
<1>13. PICK synack : synack = Seg(h, c, {"SYN", "ACK"}, c.snd_una, c.rcv_nxt, <<>>)
  BY Zenon
<1>14. SegOk(synack)
  <2>1. Placed(Peer(h), z)
    <3>1. c.state \in Synced \cup {"SYN_RCVD"}
      BY Zenon, <1>9
    <3>2. Placed(Peer(h), c.rcv_nxt)
      BY Zenon, <1>9, <1>10, <1>11, <3>1, AckPlaced
    <3> QED BY Zenon, <1>9, <3>2
  <2>2. {"SYN", "ACK"} \in SUBSET {"SYN", "ACK", "FIN"} /\ <<>> \in Seq(Bytes)
    OBVIOUS
  <2>3. SegOk(Seg(h, c, {"SYN", "ACK"}, x, z, <<>>))
    BY Zenon, <1>4, <1>7, <1>9, <2>1, <2>2, SegMade
  <2> QED BY Zenon, <1>9, <1>13, <2>3
<1>15. /\ \E d \in Armed(c, synack) : conns' = [conns EXCEPT ![h][i] = d]
       /\ net' = net \cup {synack}
  BY Zenon, <1>2, <1>4, <1>5, <1>8, <1>13 DEF PassiveOpen, SetConn
<1>16. PICK d \in Armed(c, synack) : conns' = [conns EXCEPT ![h][i] = d]
  BY Zenon, <1>15
<1>17. ConnOk(h, d)
  <2>1. c.state \notin Quiet
    BY Zenon, <1>9 DEF Quiet
  <2> QED BY Zenon, <1>9, <1>10, <1>11, <1>12, <1>14, <2>1, ArmedOk
<1>18. isn' \in [Hosts -> Nat]
  BY Zenon, <1>1, IsnTaken
<1>19. \A o \in net' : SegOk(o)
  BY Zenon, <1>14, <1>15 DEF TcpInv
<1> QED BY Zenon, <1>3, <1>16, <1>17, <1>18, <1>19, OneSlot

\* tcp_rx.
LEMMA RxOk ==
  ASSUME Limits, IsnsApart, TcpInv, NEW h \in Hosts, NEW s \in net, Delivers(h, s), tcp_rx(h, s)
  PROVE  TcpInv'
<1>1. SegOk(s) /\ s \in Segs /\ s.to = h
  BY Zenon DEF TcpInv, SegOk, tcp_rx
<1>2. CASE "SYN" \in s.flags /\ PassiveOpen(h, s)
  BY Zenon, <1>1, <1>2, PassiveOpenOk
<1>3. CASE net' = net \cup {send_rst_reply(h, s)} /\ UNCHANGED <<conns, isn>>
  <2>1. SegOk(send_rst_reply(h, s))
    BY Zenon, <1>1, RstMade
  <2>2. \A o \in net' : SegOk(o)
    BY Zenon, <1>3, <2>1 DEF TcpInv
  <2>3. conns' = conns /\ isn' = isn
    BY Zenon, <1>3
  <2> QED BY Zenon, <2>2, <2>3 DEF TcpInv, Slots
<1>4. CASE /\ Matching(h, s) # {}
           /\ LET i == Min(Matching(h, s))
                  r == ConnRx(h, conns[h][i], s)
              IN  SetConn(h, i, r.c) /\ net' = net \cup r.out
           /\ UNCHANGED isn
  <2>1. PICK i, c, r : i = Min(Matching(h, s)) /\ c = conns[h][i] /\ r = ConnRx(h, c, s)
    BY Zenon
  <2>2. /\ conns' = [conns EXCEPT ![h][i] = r.c] /\ net' = net \cup r.out /\ isn' = isn
    BY Zenon, <1>4, <2>1 DEF SetConn
  <2>3. i \in Matching(h, s)
    <3>1. Matching(h, s) \subseteq Slots
      BY Zenon DEF Matching
    <3> QED BY Zenon, <1>4, <2>1, <3>1, FirstSlot
  <2>4. i \in Slots /\ c.state \notin {"CLOSED", "LISTEN"}
    BY Zenon, <2>1, <2>3 DEF Matching
  <2>5. ConnOk(h, c)
    BY Zenon, <2>1, <2>4 DEF TcpInv
  <2>6. Comes(h, c, s)
    BY Zenon, <1>1, <2>1, <2>3, <2>5 DEF Comes, Delivers
  <2>7. Good(h, r)
    BY Zenon, <2>1, <2>4, <2>6, ConnRxOk
  <2>8. ConnOk(h, r.c) /\ \A o \in r.out : SegOk(o)
    BY Zenon, <2>7 DEF Good
  <2>9. \A o \in net' : SegOk(o)
    BY Zenon, <2>2, <2>8 DEF TcpInv
  <2>10. isn' \in [Hosts -> Nat]
    BY Zenon, <2>2 DEF TcpInv
  <2> QED BY Zenon, <2>2, <2>4, <2>8, <2>9, <2>10, OneSlot
<1> QED BY Zenon, <1>2, <1>3, <1>4 DEF tcp_rx

\* tcp_listen.
LEMMA ListenOk ==
  ASSUME Limits, TcpInv, NEW h \in Hosts, tcp_listen(h)
  PROVE  TcpInv'
<1>1. PICK i, c : i = Min(FreeSlots(h)) /\ c = [Closed EXCEPT !.state = "LISTEN", !.lport = Port[h]]
  BY Zenon
<1>2. FreeSlots(h) # {} /\ conns' = [conns EXCEPT ![h][i] = c] /\ UNCHANGED <<isn, net>>
  BY Zenon, <1>1 DEF tcp_listen, SetConn
<1>3. i \in Slots
  <2>1. FreeSlots(h) \subseteq Slots
    BY Zenon DEF FreeSlots
  <2> QED BY Zenon, <1>1, <1>2, <2>1, FirstSlot
<1>4. Closed \in Conns /\ Closed.retx = None /\ Closed.rx = <<>> /\ Closed.got = <<>>
  BY Zenon, ClosedMade
<1>5. Port[h] \in PortNames /\ "LISTEN" \in States
  BY Zenon DEF PortNames, States
<1>6. c \in Conns /\ c.state = "LISTEN" /\ c.retx = None /\ c.rx = <<>> /\ c.got = <<>>
  BY <1>1, <1>4, <1>5 DEF Conns
<1>7. ConnOk(h, c)
  BY Zenon, <1>6, IdleOk
<1> QED BY Zenon, <1>2, <1>3, <1>7, OneSlotOnly

\* tcp_connect.
LEMMA ConnectOk ==
  ASSUME Limits, IsnsApart, TcpInv, NEW h \in Hosts, tcp_connect(h)
  PROVE  TcpInv'
<1>1. FreeSlots(h) # {} /\ HasISN(h) /\ isn' = [isn EXCEPT ![h] = @ + 1]
  BY Zenon DEF tcp_connect
<1>2. PICK i : i = Min(FreeSlots(h))
  BY Zenon
<1>3. i \in Slots
  <2>1. FreeSlots(h) \subseteq Slots
    BY Zenon DEF FreeSlots
  <2> QED BY Zenon, <1>1, <1>2, <2>1, FirstSlot
<1>4. PICK x : x = Next_ISN(h) /\ x \in Isns(h) /\ x \in Nums
  BY Zenon, <1>1, NextIsn
<1>5. PICK c : c = Conn("SYN_SENT", Port[h], Port[Peer(h)], x, None, 0)
  BY Zenon
<1>6. 0 \in Nums
  BY TcpAssumption DEF Nums
<1>7. /\ c \in Conns /\ c.state = "SYN_SENT" /\ c.iss = x
      /\ c.snd_una = x /\ c.snd_nxt = (x + 1) % SEQ /\ c.rx = <<>> /\ c.got = <<>>
  <2>1. "SYN_SENT" \in States /\ Port[h] \in PortNames /\ Port[Peer(h)] \in PortNames
    BY Zenon, Peers DEF States, PortNames
  <2>2. Made(Conn("SYN_SENT", Port[h], Port[Peer(h)], x, None, 0), "SYN_SENT", x, None, 0)
    <3>1. x \in Nums /\ None \in Nums \cup {None}
      BY Zenon, <1>4
    <3> QED BY Zenon, <1>6, <2>1, <3>1, ConnMade
  <2> QED BY Zenon, <1>5, <2>2 DEF Made
<1>8. Streams(h, c)
  BY Zenon, <1>7, EmptyStreams
<1>9. Receives(h, c)
  BY Zenon, <1>7 DEF Receives, Synced
<1>10. Sends(h, c)
  BY Zenon, <1>4, <1>7, FreshSends
<1>11. PICK syn : syn = Seg(h, c, {"SYN"}, c.snd_una, 0, <<>>)
  BY Zenon
<1>12. SegOk(syn)
  <2>1. {"SYN"} \in SUBSET {"SYN", "ACK", "FIN"} /\ <<>> \in Seq(Bytes) /\ "ACK" \notin {"SYN"}
    OBVIOUS
  <2>2. SegOk(Seg(h, c, {"SYN"}, x, 0, <<>>))
    BY Zenon, <1>4, <1>6, <1>7, <2>1, SegMade
  <2> QED BY Zenon, <1>7, <1>11, <2>2
<1>13. /\ \E d \in Armed(c, syn) : conns' = [conns EXCEPT ![h][i] = d]
       /\ net' = net \cup {syn}
  BY Zenon, <1>2, <1>4, <1>5, <1>11 DEF tcp_connect, SetConn
<1>14. PICK d \in Armed(c, syn) : conns' = [conns EXCEPT ![h][i] = d]
  BY Zenon, <1>13
<1>15. ConnOk(h, d)
  <2>1. c.state \notin Quiet
    BY Zenon, <1>7 DEF Quiet
  <2> QED BY Zenon, <1>7, <1>8, <1>9, <1>10, <1>12, <2>1, ArmedOk
<1>16. isn' \in [Hosts -> Nat]
  BY Zenon, <1>1, IsnTaken
<1>17. \A o \in net' : SegOk(o)
  BY Zenon, <1>12, <1>13 DEF TcpInv
<1> QED BY Zenon, <1>3, <1>14, <1>15, <1>16, <1>17, OneSlot

\* The bytes sent are those behind the SYN.
LEMMA SentIs ==
  ASSUME NEW n \in Nat \ {0}, NEW x \in 0 .. n - 1, NEW y \in 0 .. n - 1, 1 <= Off(n, x, y)
  PROVE  Mod(y - x - 1, n) = Off(n, x, y) - 1
<1>1. PICK b \in 0 .. n - 1 : b = Off(n, x, y) /\ b = IF x <= y THEN y - x ELSE y - x + n
  BY Zenon, OffIs
<1>2. PICK d \in Int : d = y - x - 1 /\ -2 * n <= d /\ d < n
  OBVIOUS
<1>3. Mod(d, n) = IF d < -n THEN d + 2 * n ELSE IF d < 0 THEN d + n ELSE d
  BY <1>2, ModIs
<1>4. 1 <= b
  BY Zenon, <1>1
<1> QED BY <1>1, <1>2, <1>3, <1>4

\* The counters of a connection that sends: snd_nxt is behind the SYN and the
\* bytes sent, and moves on by k.
LEMMA SndNxtIs ==
  ASSUME Limits, NEW h \in Hosts, NEW c, ConnOk(h, c), c.state \notin {"CLOSED", "LISTEN"}
  PROVE  /\ Una(c) \in Nat /\ Nxt(c) \in Nat /\ 1 <= Nxt(c) /\ Nxt(c) <= MAX_SENT[h] + 2
         /\ Sent(c) = Nxt(c) - 1 /\ c.snd_nxt = (c.iss + Nxt(c)) % SEQ
         /\ \A k \in 0 .. SEQ : Nxt(c) + k < SEQ =>
              /\ (c.snd_nxt + k) % SEQ \in Nums
              /\ Off(SEQ, c.iss, (c.snd_nxt + k) % SEQ) = Nxt(c) + k
<1>1. PICK x \in 0 .. SEQ - 1, y \in 0 .. SEQ - 1, u \in 0 .. SEQ - 1 :
        x = c.iss /\ y = c.snd_nxt /\ u = c.snd_una
  BY Zenon, FieldTypes DEF ConnOk, Nums
<1>2. SEQ \in Nat \ {0}
  BY Zenon, TcpAssumption
<1>3. Nxt(c) = Off(SEQ, x, y) /\ Una(c) = Off(SEQ, x, u)
  BY Zenon, <1>1, CountersAre
<1>4. Off(SEQ, x, y) \in 0 .. SEQ - 1 /\ Off(SEQ, x, u) \in 0 .. SEQ - 1
  BY Zenon, <1>2, OffIs
<1>5. Off(SEQ, x, y) \in Nat /\ Off(SEQ, x, u) \in Nat
  BY <1>2, <1>4
<1>6. 1 <= Nxt(c) /\ Nxt(c) <= MAX_SENT[h] + 2
  BY Zenon DEF ConnOk, Sends
<1>7. Sent(c) = Nxt(c) - 1
  <2>1. 1 <= Off(SEQ, x, y)
    BY Zenon, <1>3, <1>6
  <2>2. Mod(y - x - 1, SEQ) = Off(SEQ, x, y) - 1
    BY Zenon, <1>2, <2>1, SentIs
  <2> QED BY Zenon, <1>1, <1>3, <2>2 DEF Sent, Mod
<1>8. c.snd_nxt = (c.iss + Nxt(c)) % SEQ
  <2>1. y = Plus(SEQ, x, Off(SEQ, x, y))
    BY Zenon, <1>2, OffPlus
  <2> QED BY Zenon, <1>1, <1>3, <2>1 DEF Plus, Mod
<1>9. ASSUME NEW k \in 0 .. SEQ, Nxt(c) + k < SEQ
      PROVE  /\ (c.snd_nxt + k) % SEQ \in Nums
             /\ Off(SEQ, c.iss, (c.snd_nxt + k) % SEQ) = Nxt(c) + k
  <2>1. Plus(SEQ, y, k) \in 0 .. SEQ - 1
    BY Zenon, <1>2, PlusIs
  <2>2. Off(SEQ, x, y) + k < SEQ /\ k \in Nat
    <3>1. k \in Nat
      BY <1>2
    <3> QED BY Zenon, <1>3, <1>9, <3>1
  <2>3. Off(SEQ, x, Plus(SEQ, y, k)) = Off(SEQ, x, y) + k
    BY Zenon, <1>2, <2>2, OffAdvance
  <2> QED BY Zenon, <1>1, <1>3, <2>1, <2>3 DEF Plus, Mod, Nums
<1> QED BY Zenon, <1>3, <1>5, <1>6, <1>7, <1>8, <1>9

\* snd_nxt moves on.
Advanced(c, k, d) ==
  d = [c EXCEPT !.snd_nxt = (c.snd_nxt + k) % SEQ]
AdvancedOnly(c, k, d) ==
  /\ d \in Conns /\ d.state = c.state /\ d.iss = c.iss /\ d.irs = c.irs
  /\ d.rcv_nxt = c.rcv_nxt /\ d.retx = c.retx /\ d.rx = c.rx /\ d.got = c.got
  /\ Una(d) = Una(c) /\ Nxt(d) = Nxt(c) + k

LEMMA AdvancedFields ==
  ASSUME Limits, NEW h \in Hosts, NEW c, NEW k, NEW d, ConnOk(h, c), Advanced(c, k, d),
         c.state \notin {"CLOSED", "LISTEN"}, k \in 0 .. SEQ, Nxt(c) + k < SEQ
  PROVE  AdvancedOnly(c, k, d)
<1>1. PICK z \in Nums : z = (c.snd_nxt + k) % SEQ /\ Off(SEQ, c.iss, z) = Nxt(c) + k
  BY Zenon, SndNxtIs
<1>2. d = [c EXCEPT !.snd_nxt = z]
  BY Zenon, <1>1 DEF Advanced
<1>3. c \in Conns
  BY Zenon DEF ConnOk
<1>4. /\ d \in Conns /\ d.state = c.state /\ d.iss = c.iss /\ d.irs = c.irs
      /\ d.snd_una = c.snd_una /\ d.rcv_nxt = c.rcv_nxt /\ d.retx = c.retx
      /\ d.rx = c.rx /\ d.got = c.got /\ d.snd_nxt = z
  BY <1>2, <1>3 DEF Conns
<1>5. Una(d) = Una(c)
  BY Zenon, <1>4 DEF Una
<1>6. Nxt(d) = Nxt(c) + k
  BY Zenon, <1>1, <1>4, CountersAre
<1> QED BY Zenon, <1>4, <1>5, <1>6 DEF AdvancedOnly

\* tcp_send.
LEMMA SendOk ==
  ASSUME Limits, IsnsApart, TcpInv, NEW h \in Hosts, NEW i \in Slots, NEW n \in 1 .. MAX_LEN,
         tcp_send(h, i, n)
  PROVE  TcpInv'
<1>1. PICK c, data, seg, e :
        /\ c = conns[h][i]
        /\ data = [k \in 1 .. n |-> <<h, c.iss, Sent(c) + k>>]
        /\ seg = Seg(h, c, {"ACK"}, c.snd_nxt, c.rcv_nxt, data)
        /\ e = [c EXCEPT !.snd_nxt = (c.snd_nxt + n) % SEQ]
  BY Zenon
<1>2. /\ c.state \in {"ESTABLISHED", "CLOSE_WAIT"} /\ Sent(c) + n <= MAX_SENT[h]
      /\ \E d \in Armed(e, seg) : conns' = [conns EXCEPT ![h][i] = d]
      /\ net' = net \cup {seg} /\ isn' = isn
  BY Zenon, <1>1 DEF tcp_send, SetConn
<1>3. ConnOk(h, c) /\ isn' \in [Hosts -> Nat]
  BY Zenon, <1>1, <1>2 DEF TcpInv
<1>4. /\ c \in Conns /\ Streams(h, c) /\ Receives(h, c) /\ c.iss \in Isns(h)
      /\ Una(c) <= Nxt(c) /\ c.state \notin {"CLOSED", "LISTEN"}
  BY Zenon, <1>2, <1>3 DEF ConnOk, Sends
<1>5. PICK m \in Nat, F \in Nat, S \in Nat, H \in Nat :
        /\ m = MAX_SENT[h] /\ F = MAX_FINS /\ S = SEQ /\ H = SEQ \div 2
        /\ m + F + 2 < H /\ H <= S
  <2>1. SEQ \in Nat /\ SEQ \div 2 \in Nat
    BY TcpAssumption, Z3
  <2> QED BY Zenon, <2>1, Limited
<1>6. PICK u \in Nat, b \in Nat : u = Una(c) /\ b = Nxt(c) /\ 1 <= b /\ u <= b
  BY Zenon, <1>3, <1>4, SndNxtIs
<1>7. PICK o \in Nat : o = Sent(c) /\ o + 1 = b /\ o + n <= m
  <2>1. Sent(c) = b - 1
    BY Zenon, <1>3, <1>4, <1>6, SndNxtIs
  <2>2. b - 1 \in Nat /\ (b - 1) + 1 = b
    BY <1>6
  <2> QED BY Zenon, <1>2, <1>5, <2>1, <2>2
<1>8. n \in Nat
  BY DEF Limits
<1>9. /\ n \in 0 .. S /\ b + n < S /\ b + n <= m + 2 /\ b + n <= m + 1 /\ 1 <= b + n
      /\ u <= b + n
  BY <1>5, <1>6, <1>7, <1>8
<1>10. /\ e \in Conns /\ e.state = c.state /\ e.iss = c.iss /\ e.irs = c.irs
       /\ e.rcv_nxt = c.rcv_nxt /\ e.rx = c.rx /\ e.got = c.got
       /\ Una(e) = Una(c) /\ Nxt(e) = Nxt(c) + n
  <2>1. Advanced(c, n, e) /\ n \in 0 .. SEQ /\ Nxt(c) + n < SEQ
    BY Zenon, <1>1, <1>5, <1>6, <1>9 DEF Advanced
  <2>2. AdvancedOnly(c, n, e)
    BY Zenon, <1>3, <1>4, <2>1, AdvancedFields
  <2> QED BY Zenon, <2>2 DEF AdvancedOnly
<1>11. Streams(h, e)
  BY Zenon, <1>4, <1>10, StreamsKept
<1>12. Receives(h, e)
  BY Zenon, <1>4, <1>10, ReceivesKept
<1>13. Sends(h, e)
  BY Zenon, <1>2, <1>4, <1>5, <1>6, <1>9, <1>10 DEF Sends
<1>14. SegOk(seg)
  <2>1. c.iss \in Nums /\ c.snd_nxt \in Nums /\ c.rcv_nxt \in Nums
    BY Zenon, <1>4, FieldTypes
  <2>2. data \in Seq(Bytes) /\ Len(data) = n /\ \A k \in 1 .. n : data[k] = <<h, c.iss, o + k>>
    <3>1. data = [k \in 1 .. n |-> <<h, c.iss, o + k>>]
      BY Zenon, <1>1, <1>7
    <3>2. \A k \in 1 .. n : o + k \in Nat
      BY <1>8
    <3>3. \A k \in 1 .. n : <<h, c.iss, o + k>> \in Bytes
      BY Zenon, <2>1, <3>2 DEF Bytes
    <3>4. data \in [1 .. n -> Bytes] /\ \A k \in 1 .. n : data[k] = <<h, c.iss, o + k>>
      BY Zenon, <3>1, <3>3
    <3>5. data \in Seq(Bytes) /\ Len(data) = n
      BY <1>8, <3>4
    <3> QED BY Zenon, <3>4, <3>5
  <2>3. Placed(Peer(h), c.rcv_nxt)
    <3>1. c.state \in Synced \cup {"SYN_RCVD"}
      BY Zenon, <1>2 DEF Synced
    <3> QED BY Zenon, <1>4, <3>1, AckPlaced
  <2>4. c.snd_nxt = (c.iss + 1 + o) % SEQ
    <3>1. c.snd_nxt = (c.iss + b) % SEQ
      BY Zenon, <1>3, <1>4, <1>6, SndNxtIs
    <3>2. c.iss \in Int
      BY <2>1, TcpAssumption DEF Nums
    <3>3. c.iss + b = c.iss + 1 + o
      BY <1>7, <3>2
    <3> QED BY Zenon, <3>1, <3>3
  <2>5. {"ACK"} \in SUBSET {"SYN", "ACK", "FIN"} /\ "SYN" \notin {"ACK"}
    BY Zenon
  <2>6. \E x \in Isns(h), p \in Nat :
          /\ p + Len(data) <= MAX_SENT[h] /\ c.snd_nxt = (x + 1 + p) % SEQ
          /\ \A k \in 1 .. Len(data) : data[k] = <<h, x, p + k>>
    BY Zenon, <1>4, <1>5, <1>7, <2>2, <2>4
  <2>7. SegOk(Seg(h, c, {"ACK"}, c.snd_nxt, c.rcv_nxt, data))
    BY Zenon, <1>4, <2>1, <2>2, <2>3, <2>5, <2>6, SegMade
  <2> QED BY Zenon, <1>1, <2>7
<1>15. PICK d \in Armed(e, seg) : conns' = [conns EXCEPT ![h][i] = d]
  BY Zenon, <1>2
<1>16. ConnOk(h, d)
  <2>1. e.state \notin Quiet
    BY Zenon, <1>2, <1>10 DEF Quiet
  <2> QED BY Zenon, <1>10, <1>11, <1>12, <1>13, <1>14, <2>1, ArmedOk
<1>17. \A s \in net' : SegOk(s)
  BY Zenon, <1>2, <1>14 DEF TcpInv
<1> QED BY Zenon, <1>3, <1>15, <1>16, <1>17, OneSlot

\* tcp_close.
LEMMA CloseOk ==
  ASSUME Limits, IsnsApart, TcpInv, NEW h \in Hosts, NEW i \in Slots, tcp_close(h, i)
  PROVE  TcpInv'
<1>1. PICK c, q : /\ c = conns[h][i]
                  /\ q = IF c.state = "CLOSE_WAIT" THEN "LAST_ACK" ELSE "FIN_WAIT_1"
  BY Zenon
<1>2. ConnOk(h, c)
  BY Zenon, <1>1 DEF TcpInv
<1>3. /\ c \in Conns /\ Streams(h, c) /\ Receives(h, c) /\ Sends(h, c) /\ Copies(c)
  BY Zenon, <1>2 DEF ConnOk
<1>4. CASE c.state \in {"LISTEN", "SYN_SENT"}
  <2>1. conns' = [conns EXCEPT ![h][i] = Freed(retx_clear(c))] /\ UNCHANGED <<isn, net>>
    BY Zenon, <1>1, <1>4 DEF tcp_close, SetConn
  <2>2. PICK e : e = retx_clear(c)
    BY Zenon
  <2>3. e \in Conns /\ Like(c, e) /\ e.retx = None
    BY Zenon, <1>3, <2>2, ClearFields
  <2>4. Streams(h, e)
    BY Zenon, <1>3, <2>3, StreamsKept DEF Like
  <2>5. ConnOk(h, Freed(retx_clear(c)))
    BY Zenon, <2>2, <2>3, <2>4, FreedOk
  <2> QED BY Zenon, <2>1, <2>5, OneSlotOnly
<1>5. CASE c.state \in {"ESTABLISHED", "SYN_RCVD", "CLOSE_WAIT"}
  <2>1. PICK fin, e, d : /\ fin = send_ctrl(h, c, {"FIN", "ACK"})
                         /\ e = [c EXCEPT !.snd_nxt = (c.snd_nxt + 1) % SEQ]
                         /\ d = [c EXCEPT !.snd_nxt = (c.snd_nxt + 1) % SEQ, !.state = q]
    BY Zenon
  <2>2. conns' = [conns EXCEPT ![h][i] = d] /\ net' = net \cup {fin} /\ isn' = isn
    BY Zenon, <1>1, <1>5, <2>1 DEF tcp_close, SetConn
  <2>3. PICK m \in Nat, F \in Nat, S \in Nat, H \in Nat :
          /\ m = MAX_SENT[h] /\ F = MAX_FINS /\ S = SEQ /\ H = SEQ \div 2
          /\ m + F + 2 < H /\ H <= S
    <3>1. SEQ \in Nat /\ SEQ \div 2 \in Nat
      BY TcpAssumption, Z3
    <3> QED BY Zenon, <3>1, Limited
  <2>4. c.state \notin {"CLOSED", "LISTEN"} /\ c.state \in Synced \cup {"SYN_RCVD"}
    BY Zenon, <1>5 DEF Synced
  <2>5. PICK u \in Nat, b \in Nat : /\ u = Una(c) /\ b = Nxt(c) /\ 1 <= b /\ u <= b
                                    /\ b <= m + 1 /\ c.iss \in Isns(h)
    BY Zenon, <1>2, <1>3, <1>5, <2>3, <2>4, SndNxtIs DEF Sends
  <2>6. /\ 1 \in 0 .. S /\ b + 1 < S /\ b + 1 <= m + 2 /\ 1 <= b + 1
        /\ u <= b + 1 /\ u < b + 1
    BY <2>3, <2>5
  <2>7. /\ e \in Conns /\ e.state = c.state /\ e.iss = c.iss /\ e.irs = c.irs
        /\ e.rcv_nxt = c.rcv_nxt /\ e.rx = c.rx /\ e.got = c.got /\ e.retx = c.retx
        /\ Una(e) = Una(c) /\ Nxt(e) = Nxt(c) + 1
    <3>1. Advanced(c, 1, e) /\ 1 \in 0 .. SEQ /\ Nxt(c) + 1 < SEQ
      BY Zenon, <2>1, <2>3, <2>5, <2>6 DEF Advanced
    <3>2. AdvancedOnly(c, 1, e)
      BY Zenon, <1>2, <2>4, <3>1, AdvancedFields
    <3> QED BY Zenon, <3>2 DEF AdvancedOnly
  <2>8. q \in {"LAST_ACK", "FIN_WAIT_1"} /\ q \in States
    BY Zenon, <1>1 DEF States, Synced
  <2>9. /\ d \in Conns /\ d.state = q /\ d.iss = e.iss /\ d.irs = e.irs /\ d.rcv_nxt = e.rcv_nxt
        /\ d.rx = e.rx /\ d.got = e.got /\ d.retx = e.retx
        /\ d.snd_una = e.snd_una /\ d.snd_nxt = e.snd_nxt
    <3>1. d = [e EXCEPT !.state = q]
      BY <1>3, <2>1 DEF Conns
    <3> QED BY <2>7, <2>8, <3>1 DEF Conns
  <2>10. Una(d) = u /\ Nxt(d) = b + 1
    BY Zenon, <2>5, <2>7, <2>9 DEF Una, Nxt
  <2>11. Streams(h, d)
    BY Zenon, <1>3, <2>7, <2>8, <2>9, StreamsKept
  <2>12. Receives(h, d)
    <3>1. d.state \in Taking => c.state \in Taking
      BY Zenon, <1>1, <1>5, <2>9 DEF Taking
    <3>2. d.got = c.got /\ d.irs = c.irs /\ d.rcv_nxt = c.rcv_nxt
      BY Zenon, <2>7, <2>9
    <3> QED BY Zenon, <1>3, <2>4, <3>1, <3>2, ReceivesKept
  <2>13. Sends(h, d)
    <3>1. d.iss \in Isns(h) /\ Nxt(d) <= MAX_SENT[h] + 2 /\ Una(d) <= Nxt(d)
          /\ Una(d) < Nxt(d) /\ 1 <= Nxt(d)
      BY Zenon, <2>3, <2>5, <2>6, <2>7, <2>9, <2>10
    <3> QED BY Zenon, <2>8, <2>9, <3>1 DEF Sends
  <2>14. Copies(d)
    BY Zenon, <1>3, <2>7, <2>8, <2>9 DEF Copies, Quiet
  <2>15. ConnOk(h, d)
    BY Zenon, <2>9, <2>11, <2>12, <2>13, <2>14 DEF ConnOk
  <2>16. SegOk(fin)
    <3>1. {"FIN", "ACK"} \in SUBSET {"ACK", "FIN"}
      BY Zenon
    <3> QED BY Zenon, <1>3, <2>1, <2>4, <3>1, CtrlMade
  <2>17. isn' \in [Hosts -> Nat] /\ \A s \in net' : SegOk(s)
    BY Zenon, <2>2, <2>16 DEF TcpInv
  <2> QED BY Zenon, <2>2, <2>15, <2>17, OneSlot
<1> QED BY Zenon, <1>1, <1>4, <1>5 DEF tcp_close

\* tcp_read.
LEMMA ReadOk ==
  ASSUME Limits, TcpInv, NEW h \in Hosts, NEW i \in Slots, NEW n \in 1 .. MAX_READ,
         tcp_read(h, i, n)
  PROVE  TcpInv'
<1>1. PICK c, k, rx : c = conns[h][i] /\ rx = c.rx /\ k = Min({n, Len(c.rx)})
  BY Zenon
<1>2. PICK t, d : t = SubSeq(rx, 1 + k, Len(rx)) /\ d = [c EXCEPT !.rx = t]
  BY Zenon
<1>3. conns' = [conns EXCEPT ![h][i] = d] /\ UNCHANGED <<isn, net>>
  BY Zenon, <1>1, <1>2 DEF tcp_read, SetConn
<1>4. ConnOk(h, c)
  BY Zenon, <1>1 DEF TcpInv
<1>5. /\ c \in Conns /\ Streams(h, c) /\ Receives(h, c) /\ Sends(h, c) /\ Copies(c)
  BY Zenon, <1>4 DEF ConnOk
<1>6. rx \in Seq(Bytes) /\ c.got \in Seq(Bytes) /\ EndsOf(rx, c.got) /\ Len(rx) < TCP_RX_BUF_SIZE
  BY Zenon, <1>1, <1>5, FieldTypes DEF Streams
<1>7. PICK l \in Nat, R \in Nat : l = Len(rx) /\ R = TCP_RX_BUF_SIZE /\ l < R
  BY Zenon, <1>6, LenProperties DEF Limits
<1>8. k \in 0 .. Len(rx)
  <2>1. n \in Nat
    BY DEF Limits
  <2>2. k \in Nat /\ k <= l
    BY Zenon, <1>1, <1>7, <2>1, MinOfTwo
  <2>3. k \in 0 .. l
    BY <2>2
  <2> QED BY Zenon, <1>7, <2>3
<1>9. EndsOf(t, c.got) /\ t \in Seq(Bytes) /\ Len(t) <= Len(rx)
  BY Zenon, <1>2, <1>6, <1>8, EndsShrink
<1>10. Len(t) < TCP_RX_BUF_SIZE
  <2>1. PICK j \in Nat : j = Len(t) /\ j <= l
    BY Zenon, <1>7, <1>9, LenProperties
  <2>2. j < R
    BY <1>7, <2>1
  <2> QED BY Zenon, <1>7, <2>1, <2>2
<1>11. /\ d \in Conns /\ d.state = c.state /\ d.iss = c.iss /\ d.irs = c.irs
       /\ d.snd_una = c.snd_una /\ d.snd_nxt = c.snd_nxt /\ d.retx = c.retx
       /\ d.rx = t /\ d.got = c.got /\ d.rcv_nxt = c.rcv_nxt
  BY <1>2, <1>5, <1>9 DEF Conns
<1>12. Streams(h, d)
  BY Zenon, <1>5, <1>9, <1>10, <1>11 DEF Streams
<1>13. Receives(h, d)
  BY Zenon, <1>5, <1>11, ReceivesKept
<1>14. Sends(h, d)
  BY Zenon, <1>5, <1>11, SendsKept
<1>15. Copies(d)
  BY Zenon, <1>5, <1>11 DEF Copies
<1>16. ConnOk(h, d)
  BY Zenon, <1>11, <1>12, <1>13, <1>14, <1>15 DEF ConnOk
<1> QED BY Zenon, <1>3, <1>16, OneSlotOnly

\* What a deadline does to a connection.
LEMMA TickedOk ==
  ASSUME NEW h \in Hosts, NEW c, ConnOk(h, c), c.state = "TIME_WAIT" \/ c.retx # None
  PROVE  ConnOk(h, Ticked(c)) /\ \A o \in Resent(c) : SegOk(o)
<1>1. /\ c \in Conns /\ Streams(h, c) /\ Receives(h, c) /\ Sends(h, c) /\ Copies(c)
  BY Zenon DEF ConnOk
<1>2. \A o \in Resent(c) : SegOk(o)
  BY Zenon, <1>1 DEF Resent, Copies
<1>3. CASE c.state = "TIME_WAIT"
  <2>1. c.retx = None
    BY Zenon, <1>1, <1>3 DEF Copies, Quiet
  <2>2. ConnOk(h, Freed(c))
    BY Zenon, <1>1, <2>1, FreedOk
  <2> QED BY Zenon, <1>2, <1>3, <2>2 DEF Ticked
<1>4. CASE c.state # "TIME_WAIT" /\ c.retx_count >= TCP_MAX_RETRIES
  <2>1. PICK e : e = retx_clear(c)
    BY Zenon
  <2>2. e \in Conns /\ Like(c, e) /\ e.retx = None
    BY Zenon, <1>1, <2>1, ClearFields
  <2>3. Streams(h, e)
    BY Zenon, <1>1, <2>2, StreamsKept DEF Like
  <2>4. ConnOk(h, Freed(retx_clear(c)))
    BY Zenon, <2>1, <2>2, <2>3, FreedOk
  <2> QED BY Zenon, <1>2, <1>4, <2>4 DEF Ticked
<1>5. CASE c.state # "TIME_WAIT" /\ ~(c.retx_count >= TCP_MAX_RETRIES)
  <2>1. PICK k, d : k = c.retx_count + 1 /\ d = [c EXCEPT !.retx_count = k]
    BY Zenon
  <2>2. Ticked(c) = d
    BY Zenon, <1>5, <2>1 DEF Ticked
  <2>3. k \in Nat
    <3>1. c.retx_count \in Nat
      BY Zenon, <1>1, FieldTypes
    <3> QED BY <2>1, <3>1
  <2>4. d \in Conns
    BY <1>1, <2>1, <2>3 DEF Conns
  <2>5. Like(c, d) /\ d.retx = c.retx
    BY <1>1, <2>1 DEF Conns, Like
  <2>6. Streams(h, d) /\ Receives(h, d) /\ Sends(h, d)
    BY Zenon, <1>1, <2>5, LikeKept
  <2>7. Copies(d)
    BY Zenon, <1>1, <2>5 DEF Copies, Like
  <2> QED BY Zenon, <1>2, <2>2, <2>4, <2>6, <2>7 DEF ConnOk
<1> QED BY Zenon, <1>3, <1>4, <1>5

\* tcp_tick.
LEMMA TickOk ==
  ASSUME TcpInv, NEW h \in Hosts, NEW due, tcp_tick(h, due)
  PROVE  TcpInv'
<1>1. PICK t : t = [i \in Slots |-> IF i \in due THEN Ticked(conns[h][i]) ELSE conns[h][i]]
  BY Zenon
<1>2. /\ conns' = [conns EXCEPT ![h] = t] /\ isn' = isn
      /\ net' = net \cup UNION {Resent(conns[h][i]) : i \in due}
      /\ due \subseteq Due(h)
  BY Zenon, <1>1 DEF tcp_tick
<1>3. ASSUME NEW i \in due
      PROVE  i \in Slots /\ ConnOk(h, Ticked(conns[h][i])) /\ \A o \in Resent(conns[h][i]) : SegOk(o)
  <2>1. PICK c : c = conns[h][i]
    BY Zenon
  <2>2. i \in Slots /\ (c.state = "TIME_WAIT" \/ c.retx # None)
    BY Zenon, <1>2, <2>1 DEF Due
  <2>3. ConnOk(h, c)
    BY Zenon, <2>1, <2>2 DEF TcpInv
  <2>4. ConnOk(h, Ticked(c)) /\ \A o \in Resent(c) : SegOk(o)
    BY Zenon, <2>2, <2>3, TickedOk
  <2> QED BY Zenon, <2>1, <2>2, <2>4
<1>4. \A o \in net' : SegOk(o)
  BY Zenon, <1>2, <1>3 DEF TcpInv
<1>5. ASSUME NEW i \in Slots PROVE ConnOk(h, t[i])
  <2>1. t[i] = IF i \in due THEN Ticked(conns[h][i]) ELSE conns[h][i]
    BY Zenon, <1>1
  <2> QED BY Zenon, <1>3, <2>1 DEF TcpInv
<1>6. t \in [Slots -> Conns]
  <2>1. \A i \in Slots : t[i] \in Conns
    BY Zenon, <1>5 DEF ConnOk
  <2> QED BY Zenon, <1>1, <2>1
<1>7. conns \in [Hosts -> [Slots -> Conns]]
  BY Zenon DEF TcpInv
<1>8. conns' \in [Hosts -> [Slots -> Conns]] /\ \A g \in Hosts : conns'[g] = IF g = h THEN t ELSE conns[g]
  BY <1>2, <1>6, <1>7
<1>9. ASSUME NEW g \in Hosts, NEW j \in Slots PROVE ConnOk(g, conns'[g][j])
  BY Zenon, <1>5, <1>8 DEF TcpInv
<1>10. isn' \in [Hosts -> Nat]
  BY Zenon, <1>2 DEF TcpInv
<1> QED BY Zenon, <1>4, <1>8, <1>9, <1>10 DEF TcpInv
-----------------------------------------------------------------------------
(* The invariant.                                                          *)

LEMMA TcpInitially ==
  ASSUME Limits, tcp_init
  PROVE  TcpInv
<1>1. \A h \in Hosts : ConnOk(h, Closed)
  <2> SUFFICES ASSUME NEW h \in Hosts PROVE ConnOk(h, Closed)
    OBVIOUS
  <2>1. PICK c : c = Closed
    BY Zenon
  <2>2. c \in Conns /\ c.state \in {"CLOSED", "LISTEN"} /\ c.retx = None /\ c.rx = <<>> /\ c.got = <<>>
    BY Zenon, <2>1, ClosedMade
  <2>3. ConnOk(h, c)
    BY Zenon, <2>2, IdleOk
  <2> QED BY Zenon, <2>1, <2>3
<1>2. \A h \in Hosts, i \in Slots : conns[h][i] = Closed
  BY Zenon DEF tcp_init
<1>3. conns \in [Hosts -> [Slots -> Conns]] /\ isn \in [Hosts -> Nat]
  <2>1. Closed \in Conns
    BY Zenon, ClosedMade
  <2>2. 0 \in Nat
    OBVIOUS
  <2> QED BY <2>1, <2>2 DEF tcp_init
<1>4. \A s \in net : SegOk(s)
  BY Zenon DEF tcp_init
<1>5. \A h \in Hosts, i \in Slots : ConnOk(h, conns[h][i])
  BY Zenon, <1>1, <1>2
<1> QED BY Zenon, <1>3, <1>4, <1>5 DEF TcpInv

LEMMA TcpPreserved ==
  ASSUME Limits, IsnsApart, TcpInv, [Next]_vars
  PROVE  TcpInv'
<1>1. CASE UNCHANGED vars
  <2>1. conns' = conns /\ isn' = isn /\ net' = net
    BY Zenon, <1>1 DEF vars
  <2> QED BY Zenon, <2>1 DEF TcpInv
<1>2. CASE Next
  <2>1. PICK h \in Hosts :
          \/ Receive(h)
          \/ tcp_listen(h)
          \/ tcp_connect(h)
          \/ \E i \in Slots : \/ \E n \in 1 .. MAX_LEN : tcp_send(h, i, n)
                              \/ \E n \in 1 .. MAX_READ : tcp_read(h, i, n)
                              \/ tcp_close(h, i)
                              \/ Tick(h, i)
    BY Zenon, <1>2 DEF Next
  <2>2. CASE Receive(h)
    <3>1. PICK s \in net : Delivers(h, s) /\ tcp_rx(h, s)
      BY Zenon, <2>2 DEF Receive
    <3> QED BY Zenon, <3>1, RxOk
  <2>3. CASE tcp_listen(h)
    BY Zenon, <2>3, ListenOk
  <2>4. CASE tcp_connect(h)
    BY Zenon, <2>4, ConnectOk
  <2>5. ASSUME NEW i \in Slots, NEW n \in 1 .. MAX_LEN, tcp_send(h, i, n) PROVE TcpInv'
    BY Zenon, <2>5, SendOk
  <2>6. ASSUME NEW i \in Slots, NEW n \in 1 .. MAX_READ, tcp_read(h, i, n) PROVE TcpInv'
    BY Zenon, <2>6, ReadOk
  <2>7. ASSUME NEW i \in Slots, tcp_close(h, i) PROVE TcpInv'
    BY Zenon, <2>7, CloseOk
  <2>8. ASSUME NEW i \in Slots, Tick(h, i) PROVE TcpInv'
    <3>1. PICK due \in SUBSET Due(h) : tcp_tick(h, due)
      BY Zenon, <2>8 DEF Tick
    <3> QED BY Zenon, <3>1, TickOk
  <2> QED BY Zenon, <2>1, <2>2, <2>3, <2>4, <2>5, <2>6, <2>7, <2>8
<1> QED BY Zenon, <1>1, <1>2

\* Whatever the network does, every segment carries the numbers of one of its
\* sender's connections, and every connection's counters fit its streams.
THEOREM TcpInvariance ==
  ASSUME Limits, IsnsApart
  PROVE  Spec => []TcpInv
<1>1. tcp_init => TcpInv
  BY Zenon, TcpInitially
<1>2. TcpInv /\ [Next]_vars => TcpInv'
  BY Zenon, TcpPreserved
<1> QED BY <1>1, <1>2, PTL DEF Spec

\* A program reads what the peer's program wrote to this very connection, from
\* the first byte, in order, with none missing and none twice: for connections
\* that send less than half of the sequence numbers and whose numbers are
\* apart, over a network that loses, repeats, delays and reorders (tcp_rx).
THEOREM StreamsAreIntact ==
  ASSUME Limits, IsnsApart
  PROVE  Spec => []StreamIsPrefix
<1>1. TcpInv => StreamIsPrefix
  <2> SUFFICES ASSUME TcpInv, NEW h \in Hosts, NEW i \in DOMAIN conns[h], NEW c, c = conns[h][i]
               PROVE  (\A k \in 1 .. Len(c.got) : c.got[k] = <<Peer(h), c.irs, k>>) /\ EndsOf(c.rx, c.got)
    BY Zenon DEF StreamIsPrefix
  <2>1. i \in Slots
    <3>1. conns[h] \in [Slots -> Conns]
      BY Zenon DEF TcpInv
    <3> QED BY Zenon, <3>1
  <2>2. ConnOk(h, c)
    BY Zenon, <2>1 DEF TcpInv
  <2> QED BY Zenon, <2>2 DEF ConnOk, Streams
<1> QED BY <1>1, TcpInvariance, PTL

\* No copy is kept for a slot that is free, listens, or has nothing left to
\* send: conn_alloc loses none, and tcp_tick sends none (retx_clear).
THEOREM IdleSlotsKeepNoCopy ==
  ASSUME Limits, IsnsApart
  PROVE  Spec => []NoStaleRetx
<1>1. TcpInv => NoStaleRetx
  <2> SUFFICES ASSUME TcpInv, NEW h \in Hosts, NEW i \in DOMAIN conns[h],
                      conns[h][i].state \in Quiet
               PROVE  conns[h][i].retx = None
    BY Zenon DEF NoStaleRetx, Quiet
  <2>1. i \in Slots
    <3>1. conns[h] \in [Slots -> Conns]
      BY Zenon DEF TcpInv
    <3> QED BY Zenon, <3>1
  <2>2. ConnOk(h, conns[h][i])
    BY Zenon, <2>1 DEF TcpInv
  <2> QED BY Zenon, <2>2 DEF ConnOk, Copies
<1> QED BY <1>1, TcpInvariance, PTL
=============================================================================
