----------------------------- MODULE NicProofs ------------------------------
(***************************************************************************)
(* The rings keep the frames and their order, and no frame buffer is lost  *)
(* (RingsKeepFrames and BuffersAreFreed of module Nic), for rings of any   *)
(* size.  The receive ring and the heap are proved as the code is; the     *)
(* transmit ring for handlers that do not send inside a system call's      *)
(* e1000_send, which otherwise breaks it.                                  *)
(*                                                                         *)
(* Each ring is described by counting from its head: which descriptors are *)
(* occupied, what they hold, and where the tails therefore are.            *)
(***************************************************************************)
EXTENDS Nic, FiniteSetTheorems, SequenceTheorems, TLAPS

NTx == E1000_NUM_TX_DESC
NRx == E1000_NUM_RX_DESC

\* The descriptor k places after descriptor i in a ring of n.
Place(n, i, k) == (i + k) % n

Contexts == {"call", "intr"}
Senders == [pc : {"idle", "wait", "filled", "armed", "advanced"}, idx : TxDesc, frame : Nat]

USE RingsAssumption
-----------------------------------------------------------------------------
\* Arithmetic of a ring.
LEMMA PlaceValue ==
  ASSUME NEW n \in Nat \ {0}, NEW i \in 0 .. n - 1, NEW k \in 0 .. n
  PROVE  Place(n, i, k) = IF i + k < n THEN i + k ELSE i + k - n
<1>1. \A a \in 0 .. n - 1 : a % n = a
  OBVIOUS
<1>2. \A a \in 0 .. n - 1 : (a + n) % n = a
  OBVIOUS
<1>3. CASE i + k < n
  <2>1. i + k \in 0 .. n - 1
    BY <1>3
  <2> QED BY <1>1, <1>3, <2>1 DEF Place
<1>4. CASE ~(i + k < n)
  <2>1. i + k - n \in 0 .. n - 1 /\ (i + k - n) + n = i + k
    BY <1>4
  <2>2. ((i + k - n) + n) % n = i + k - n
    BY <1>2, <2>1
  <2> QED BY <1>4, <2>1, <2>2 DEF Place
<1> QED BY <1>3, <1>4

LEMMA Places ==
  ASSUME NEW n \in Nat \ {0}, NEW i \in 0 .. n - 1
  PROVE  /\ Place(n, i, 0) = i /\ Place(n, i, n) = i
         /\ \A k \in 0 .. n : Place(n, i, k) \in 0 .. n - 1
         /\ \A k, l \in 0 .. n - 1 : Place(n, i, k) = Place(n, i, l) => k = l
BY PlaceValue

\* Moving the head on by one.
LEMMA NextPlace ==
  ASSUME NEW n \in Nat \ {0}, NEW i \in 0 .. n - 1
  PROVE  /\ Place(n, i, 1) \in 0 .. n - 1
         /\ \A k \in 0 .. n - 1 : Place(n, Place(n, i, 1), k) = Place(n, i, k + 1)
         /\ Place(n, Place(n, i, 1), n - 1) = i
         /\ \A k \in 0 .. n - 1 : Place(n, Place(n, i, k), 1) = Place(n, i, k + 1)
<1>1. 1 \in 0 .. n /\ n - 1 \in 0 .. n
  OBVIOUS
<1>2. Place(n, i, 1) = (IF i + 1 < n THEN i + 1 ELSE i + 1 - n) /\ Place(n, i, 1) \in 0 .. n - 1
  BY <1>1, PlaceValue
<1>3. ASSUME NEW k \in 0 .. n - 1
      PROVE  Place(n, Place(n, i, 1), k) = Place(n, i, k + 1)
  <2>1. k \in 0 .. n /\ k + 1 \in 0 .. n
    OBVIOUS
  <2> QED BY <1>2, <2>1, PlaceValue
<1>4. Place(n, Place(n, i, 1), n - 1) = i
  BY <1>1, <1>2, PlaceValue
<1>5. ASSUME NEW k \in 0 .. n - 1
      PROVE  Place(n, Place(n, i, k), 1) = Place(n, i, k + 1)
  <2>1. k \in 0 .. n /\ k + 1 \in 0 .. n
    OBVIOUS
  <2>2. Place(n, i, k) \in 0 .. n - 1
    BY <2>1, Places
  <2> QED BY <1>1, <2>1, <2>2, PlaceValue
<1> QED BY <1>2, <1>3, <1>4, <1>5

\* The distance from i to j, as the driver would compute it.
LEMMA Distance ==
  ASSUME NEW n \in Nat \ {0}, NEW i \in 0 .. n - 1, NEW k \in 0 .. n - 1
  PROVE  (Place(n, i, k) - i) % n = k
<1>1. \A a \in 0 .. n - 1 : a % n = a
  OBVIOUS
<1>2. \A a \in 0 .. n - 1 : (a - n) % n = a
  OBVIOUS
<1>3. k \in 0 .. n
  OBVIOUS
<1>4. CASE i + k < n
  <2>1. Place(n, i, k) - i = k
    BY <1>3, <1>4, PlaceValue
  <2> QED BY <1>1, <2>1
<1>5. CASE ~(i + k < n)
  <2>1. Place(n, i, k) - i = k - n
    BY <1>3, <1>5, PlaceValue
  <2> QED BY <1>2, <2>1
<1> QED BY <1>4, <1>5

\* One sequence is a prefix of another when they agree as far as it goes.
LEMMA PrefixByElements ==
  ASSUME NEW s \in Seq(Nat), NEW t \in Seq(Nat), Len(s) <= Len(t),
         \A i \in 1 .. Len(s) : s[i] = t[i]
  PROVE  StartsOf(s, t)
<1>1. 1 \in 1 .. Len(t) + 1 /\ Len(s) \in 0 .. Len(t)
  OBVIOUS
<1>2. /\ SubSeq(t, 1, Len(s)) \in Seq(Nat) /\ Len(SubSeq(t, 1, Len(s))) = Len(s)
      /\ \A i \in 1 .. Len(s) : SubSeq(t, 1, Len(s))[i] = t[i]
  BY <1>1, SubSeqProperties
<1>3. s = SubSeq(t, 1, Len(s))
  BY <1>2, SeqEqual
<1> QED BY Zenon, <1>3 DEF StartsOf

LEMMA Appended ==
  ASSUME NEW s \in Seq(Nat), NEW x \in Nat
  PROVE  /\ Append(s, x) \in Seq(Nat) /\ Len(Append(s, x)) = Len(s) + 1
         /\ Append(s, x)[Len(s) + 1] = x
         /\ \A i \in 1 .. Len(s) : Append(s, x)[i] = s[i]
OBVIOUS
-----------------------------------------------------------------------------
(***************************************************************************)
(* The receive ring.                                                       *)
(***************************************************************************)
\* The types of the receive side.
RxTypes ==
  /\ rx \in [RxDesc -> [dd : BOOLEAN, frame : Nat, kind : Kinds \cup {"none"}]]
  /\ rx_tail \in RxDesc /\ RDH \in RxDesc /\ RDT \in RxDesc
  /\ inbox \in Seq(Nat) /\ polled \in Seq(Nat)

\* Frames stored and not consumed, and the descriptors from rx_tail on.
Unread == Len(inbox) - Len(polled)
RxAt(k) == rx[Place(NRx, rx_tail, k)]

\* The inductive invariant: exactly the unread frames lie from rx_tail on, the
\* card owns the rest but one, and a frame under way in the interrupt is there.
RxInv ==
  /\ RxTypes
  /\ Unread \in 0 .. NRx - 1
  /\ RDH = Place(NRx, rx_tail, Unread) /\ RDT = Place(NRx, rx_tail, NRx - 1)
  /\ \A i \in 1 .. Len(polled) : polled[i] = inbox[i]
  /\ \A k \in 0 .. Unread - 1 : RxAt(k).dd /\ RxAt(k).frame = inbox[Len(polled) + 1 + k]
  /\ \A k \in Unread .. NRx - 1 : ~RxAt(k).dd
  /\ intr \in {"handler", "drop", "give"} => Unread > 0

LEMMA RxInit == e1000_init => RxInv
<1> SUFFICES ASSUME e1000_init PROVE RxInv
  OBVIOUS
<1>1. /\ rx = [i \in RxDesc |-> [dd |-> FALSE, frame |-> 0, kind |-> "none"]]
      /\ rx_tail = 0 /\ RDH = 0 /\ RDT = NRx - 1
      /\ inbox = <<>> /\ polled = <<>> /\ intr = "boot"
  BY DEF e1000_init, init_rx, NRx
<1>2. RxTypes
  BY <1>1 DEF RxTypes, RxDesc, NRx
<1>3. Unread = 0 /\ Len(polled) = 0
  BY <1>1 DEF Unread
<1>4. NRx \in Nat \ {0} /\ RxDesc = 0 .. NRx - 1 /\ 0 \in 0 .. NRx - 1 /\ NRx - 1 \in 0 .. NRx
  BY DEF NRx, RxDesc
<1>5. /\ Place(NRx, 0, 0) = 0 /\ Place(NRx, 0, NRx - 1) = NRx - 1
      /\ \A k \in 0 .. NRx - 1 : Place(NRx, 0, k) \in RxDesc
  <2>1. \A k \in 0 .. NRx - 1 : k \in 0 .. NRx
    BY <1>4
  <2> QED BY <1>4, <2>1, Places, PlaceValue
<1>6. \A k \in Unread .. NRx - 1 : ~RxAt(k).dd
  BY <1>1, <1>3, <1>5 DEF RxAt
<1>7. \A k \in 0 .. Unread - 1 : FALSE
  BY <1>3
<1>8. \A i \in 1 .. Len(polled) : FALSE
  BY <1>3
<1> QED BY <1>1, <1>2, <1>3, <1>4, <1>5, <1>6, <1>7, <1>8 DEF RxInv

\* The card stores a frame behind the unread ones.
LEMMA RxReceives ==
  ASSUME RxInv, NEW kind \in Kinds, CardReceives(kind)
  PROVE  RxInv'
<1> DEFINE d == [dd |-> TRUE, frame |-> Len(inbox) + 1, kind |-> kind]
<1>0. PICK N \in Nat \ {0}, U \in Int : N = NRx /\ U = Unread
  BY DEF RxInv, NRx
<1>1. /\ RxDesc = 0 .. N - 1 /\ rx_tail \in 0 .. N - 1
      /\ U \in 0 .. N - 1 /\ Len(inbox) \in Nat /\ Len(polled) \in Nat
      /\ inbox \in Seq(Nat) /\ polled \in Seq(Nat) /\ Len(inbox) = Len(polled) + U
  BY <1>0 DEF RxInv, RxTypes, NRx, RxDesc, Unread
<1>14. RDH = Place(N, rx_tail, U) /\ RDT = Place(N, rx_tail, N - 1)
  BY <1>0 DEF RxInv
<1>2. /\ RDH # RDT /\ rx' = [rx EXCEPT ![RDH] = d] /\ RDH' = NextRx(RDH)
      /\ inbox' = Append(inbox, Len(inbox) + 1)
      /\ UNCHANGED <<rx_tail, RDT, polled, intr>>
  BY DEF CardReceives
<1>3. U < N - 1
  <2>1. U # N - 1
    BY <1>2, <1>14, Zenon
  <2> QED BY <1>1, <2>1
<1>4. RDH' = Place(N, rx_tail, U + 1) /\ RDH' \in RxDesc
  <2>1. RDH' = Place(N, RDH, 1)
    BY <1>0, <1>2 DEF NextRx, Place, NRx
  <2>2. U \in 0 .. N - 1 /\ U + 1 \in 0 .. N
    BY <1>1
  <2> QED BY <1>1, <1>14, <2>1, <2>2, NextPlace, Places
<1>5. RxTypes'
  <2>1. d \in [dd : BOOLEAN, frame : Nat, kind : Kinds \cup {"none"}]
    BY <1>1
  <2> HIDE DEF d
  <2>2. rx' \in [RxDesc -> [dd : BOOLEAN, frame : Nat, kind : Kinds \cup {"none"}]]
    BY <1>2, <2>1 DEF RxInv, RxTypes
  <2>3. inbox' \in Seq(Nat)
    BY <1>1, <1>2, Appended
  <2> QED BY <1>2, <1>4, <2>2, <2>3 DEF RxInv, RxTypes
<1>6. Unread' = U + 1 /\ Len(inbox') = Len(inbox) + 1
  BY <1>1, <1>2, Appended DEF Unread
<1>7. /\ inbox'[Len(inbox) + 1] = Len(inbox) + 1
      /\ \A i \in 1 .. Len(inbox) : inbox'[i] = inbox[i]
  BY <1>1, <1>2, Appended
<1>8. ASSUME NEW k \in 0 .. N - 1
      PROVE  RxAt(k)' = IF k = U THEN d ELSE RxAt(k)
  <2>1. k \in 0 .. N /\ U \in 0 .. N
    BY <1>1
  <2>2. /\ Place(N, rx_tail, k) \in RxDesc
        /\ Place(N, rx_tail, k) = RDH <=> k = U
    <3>1. \A l \in 0 .. N - 1 : Place(N, rx_tail, k) = Place(N, rx_tail, l) => k = l
      BY <1>1, Places
    <3>2. Place(N, rx_tail, k) \in 0 .. N - 1
      BY <1>1, <2>1, Places
    <3> QED BY <1>1, <1>14, <3>1, <3>2
  <2> HIDE DEF d
  <2> QED BY <1>0, <1>2, <2>2 DEF RxInv, RxTypes, RxAt
<1>9. ASSUME NEW k \in 0 .. Unread' - 1
      PROVE  RxAt(k)'.dd /\ RxAt(k)'.frame = inbox'[Len(polled') + 1 + k]
  <2>1. k \in 0 .. N - 1 /\ k \in 0 .. U /\ polled' = polled
    BY <1>1, <1>2, <1>3, <1>6
  <2>2. CASE k = U
    BY <1>1, <1>7, <1>8, <2>1, <2>2
  <2>3. CASE k # U
    <3>1. k \in 0 .. Unread - 1 /\ Len(polled) + 1 + k \in 1 .. Len(inbox)
      BY <1>0, <1>1, <2>1, <2>3
    <3>2. RxAt(k).dd /\ RxAt(k).frame = inbox[Len(polled) + 1 + k]
      BY <3>1 DEF RxInv
    <3> QED BY <1>7, <1>8, <2>1, <2>3, <3>1, <3>2
  <2> QED BY <2>2, <2>3
<1>10. ASSUME NEW k \in Unread' .. N - 1
       PROVE  ~RxAt(k)'.dd
  <2>1. k \in 0 .. N - 1 /\ k \in Unread .. N - 1 /\ k # U
    BY <1>0, <1>1, <1>6
  <2>2. ~RxAt(k).dd
    BY <1>0, <2>1 DEF RxInv
  <2> QED BY <1>8, <2>1, <2>2
<1>11. \A i \in 1 .. Len(polled') : polled'[i] = inbox'[i]
  BY <1>1, <1>2, <1>7 DEF RxInv
<1>12. Unread' \in 0 .. NRx - 1 /\ Unread' > 0
  BY <1>0, <1>1, <1>3, <1>6
<1>13. RDH' = Place(NRx, rx_tail', Unread') /\ RDT' = Place(NRx, rx_tail', NRx - 1)
  BY <1>0, <1>2, <1>4, <1>6, <1>14
<1> HIDE DEF d
<1> QED BY Zenon, <1>0, <1>5, <1>9, <1>10, <1>11, <1>12, <1>13 DEF RxInv, NRx

\* The driver consumes the oldest unread frame and gives its descriptor back.
LEMMA RxGivesBack ==
  ASSUME RxInv, GiveBack
  PROVE  RxInv'
<1>0. PICK N \in Nat \ {0}, U \in Int : N = NRx /\ U = Unread
  BY DEF RxInv, NRx
<1>1. /\ RxDesc = 0 .. N - 1 /\ rx_tail \in 0 .. N - 1
      /\ U \in 0 .. N - 1 /\ Len(inbox) \in Nat /\ Len(polled) \in Nat
      /\ inbox \in Seq(Nat) /\ polled \in Seq(Nat) /\ Len(inbox) = Len(polled) + U
  BY <1>0 DEF RxInv, RxTypes, NRx, RxDesc, Unread
<1>19. rx \in [RxDesc -> [dd : BOOLEAN, frame : Nat, kind : Kinds \cup {"none"}]]
  BY DEF RxInv, RxTypes
<1>2. /\ rx' = [rx EXCEPT ![rx_tail].dd = FALSE] /\ rx_tail' = NextRx(rx_tail)
      /\ RDT' = rx_tail /\ polled' = Append(polled, rx[rx_tail].frame)
      /\ intr = "give" /\ intr' = "poll" /\ UNCHANGED <<RDH, inbox>>
  BY DEF GiveBack
<1>3. U > 0 /\ RDH = Place(N, rx_tail, U)
  BY <1>0, <1>2 DEF RxInv
<1>4. rx_tail' = Place(N, rx_tail, 1)
  BY <1>0, <1>2 DEF NextRx, Place, NRx
<1>5. /\ rx_tail' \in 0 .. N - 1 /\ Place(N, rx_tail', N - 1) = rx_tail
      /\ \A k \in 0 .. N - 1 : Place(N, rx_tail', k) = Place(N, rx_tail, k + 1)
  <2>1. PICK j : j = Place(N, rx_tail, 1)
    OBVIOUS
  <2>2. /\ j \in 0 .. N - 1 /\ Place(N, j, N - 1) = rx_tail
        /\ \A k \in 0 .. N - 1 : Place(N, j, k) = Place(N, rx_tail, k + 1)
    BY <1>1, <2>1, NextPlace
  <2> QED BY <1>4, <2>1, <2>2
<1>6. /\ Place(N, rx_tail, 0) = rx_tail
      /\ \A k \in 0 .. N : Place(N, rx_tail, k) \in 0 .. N - 1
      /\ \A k, l \in 0 .. N - 1 : Place(N, rx_tail, k) = Place(N, rx_tail, l) => k = l
  <2>1. rx_tail \in 0 .. N - 1
    BY <1>1
  <2>2. Place(N, rx_tail, 0) = rx_tail
    BY <2>1, Places
  <2>3. \A k \in 0 .. N : Place(N, rx_tail, k) \in 0 .. N - 1
    BY <2>1, Places
  <2>4. ASSUME NEW k \in 0 .. N - 1, NEW l \in 0 .. N - 1,
               Place(N, rx_tail, k) = Place(N, rx_tail, l)
        PROVE  k = l
    BY <2>1, <2>4, Places
  <2> QED BY <2>2, <2>3, <2>4
<1>7. RxAt(0) = rx[rx_tail]
  BY <1>0, <1>6 DEF RxAt
<1>8. rx[rx_tail].frame = inbox[Len(polled) + 1] /\ rx[rx_tail].frame \in Nat
  <2>1. 0 \in 0 .. Unread - 1 /\ Len(polled) + 1 + 0 = Len(polled) + 1
    BY <1>0, <1>1, <1>3
  <2>2. RxAt(0).frame = inbox[Len(polled) + 1 + 0]
    BY <2>1 DEF RxInv
  <2> QED BY <1>1, <1>19, <1>7, <2>1, <2>2
<1>9. /\ polled' \in Seq(Nat) /\ Len(polled') = Len(polled) + 1
      /\ polled'[Len(polled) + 1] = inbox[Len(polled) + 1]
      /\ \A i \in 1 .. Len(polled) : polled'[i] = polled[i]
  <2>1. PICK x \in Nat : x = rx[rx_tail].frame
    BY <1>8
  <2> QED BY <1>1, <1>2, <1>8, <2>1, Appended
<1>10. Unread' = U - 1
  <2>1. inbox' = inbox /\ Len(polled') = Len(polled) + 1
    BY <1>2, <1>9
  <2> QED BY <1>1, <2>1 DEF Unread
<1>11. RxTypes'
  <2>1. [rx[rx_tail] EXCEPT !.dd = FALSE] \in [dd : BOOLEAN, frame : Nat, kind : Kinds \cup {"none"}]
    <3>1. PICK d \in [dd : BOOLEAN, frame : Nat, kind : Kinds \cup {"none"}] : d = rx[rx_tail]
      BY Zenon, <1>1, <1>19
    <3>2. [d EXCEPT !.dd = FALSE] \in [dd : BOOLEAN, frame : Nat, kind : Kinds \cup {"none"}]
      BY Zenon
    <3> QED BY Zenon, <3>1, <3>2
  <2>2. rx' \in [RxDesc -> [dd : BOOLEAN, frame : Nat, kind : Kinds \cup {"none"}]]
    BY <1>1, <1>2, <1>19, <2>1
  <2> QED BY Zenon, <1>1, <1>2, <1>5, <1>9, <2>2 DEF RxInv, RxTypes
<1>12. /\ ~RxAt(N - 1)'.dd
       /\ \A k \in 0 .. N - 2 : RxAt(k)' = RxAt(k + 1)
  <2>1. RxAt(N - 1)' = rx'[rx_tail]
    BY <1>0, <1>5 DEF RxAt
  <2>2. ~rx'[rx_tail].dd
    BY <1>1, <1>2, <1>19
  <2>3. ASSUME NEW k \in 0 .. N - 2
        PROVE  RxAt(k)' = RxAt(k + 1)
    <3>1. k \in 0 .. N - 1 /\ k + 1 \in 0 .. N - 1 /\ k + 1 \in 0 .. N /\ k + 1 # 0 /\ 0 \in 0 .. N - 1
      OBVIOUS
    <3>2. Place(N, rx_tail', k) = Place(N, rx_tail, k + 1)
      BY <1>5, <3>1
    <3>3. Place(N, rx_tail, k + 1) # rx_tail /\ Place(N, rx_tail, k + 1) \in RxDesc
      BY Zenon, <1>1, <1>6, <3>1
    <3> QED BY <1>0, <1>1, <1>2, <1>19, <3>2, <3>3 DEF RxAt
  <2> QED BY <2>1, <2>2, <2>3
<1>13. ASSUME NEW k \in 0 .. Unread' - 1
       PROVE  RxAt(k)'.dd /\ RxAt(k)'.frame = inbox'[Len(polled') + 1 + k]
  <2>1. /\ k \in 0 .. N - 2 /\ k + 1 \in 0 .. Unread - 1
        /\ Len(polled') + 1 + k = Len(polled) + 1 + (k + 1)
    <3>1. k \in 0 .. U - 2 /\ Unread = U
      BY <1>0, <1>1, <1>10
    <3>2. Len(polled) \in Nat
      BY <1>1
    <3>3. Len(polled') = Len(polled) + 1
      BY <1>9
    <3>4. U \in 0 .. N - 1
      BY <1>0, <1>1
    <3>5. k \in 0 .. N - 2 /\ k + 1 \in 0 .. Unread - 1
      BY <3>1, <3>4
    <3> QED BY <3>2, <3>3, <3>5
  <2>2. RxAt(k + 1).dd /\ RxAt(k + 1).frame = inbox[Len(polled) + 1 + (k + 1)]
    BY <2>1 DEF RxInv
  <2> QED BY <1>2, <1>12, <2>1, <2>2
<1>14. ASSUME NEW k \in Unread' .. N - 1
       PROVE  ~RxAt(k)'.dd
  <2>1. CASE k = N - 1
    BY <1>12, <2>1
  <2>2. CASE k # N - 1
    <3>1. k \in 0 .. N - 2 /\ k + 1 \in Unread .. NRx - 1
      BY <1>0, <1>1, <1>3, <1>10, <2>2
    <3>2. ~RxAt(k + 1).dd
      BY <3>1 DEF RxInv
    <3> QED BY <1>12, <3>1, <3>2
  <2> QED BY <2>1, <2>2
<1>15. \A i \in 1 .. Len(polled') : polled'[i] = inbox'[i]
  <2> SUFFICES ASSUME NEW i \in 1 .. Len(polled') PROVE polled'[i] = inbox'[i]
    OBVIOUS
  <2>1. CASE i = Len(polled) + 1
    BY <1>2, <1>9, <2>1
  <2>2. CASE i # Len(polled) + 1
    <3>1. i \in 1 .. Len(polled)
      BY <1>1, <1>9, <2>2
    <3> QED BY <1>2, <1>9, <3>1 DEF RxInv
  <2> QED BY <2>1, <2>2
<1>16. /\ Unread' \in 0 .. N - 1
       /\ RDH' = Place(N, rx_tail', Unread') /\ RDT' = Place(N, rx_tail', N - 1)
  <2>1. U - 1 \in 0 .. N - 1 /\ (U - 1) + 1 = U
    BY <1>1, <1>3
  <2>2. Place(N, rx_tail', U - 1) = Place(N, rx_tail, (U - 1) + 1)
    BY <1>5, <2>1
  <2> QED BY <1>2, <1>3, <1>5, <1>10, <2>1, <2>2
<1>17. intr' \notin {"handler", "drop", "give"}
  BY <1>2
<1>18. NRx' = N
  BY <1>0 DEF NRx
<1> QED BY Zenon, <1>0, <1>11, <1>13, <1>14, <1>15, <1>16, <1>17, <1>18 DEF RxInv

\* Every other step leaves the receive ring alone; the interrupt goes on to a
\* frame only when e1000_poll found one.
LEMMA RxPreserves == RxInv /\ [Next]_vars => RxInv'
<1> SUFFICES ASSUME RxInv, [Next]_vars PROVE RxInv'
  OBVIOUS
<1>1. ASSUME UNCHANGED rxvars,
             intr' \in {"handler", "drop", "give"} =>
               intr \in {"handler", "drop", "give"} \/ rx[rx_tail].dd
      PROVE  RxInv'
  <2>1. UNCHANGED <<rx, rx_tail, RDH, RDT, inbox, polled>>
    BY <1>1 DEF rxvars
  <2>2. rx[rx_tail].dd => Unread > 0
    <3>1. NRx \in Nat \ {0} /\ rx_tail \in 0 .. NRx - 1 /\ Unread \in 0 .. NRx - 1
      BY DEF RxInv, RxTypes, NRx, RxDesc
    <3>2. RxAt(0) = rx[rx_tail]
      BY Zenon, <3>1, Places DEF RxAt
    <3>3. Unread = 0 => 0 \in Unread .. NRx - 1
      BY <3>1
    <3>4. Unread = 0 => ~RxAt(0).dd
      BY <3>3 DEF RxInv
    <3> QED BY <3>1, <3>2, <3>4
  <2>3. Unread' = Unread /\ \A k : RxAt(k)' = RxAt(k)
    BY <2>1 DEF Unread, RxAt, NRx
  <2>4. intr' \in {"handler", "drop", "give"} => Unread > 0
    BY <1>1, <2>2 DEF RxInv
  <2>5. RxTypes'
    BY <2>1 DEF RxInv, RxTypes
  <2> QED BY <2>1, <2>3, <2>4, <2>5 DEF RxInv, NRx
<1>2. CASE \E type \in EtherTypes : ethernet_register(type)
  BY <1>1, <1>2 DEF ethernet_register
<1>3. CASE BootDone \/ TimerInterrupt \/ PollDone \/ InterruptReturn
  BY <1>1, <1>3 DEF BootDone, TimerInterrupt, PollDone, InterruptReturn
<1>4. CASE e1000_poll \/ ethernet_rx
  BY <1>1, <1>4 DEF e1000_poll, ethernet_rx
<1>5. CASE CardTransmits \/ UNCHANGED vars
  BY <1>1, <1>5 DEF CardTransmits, vars
<1>6. ASSUME NEW c \in Contexts, ethernet_send(c) \/ SendStep(c)
      PROVE  RxInv'
  <2>1. UNCHANGED rxvars /\ intr' = intr
    BY <1>6 DEF ethernet_send, SendStep, SendFill, SendTimeout, SendArm, SendAdvance, SendKick
  <2> QED BY <1>1, <2>1
<1> QED BY <1>2, <1>3, <1>4, <1>5, <1>6, RxReceives, RxGivesBack DEF Next, InterruptStep, Contexts
-----------------------------------------------------------------------------
(***************************************************************************)
(* The transmit side: types, then the heap buffers.                        *)
(***************************************************************************)
TxTypes ==
  /\ tx \in [TxDesc -> [dd : BOOLEAN, frame : Nat]]
  /\ tx_tail \in TxDesc /\ TDH \in TxDesc /\ TDT \in TxDesc
  /\ snd \in [Contexts -> Senders]
  /\ made \in Nat /\ heap \in Int
  /\ sent \in Seq(Nat) /\ transmitted \in Seq(Nat)

\* The steps that leave the transmit side alone.
Elsewhere ==
  \/ \E type \in EtherTypes : ethernet_register(type)
  \/ BootDone \/ TimerInterrupt \/ InterruptStep
  \/ \E kind \in Kinds : CardReceives(kind)
  \/ UNCHANGED vars

LEMMA ElsewhereKeeps ==
  ASSUME Elsewhere
  PROVE  UNCHANGED <<tx, tx_tail, TDH, TDT, made, sent, transmitted, snd>>
BY DEF Elsewhere, ethernet_register, BootDone, TimerInterrupt, InterruptStep, e1000_poll,
       ethernet_rx, GiveBack, PollDone, InterruptReturn, CardReceives, vars, txvars

\* Next, by which side a step is of.
LEMMA NextCases ==
  ASSUME [Next]_vars
  PROVE  Elsewhere \/ CardTransmits \/ \E c \in Contexts : ethernet_send(c) \/ SendStep(c)
BY DEF Next, Elsewhere, Contexts

LEMMA TxPlaces ==
  /\ NTx \in Nat \ {0} /\ TxDesc = 0 .. NTx - 1 /\ 0 \in TxDesc
  /\ \A i \in TxDesc : NextTx(i) \in TxDesc /\ NextTx(i) = Place(NTx, i, 1)
<1>1. NTx \in Nat \ {0} /\ TxDesc = 0 .. NTx - 1 /\ 0 \in TxDesc
  BY DEF NTx, TxDesc
<1>2. ASSUME NEW i \in TxDesc
      PROVE  NextTx(i) \in TxDesc /\ NextTx(i) = Place(NTx, i, 1)
  <2>1. NextTx(i) = Place(NTx, i, 1)
    BY DEF NextTx, Place, NTx
  <2> QED BY <1>1, <2>1, NextPlace
<1> QED BY <1>1, <1>2

LEMMA TxTyped == TxTypes /\ [Next]_vars => TxTypes'
<1> SUFFICES ASSUME TxTypes, [Next]_vars PROVE TxTypes'
  OBVIOUS
<1>1. CASE Elsewhere
  <2>1. heap' \in Int
    BY <1>1 DEF Elsewhere, ethernet_register, BootDone, TimerInterrupt, InterruptStep,
                e1000_poll, ethernet_rx, GiveBack, PollDone, InterruptReturn, CardReceives,
                vars, TxTypes
  <2> QED BY <1>1, <2>1, ElsewhereKeeps DEF TxTypes
<1>2. CASE CardTransmits
  <2>1. /\ transmitted' = Append(transmitted, tx[TDH].frame) /\ TDH' = NextTx(TDH)
        /\ tx' = [tx EXCEPT ![TDH].dd = TRUE]
        /\ UNCHANGED <<tx_tail, TDT, made, sent, snd, heap>>
    BY <1>2 DEF CardTransmits
  <2>2. tx[TDH].frame \in Nat
    BY DEF TxTypes
  <2>3. transmitted' \in Seq(Nat)
    BY <2>1, <2>2 DEF TxTypes
  <2>4. tx' \in [TxDesc -> [dd : BOOLEAN, frame : Nat]]
    BY Zenon, <2>1 DEF TxTypes
  <2>5. TDH' \in TxDesc
    BY <2>1, TxPlaces DEF TxTypes
  <2> QED BY <2>1, <2>3, <2>4, <2>5 DEF TxTypes
<1>3. ASSUME NEW c \in Contexts, ethernet_send(c) \/ SendStep(c)
      PROVE  TxTypes'
  <2>0. Idle \in Senders /\ snd[c] \in Senders
    BY TxPlaces DEF Idle, Senders, TxTypes
  <2>1. CASE ethernet_send(c)
    <3>1. [pc |-> "wait", idx |-> tx_tail, frame |-> made + 1] \in Senders
      BY DEF Senders, TxTypes
    <3> QED BY <2>1, <3>1 DEF ethernet_send, TxTypes
  <2>2. CASE SendFill(c)
    <3>1. [snd[c] EXCEPT !.pc = "filled"] \in Senders /\ snd[c].frame \in Nat /\ snd[c].idx \in TxDesc
      BY <2>0 DEF Senders
    <3>2. snd' \in [Contexts -> Senders]
      BY <2>2, <3>1 DEF SendFill, TxTypes
    <3>3. tx' \in [TxDesc -> [dd : BOOLEAN, frame : Nat]]
      BY Zenon, <2>2, <3>1 DEF SendFill, TxTypes
    <3> QED BY <2>2, <3>2, <3>3 DEF SendFill, TxTypes
  <2>3. CASE SendTimeout(c)
    BY <2>0, <2>3 DEF SendTimeout, TxTypes, txvars
  <2>4. CASE SendArm(c)
    <3>1. [snd[c] EXCEPT !.pc = "armed"] \in Senders /\ snd[c].idx \in TxDesc
      BY <2>0 DEF Senders
    <3>2. snd' \in [Contexts -> Senders]
      BY <2>4, <3>1 DEF SendArm, TxTypes
    <3>3. tx' \in [TxDesc -> [dd : BOOLEAN, frame : Nat]]
      BY Zenon, <2>4, <3>1 DEF SendArm, TxTypes
    <3> QED BY <2>4, <3>2, <3>3 DEF SendArm, TxTypes
  <2>5. CASE SendAdvance(c)
    <3>1. [snd[c] EXCEPT !.pc = "advanced"] \in Senders /\ snd[c].idx \in TxDesc
      BY <2>0 DEF Senders
    <3>2. snd' \in [Contexts -> Senders]
      BY <2>5, <3>1 DEF SendAdvance, TxTypes
    <3>3. tx_tail' \in TxDesc
      BY <2>5, <3>1, TxPlaces DEF SendAdvance
    <3> QED BY <2>5, <3>2, <3>3 DEF SendAdvance, TxTypes
  <2>6. CASE SendKick(c)
    <3>1. snd[c].frame \in Nat
      BY <2>0 DEF Senders
    <3>2. sent' \in Seq(Nat)
      BY <2>6, <3>1 DEF SendKick, TxTypes
    <3> QED BY <2>0, <2>6, <3>2 DEF SendKick, TxTypes
  <2> QED BY <1>3, <2>1, <2>2, <2>3, <2>4, <2>5, <2>6 DEF SendStep
<1> QED BY <1>1, <1>2, <1>3, NextCases

LEMMA TxTypesInit == e1000_init => TxTypes
<1> SUFFICES ASSUME e1000_init PROVE TxTypes
  OBVIOUS
<1>1. Idle \in Senders
  BY TxPlaces DEF Idle, Senders
<1> QED BY <1>1, TxPlaces DEF e1000_init, init_tx, TxTypes, Contexts

\* One buffer per call in progress, and one for the frame a handler looks at.
Busy(c) == IF snd[c].pc # "idle" THEN 1 ELSE 0
Handled == IF intr \in {"handler", "drop"} THEN 1 ELSE 0
HeapIs == heap = Busy("call") + Busy("intr") + Handled

LEMMA HeapPreserves == TxTypes /\ HeapIs /\ [Next]_vars => HeapIs'
<1> SUFFICES ASSUME TxTypes, HeapIs, [Next]_vars PROVE HeapIs'
  OBVIOUS
<1>1. CASE Elsewhere
  <2>1. Busy("call")' = Busy("call") /\ Busy("intr")' = Busy("intr")
    BY <1>1, ElsewhereKeeps DEF Busy
  <2>2. heap' - Handled' = heap - Handled
    BY <1>1 DEF Elsewhere, ethernet_register, BootDone, TimerInterrupt, InterruptStep,
                e1000_poll, ethernet_rx, GiveBack, PollDone, InterruptReturn, CardReceives,
                vars, TxTypes, Handled
  <2>3. Handled \in Int /\ Handled' \in Int /\ Busy("call") \in Int /\ Busy("intr") \in Int
    BY DEF Handled, Busy
  <2>4. heap \in Int /\ heap' \in Int
    BY TxTyped DEF TxTypes
  <2>5. heap' = Busy("call") + Busy("intr") + Handled'
    BY <2>2, <2>3, <2>4 DEF HeapIs
  <2> QED BY <2>1, <2>5 DEF HeapIs
<1>2. CASE CardTransmits
  BY <1>2 DEF CardTransmits, HeapIs, Busy, Handled
<1>3. ASSUME NEW c \in Contexts, ethernet_send(c) \/ SendStep(c)
      PROVE  HeapIs'
  <2>0. /\ snd \in [Contexts -> Senders] /\ heap \in Int /\ Idle.pc = "idle"
        /\ intr' = intr /\ Handled' = Handled
    BY <1>3 DEF TxTypes, Idle, ethernet_send, SendStep, SendFill, SendTimeout, SendArm,
                SendAdvance, SendKick, Handled
  <2>1. \A o \in Contexts \ {c} : Busy(o)' = Busy(o)
    BY <1>3, <2>0 DEF ethernet_send, SendStep, SendFill, SendTimeout, SendArm, SendAdvance,
                      SendKick, Busy
  <2>2. heap' - Busy(c)' = heap - Busy(c)
    <3>1. CASE ethernet_send(c)
      BY <2>0, <3>1 DEF ethernet_send, Busy
    <3>2. CASE SendFill(c) \/ SendArm(c) \/ SendAdvance(c)
      <4>1. snd[c].pc # "idle" /\ snd'[c].pc # "idle" /\ heap' = heap
        BY <2>0, <3>2 DEF SendFill, SendArm, SendAdvance, Senders
      <4> QED BY <4>1 DEF Busy
    <3>3. CASE SendTimeout(c) \/ SendKick(c)
      <4>1. snd[c].pc # "idle" /\ snd'[c].pc = "idle" /\ heap' = heap - 1
        BY <2>0, <3>3 DEF SendTimeout, SendKick, Senders
      <4> QED BY <2>0, <4>1 DEF Busy
    <3> QED BY <1>3, <3>1, <3>2, <3>3 DEF SendStep
  <2>3. \A o : Busy(o) \in Int /\ Busy(o)' \in Int
    BY DEF Busy
  <2>4. heap \in Int /\ heap' \in Int /\ Handled \in Int
    BY TxTyped DEF TxTypes, Handled
  <2>5. c = "call" \/ c = "intr"
    BY DEF Contexts
  <2>6. CASE c = "call"
    <3>1. Busy("intr")' = Busy("intr")
      BY <2>1, <2>6 DEF Contexts
    <3>2. heap' = Busy("call")' + Busy("intr") + Handled
      <4>1. heap' - Busy("call")' = heap - Busy("call")
        BY <2>2, <2>6
      <4>2. /\ Busy("call") \in Int /\ Busy("call")' \in Int
            /\ Busy("intr") \in Int /\ Busy("intr")' \in Int
        BY <2>3
      <4>3. PICK b1 \in Int, b2 \in Int, o \in Int, h \in Int, h1 \in Int, h2 \in Int :
              h = Handled /\ h1 = heap /\ h2 = heap' /\ b1 = Busy("call") /\ b2 = Busy("call")' /\ o = Busy("intr")
        BY <2>4, <4>2
      <4>4. h2 - b2 = h1 - b1
        BY <4>1, <4>3, Zenon
      <4>6. h1 = b1 + o + h
        BY <4>3, Zenon DEF HeapIs
      <4>5. h2 = b2 + o + h
        BY <4>4, <4>6
      <4> QED BY <4>3, <4>5, Zenon
    <3> QED BY <2>0, <3>1, <3>2 DEF HeapIs
  <2>7. CASE c = "intr"
    <3>1. Busy("call")' = Busy("call")
      BY <2>1, <2>7 DEF Contexts
    <3>2. heap' = Busy("call") + Busy("intr")' + Handled
      <4>1. heap' - Busy("intr")' = heap - Busy("intr")
        BY <2>2, <2>7
      <4>2. /\ Busy("call") \in Int /\ Busy("call")' \in Int
            /\ Busy("intr") \in Int /\ Busy("intr")' \in Int
        BY <2>3
      <4>3. PICK b1 \in Int, b2 \in Int, o \in Int, h \in Int, h1 \in Int, h2 \in Int :
              h = Handled /\ h1 = heap /\ h2 = heap' /\ b1 = Busy("intr") /\ b2 = Busy("intr")' /\ o = Busy("call")
        BY <2>4, <4>2
      <4>4. h2 - b2 = h1 - b1
        BY <4>1, <4>3, Zenon
      <4>6. h1 = o + b1 + h
        BY <4>3, Zenon DEF HeapIs
      <4>5. h2 = o + b2 + h
        BY <4>4, <4>6
      <4> QED BY <4>3, <4>5, Zenon
    <3> QED BY <2>0, <3>1, <3>2 DEF HeapIs
  <2> QED BY <2>5, <2>6, <2>7
<1> QED BY <1>1, <1>2, <1>3, NextCases

\* No frame buffer is lost: the heap holds one for each call of ethernet_send
\* in progress and for the frame a handler looks at, whatever fails, times out
\* or is interrupted, nested sends included.
THEOREM NoBufferIsLost == Spec => []BuffersAreFreed
<1>1. e1000_init => TxTypes /\ HeapIs
  <2> SUFFICES ASSUME e1000_init PROVE HeapIs
    BY TxTypesInit
  <2>1. heap = 0 /\ snd = [c \in Contexts |-> Idle] /\ intr = "boot" /\ Idle.pc = "idle"
    BY DEF e1000_init, Contexts, Idle
  <2>2. snd["call"].pc = "idle" /\ snd["intr"].pc = "idle"
    BY <2>1 DEF Contexts
  <2>3. Busy("call") = 0 /\ Busy("intr") = 0 /\ Handled = 0
    BY <2>1, <2>2 DEF Busy, Handled
  <2> QED BY <2>1, <2>3 DEF HeapIs
<1>2. TxTypes /\ HeapIs /\ [Next]_vars => (TxTypes /\ HeapIs)'
  BY TxTyped, HeapPreserves
<1>3. HeapIs => BuffersAreFreed
  <2> SUFFICES ASSUME HeapIs PROVE BuffersAreFreed
    OBVIOUS
  <2> DEFINE B == {c \in {"call", "intr"} : snd[c].pc # "idle"}
  <2>1. Cardinality(B) = Busy("call") + Busy("intr")
    <3>1. CASE snd["call"].pc = "idle" /\ snd["intr"].pc = "idle"
      <4>1. B = {}
        BY <3>1
      <4> QED BY <3>1, <4>1, FS_EmptySet DEF Busy
    <3>2. CASE snd["call"].pc # "idle" /\ snd["intr"].pc = "idle"
      <4>1. B = {"call"}
        BY Zenon, <3>2
      <4> QED BY <3>2, <4>1, FS_Singleton DEF Busy
    <3>3. CASE snd["call"].pc = "idle" /\ snd["intr"].pc # "idle"
      <4>1. B = {"intr"}
        BY Zenon, <3>3
      <4> QED BY <3>3, <4>1, FS_Singleton DEF Busy
    <3>4. CASE snd["call"].pc # "idle" /\ snd["intr"].pc # "idle"
      <4>1. B = {"call"} \cup {"intr"} /\ "intr" \notin {"call"}
        BY Zenon, <3>4
      <4>2. IsFiniteSet({"call"}) /\ Cardinality({"call"}) = 1
        BY Zenon, FS_Singleton
      <4>3. Cardinality(B) = 2
        BY <4>1, <4>2, FS_AddElement
      <4>4. Busy("call") = 1 /\ Busy("intr") = 1
        BY Zenon, <3>4 DEF Busy
      <4> HIDE DEF B
      <4> QED BY <4>3, <4>4
    <3> QED BY Zenon, <3>1, <3>2, <3>3, <3>4
  <2> HIDE DEF B
  <2>2. BuffersAreFreed <=> heap = Cardinality(B) + Handled
    BY Zenon DEF B, BuffersAreFreed, Handled
  <2> QED BY <2>1, <2>2 DEF HeapIs
<1> QED BY <1>1, <1>2, <1>3, PTL DEF Spec
-----------------------------------------------------------------------------
(***************************************************************************)
(* The transmit ring.                                                      *)
(***************************************************************************)
\* Frames handed to the card and not transmitted, and the descriptors from the
\* card's head on.
Pending == Len(sent) - Len(transmitted)
TxAt(k) == tx[Place(NTx, TDH, k)]
Armed == \E c \in Contexts : snd[c].pc \in {"armed", "advanced"}

\* Without nested sends one call of e1000_send is in progress at most.
OneSender ==
  /\ snd["call"].pc = "idle" \/ snd["intr"].pc = "idle"
  /\ snd["intr"].pc # "idle" => intr \in {"handler", "tick"}

\* What a call in progress has done: it works on the descriptor the card will
\* come to next, which is not pending.
Sending(c) ==
  /\ snd[c].pc # "idle" => snd[c].idx = TDT
  /\ snd[c].pc \in {"filled", "armed", "advanced"} =>
       Pending < NTx /\ tx[TDT].frame = snd[c].frame
  /\ snd[c].pc \in {"armed", "advanced"} => ~tx[TDT].dd
  /\ snd[c].pc = "advanced" => tx_tail = NextTx(TDT)

\* Exactly the pending frames lie from TDH on; all other descriptors are free
\* but the one being armed.  A full ring looks empty to the card (TDT = TDH).
RingInv ==
  /\ Pending \in 0 .. NTx /\ TDT = Place(NTx, TDH, Pending)
  /\ \A i \in 1 .. Len(transmitted) : transmitted[i] = sent[i]
  /\ \A k \in 0 .. Pending - 1 : ~TxAt(k).dd /\ TxAt(k).frame = sent[Len(transmitted) + 1 + k]
  /\ \A k \in Pending .. NTx - 1 : TxAt(k).dd \/ (k = Pending /\ Armed)

TailInv == (\A c \in Contexts : snd[c].pc # "advanced") => tx_tail = TDT

\* The inductive invariant of the transmit ring.
TxInv == /\ TxTypes /\ OneSender /\ RingInv /\ TailInv
         /\ \A c \in Contexts : Sending(c)

LEMMA TxInit == e1000_init => TxInv
<1> SUFFICES ASSUME e1000_init PROVE TxInv
  OBVIOUS
<1>1. /\ tx = [i \in TxDesc |-> [dd |-> TRUE, frame |-> 0]]
      /\ tx_tail = 0 /\ TDH = 0 /\ TDT = 0
      /\ snd = [c \in Contexts |-> Idle] /\ sent = <<>> /\ transmitted = <<>>
  BY DEF e1000_init, init_tx, Contexts
<1>2. \A c \in Contexts : snd[c].pc = "idle"
  BY Zenon, <1>1 DEF Idle
<1>3. Pending = 0 /\ Len(transmitted) = 0
  BY <1>1 DEF Pending
<1>4. /\ Place(NTx, 0, 0) = 0
      /\ \A k \in 0 .. NTx - 1 : Place(NTx, 0, k) \in TxDesc
  <2>1. \A k \in 0 .. NTx - 1 : k \in 0 .. NTx
    BY TxPlaces
  <2> QED BY Zenon, <2>1, TxPlaces, Places
<1>5. \A k \in Pending .. NTx - 1 : TxAt(k).dd
  BY Zenon, <1>1, <1>3, <1>4 DEF TxAt
<1>6. RingInv
  BY <1>1, <1>3, <1>4, <1>5, TxPlaces DEF RingInv
<1>7. OneSender /\ \A c \in Contexts : Sending(c)
  BY Zenon, <1>2 DEF OneSender, Sending, Contexts
<1> QED BY Zenon, <1>1, <1>6, <1>7, TxTypesInit DEF TxInv, TailInv

\* When one context sends the other does not.
LEMMA OtherIsIdle ==
  ASSUME TxInv, NEW c \in Contexts, snd[c].pc # "idle"
  PROVE  \A o \in Contexts : snd[o].pc # "idle" => o = c
BY DEF TxInv, OneSender, Contexts

\* A step of one call that leaves the ring alone.
LEMMA CallMoves ==
  ASSUME TxInv, TxTypes', UNCHANGED <<tx, TDH, TDT, sent, transmitted>>,
         NEW c \in Contexts,
         \A o \in Contexts : o # c => snd'[o] = snd[o] /\ snd[o].pc = "idle",
         Armed' <=> Armed, OneSender', TailInv', Sending(c)'
  PROVE  TxInv'
<1>1. RingInv'
  <2>1. Pending' = Pending /\ \A k : TxAt(k)' = TxAt(k)
    BY DEF Pending, TxAt, NTx
  <2>2. NTx' = NTx
    BY DEF NTx
  <2> QED BY Zenon, <2>1, <2>2 DEF TxInv, RingInv
<1>2. ASSUME NEW o \in Contexts
      PROVE  Sending(o)'
  <2>1. CASE o # c
    BY Zenon, <2>1 DEF Sending
  <2> QED BY Zenon, <2>1
<1> QED BY Zenon, <1>1, <1>2 DEF TxInv

LEMMA StartSends ==
  ASSUME Nested = FALSE, TxInv, TxTypes', NEW c \in Contexts, ethernet_send(c)
  PROVE  TxInv'
<1>1. /\ UNCHANGED <<tx, tx_tail, TDH, TDT, sent, transmitted, intr>>
      /\ snd' = [snd EXCEPT ![c] = [pc |-> "wait", idx |-> tx_tail, frame |-> made + 1]]
      /\ snd[c].pc = "idle" /\ MaySend(c) /\ snd \in [Contexts -> Senders]
  BY Zenon DEF ethernet_send, TxInv, TxTypes
<1>2. \A o \in Contexts : snd[o].pc = "idle"
  BY <1>1 DEF MaySend, TxInv, OneSender, Contexts
<1>3. /\ snd'[c].pc = "wait" /\ snd'[c].idx = tx_tail
      /\ \A o \in Contexts : o # c => snd'[o] = snd[o]
  BY <1>1
<1>4. tx_tail = TDT
  BY <1>2 DEF TxInv, TailInv
<1>5. ~Armed /\ ~Armed'
  BY <1>2, <1>3 DEF Armed
<1>6. OneSender'
  <2>1. c = "intr" => intr \in {"handler", "tick"}
    BY <1>1 DEF MaySend
  <2> QED BY <1>1, <1>2, <1>3, <2>1 DEF OneSender, Contexts
<1>7. TailInv' /\ Sending(c)'
  BY Zenon, <1>1, <1>3, <1>4 DEF TailInv, Sending
<1> QED BY Zenon, <1>1, <1>2, <1>3, <1>5, <1>6, <1>7, CallMoves

LEMMA StillOneSender ==
  ASSUME TxInv, NEW c \in Contexts, snd[c].pc # "idle", intr' = intr,
         \A o \in Contexts : o # c => snd'[o] = snd[o]
  PROVE  OneSender'
BY DEF TxInv, OneSender, Contexts

\* The frame given up, and the tail advanced.
LEMMA TimeoutOrAdvanceSends ==
  ASSUME TxInv, TxTypes', NEW c \in Contexts, SendTimeout(c) \/ SendAdvance(c)
  PROVE  TxInv'
<1>0. snd \in [Contexts -> Senders]
  BY DEF TxInv, TxTypes
<1>1. /\ UNCHANGED <<tx, TDH, TDT, sent, transmitted, intr>> /\ snd[c].pc # "idle"
  BY DEF SendTimeout, SendAdvance, txvars
<1>2. \A o \in Contexts : o # c => snd'[o] = snd[o]
  BY <1>0 DEF SendTimeout, SendAdvance
<1>3. \A o \in Contexts : o # c => snd[o].pc = "idle"
  BY Zenon, <1>1, OtherIsIdle
<1>4. OneSender'
  BY Zenon, <1>1, <1>2, StillOneSender
<1>5. CASE SendTimeout(c)
  <2>1. snd'[c].pc = "idle" /\ snd[c].pc = "wait" /\ tx_tail' = tx_tail
    BY Zenon, <1>0, <1>5 DEF SendTimeout, Idle, txvars
  <2>2. \A o \in Contexts : snd[o].pc # "advanced"
    BY Zenon, <1>3, <2>1
  <2>3. TailInv' /\ Sending(c)'
    BY Zenon, <1>1, <2>1, <2>2 DEF TxInv, TailInv, Sending
  <2>4. Armed' <=> Armed
    BY Zenon, <1>2, <1>3, <2>1 DEF Armed
  <2> QED BY Zenon, <1>1, <1>2, <1>3, <1>4, <2>3, <2>4, CallMoves
<1>6. CASE SendAdvance(c)
  <2>1. /\ snd'[c] = [snd[c] EXCEPT !.pc = "advanced"] /\ snd[c].pc = "armed"
        /\ tx_tail' = NextTx(snd[c].idx) /\ snd[c] \in Senders
    BY <1>0, <1>6 DEF SendAdvance
  <2>2. snd'[c].pc = "advanced" /\ snd'[c].idx = snd[c].idx /\ snd'[c].frame = snd[c].frame
    BY <2>1 DEF Senders
  <2>3. Sending(c)
    BY DEF TxInv
  <2>4. Pending' = Pending
    BY Zenon, <1>1 DEF Pending
  <2>5. Sending(c)'
    BY <1>1, <2>1, <2>2, <2>3, <2>4 DEF Sending, NTx, NextTx
  <2>6. TailInv' /\ (Armed' <=> Armed)
    BY Zenon, <2>1, <2>2 DEF TailInv, Armed
  <2> QED BY Zenon, <1>1, <1>2, <1>3, <1>4, <2>5, <2>6, CallMoves
<1> QED BY <1>5, <1>6

\* The descriptor at TDT: it is the one after the pending ones, and no other
\* place of the ring is.
LEMMA TailPlace ==
  ASSUME TxInv
  PROVE  /\ Pending < NTx => \A k \in 0 .. NTx - 1 :
                               (Place(NTx, TDH, k) = TDT <=> k = Pending)
         /\ Pending = NTx => NTx \in Nat \ {0} /\ TxAt(0) = tx[TDT] /\ ~tx[TDT].dd
         /\ \A k \in 0 .. NTx - 1 : Place(NTx, TDH, k) \in TxDesc
<1>1. PICK N \in Nat \ {0}, P \in Int : N = NTx /\ P = Pending
  BY TxPlaces DEF TxInv, RingInv
<1>2. TDH \in 0 .. N - 1 /\ TxDesc = 0 .. N - 1
  BY <1>1, TxPlaces DEF TxInv, TxTypes
<1>3. P \in 0 .. N /\ TDT = Place(N, TDH, P)
  BY <1>1 DEF TxInv, RingInv
<1>4. ASSUME P < N, NEW k \in 0 .. N - 1
      PROVE  Place(N, TDH, k) = TDT <=> k = P
  <2>1. P \in 0 .. N - 1
    BY <1>3, <1>4
  <2>2. TDH \in 0 .. N - 1
    BY <1>2
  <2>3. Place(N, TDH, k) = Place(N, TDH, P) => k = P
    BY <2>1, <2>2, Places
  <2> QED BY <1>3, <2>3
<1>5. ASSUME P = N
      PROVE  TxAt(0) = tx[TDT] /\ ~tx[TDT].dd
  <2>1. TDT = TDH
    BY <1>2, <1>3, <1>5, Places
  <2>2. TxAt(0) = tx[TDT]
    BY Zenon, <1>1, <1>2, <2>1, Places DEF TxAt
  <2>3. 0 \in 0 .. Pending - 1
    BY <1>1, <1>5
  <2>4. ~TxAt(0).dd
    BY <2>3 DEF TxInv, RingInv
  <2> QED BY <2>2, <2>4
<1>6. ASSUME NEW k \in 0 .. N - 1
      PROVE  Place(N, TDH, k) \in TxDesc
  <2>1. k \in 0 .. N
    OBVIOUS
  <2> QED BY <1>2, <2>1, Places
<1> QED BY <1>1, <1>4, <1>5, <1>6

\* The frame is copied into a free descriptor, which is therefore not pending.
LEMMA FillSends ==
  ASSUME TxInv, TxTypes', NEW c \in Contexts, SendFill(c)
  PROVE  TxInv'
<1>0. snd \in [Contexts -> Senders] /\ tx \in [TxDesc -> [dd : BOOLEAN, frame : Nat]] /\ TDT \in TxDesc
  BY Zenon DEF TxInv, TxTypes
<1>1. /\ UNCHANGED <<tx_tail, TDH, TDT, sent, transmitted, intr>> /\ snd[c].pc = "wait"
      /\ snd[c].idx = TDT /\ tx[TDT].dd
  BY DEF SendFill, TxInv, Sending
<1>2. /\ tx' = [tx EXCEPT ![TDT].frame = snd[c].frame]
      /\ snd' = [snd EXCEPT ![c].pc = "filled"]
  BY <1>1 DEF SendFill
<1>3. /\ snd'[c].pc = "filled" /\ snd'[c].idx = TDT /\ snd'[c].frame = snd[c].frame
      /\ \A o \in Contexts : o # c => snd'[o] = snd[o]
  BY <1>0, <1>1, <1>2 DEF Senders
<1>4. \A o \in Contexts : o # c => snd[o].pc = "idle"
  BY Zenon, <1>1, OtherIsIdle
<1>5. OneSender'
  BY Zenon, <1>1, <1>3, StillOneSender
<1>6. Pending \in 0 .. NTx /\ Pending < NTx /\ Pending' = Pending /\ NTx \in Nat
  <2>1. Pending # NTx
    BY Zenon, <1>1, TailPlace
  <2>2. Pending \in 0 .. NTx
    BY Zenon DEF TxInv, RingInv
  <2>3. Pending' = Pending
    BY Zenon, <1>1 DEF Pending
  <2>4. NTx \in Nat
    BY Zenon, TxPlaces
  <2>5. Pending < NTx
    BY <2>1, <2>2, <2>4
  <2> QED BY Zenon, <2>2, <2>3, <2>4, <2>5
<1>7. ~Armed /\ ~Armed'
  BY Zenon, <1>1, <1>3, <1>4 DEF Armed
<1>8. /\ tx'[TDT].frame = snd[c].frame /\ \A i \in TxDesc : tx'[i].dd = tx[i].dd
      /\ \A i \in TxDesc : i # TDT => tx'[i] = tx[i]
  BY <1>0, <1>2
<1>9. ASSUME NEW k \in 0 .. NTx - 1
      PROVE  /\ TxAt(k)'.dd = TxAt(k).dd
             /\ k # Pending => TxAt(k)' = TxAt(k)
  <2>1. Place(NTx, TDH, k) \in TxDesc /\ (Place(NTx, TDH, k) = TDT <=> k = Pending)
    BY <1>6, TailPlace
  <2>2. TxAt(k)' = tx'[Place(NTx, TDH, k)]
    BY Zenon, <1>1 DEF TxAt, NTx
  <2> QED BY Zenon, <1>8, <2>1, <2>2 DEF TxAt
<1>10. RingInv'
  <2>1. ASSUME NEW k \in 0 .. Pending - 1
        PROVE  ~TxAt(k)'.dd /\ TxAt(k)'.frame = sent[Len(transmitted) + 1 + k]
    <3>1. k \in 0 .. NTx - 1 /\ k # Pending
      BY <1>6
    <3>2. ~TxAt(k).dd /\ TxAt(k).frame = sent[Len(transmitted) + 1 + k]
      BY Zenon DEF TxInv, RingInv
    <3> QED BY Zenon, <1>9, <3>1, <3>2
  <2>2. ASSUME NEW k \in Pending .. NTx - 1
        PROVE  TxAt(k)'.dd
    <3>1. k \in 0 .. NTx - 1
      BY <1>6
    <3>2. TxAt(k).dd
      BY Zenon, <1>7 DEF TxInv, RingInv
    <3> QED BY <1>9, <3>1, <3>2
  <2>3. NTx' = NTx /\ \A i \in 1 .. Len(transmitted) : transmitted[i] = sent[i]
    BY Zenon DEF NTx, TxInv, RingInv
  <2>4. TDT = Place(NTx, TDH, Pending)
    BY Zenon DEF TxInv, RingInv
  <2> QED BY Zenon, <1>1, <1>6, <2>1, <2>2, <2>3, <2>4 DEF RingInv
<1>11. TailInv'
  BY Zenon, <1>1, <1>4 DEF TxInv, TailInv
<1>12. ASSUME NEW o \in Contexts
       PROVE  Sending(o)'
  <2>1. CASE o = c
    <3>1. Pending' < NTx'
      BY <1>6 DEF NTx
    <3> QED BY Zenon, <1>1, <1>3, <1>8, <2>1, <3>1 DEF Sending
  <2>2. CASE o # c
    BY Zenon, <1>3, <1>4, <2>2 DEF Sending
  <2> QED BY <2>1, <2>2
<1> QED BY <1>5, <1>10, <1>11, <1>12 DEF TxInv

\* The descriptor is marked not done: it is the one being armed.
LEMMA ArmSends ==
  ASSUME TxInv, TxTypes', NEW c \in Contexts, SendArm(c)
  PROVE  TxInv'
<1>0. snd \in [Contexts -> Senders] /\ tx \in [TxDesc -> [dd : BOOLEAN, frame : Nat]] /\ TDT \in TxDesc
  BY Zenon DEF TxInv, TxTypes
<1>1. /\ UNCHANGED <<tx_tail, TDH, TDT, sent, transmitted, intr>> /\ snd[c].pc = "filled"
      /\ snd[c].idx = TDT /\ Pending < NTx /\ tx[TDT].frame = snd[c].frame
  BY DEF SendArm, TxInv, Sending
<1>2. /\ tx' = [tx EXCEPT ![TDT].dd = FALSE]
      /\ snd' = [snd EXCEPT ![c].pc = "armed"]
  BY <1>1 DEF SendArm
<1>3. /\ snd'[c].pc = "armed" /\ snd'[c].idx = TDT /\ snd'[c].frame = snd[c].frame
      /\ \A o \in Contexts : o # c => snd'[o] = snd[o]
  BY <1>0, <1>1, <1>2 DEF Senders
<1>4. \A o \in Contexts : o # c => snd[o].pc = "idle"
  BY Zenon, <1>1, OtherIsIdle
<1>5. OneSender'
  BY Zenon, <1>1, <1>3, StillOneSender
<1>6. Pending \in 0 .. NTx /\ Pending' = Pending /\ NTx \in Nat
  BY Zenon, <1>1, TxPlaces DEF TxInv, RingInv, Pending
<1>7. Armed'
  BY <1>3 DEF Armed
<1>8. /\ ~tx'[TDT].dd /\ tx'[TDT].frame = tx[TDT].frame
      /\ \A i \in TxDesc : i # TDT => tx'[i] = tx[i]
  BY <1>0, <1>2
<1>9. ASSUME NEW k \in 0 .. NTx - 1, k # Pending
      PROVE  TxAt(k)' = TxAt(k)
  <2>1. Place(NTx, TDH, k) \in TxDesc /\ Place(NTx, TDH, k) # TDT
    BY Zenon, <1>1, <1>9, TailPlace
  <2>2. TxAt(k)' = tx'[Place(NTx, TDH, k)]
    BY Zenon, <1>1 DEF TxAt, NTx
  <2> QED BY Zenon, <1>8, <2>1, <2>2 DEF TxAt
<1>10. RingInv'
  <2>1. ASSUME NEW k \in 0 .. Pending - 1
        PROVE  ~TxAt(k)'.dd /\ TxAt(k)'.frame = sent[Len(transmitted) + 1 + k]
    <3>1. k \in 0 .. NTx - 1 /\ k # Pending
      BY <1>1, <1>6
    <3>2. ~TxAt(k).dd /\ TxAt(k).frame = sent[Len(transmitted) + 1 + k]
      BY Zenon DEF TxInv, RingInv
    <3> QED BY Zenon, <1>9, <3>1, <3>2
  <2>2. ASSUME NEW k \in Pending .. NTx - 1, k # Pending
        PROVE  TxAt(k)'.dd
    <3>1. k \in 0 .. NTx - 1
      BY <1>6
    <3>2. TxAt(k).dd
      BY Zenon, <2>2 DEF TxInv, RingInv
    <3> QED BY <1>9, <2>2, <3>1, <3>2
  <2>3. NTx' = NTx /\ \A i \in 1 .. Len(transmitted) : transmitted[i] = sent[i]
    BY Zenon DEF NTx, TxInv, RingInv
  <2>4. TDT = Place(NTx, TDH, Pending)
    BY Zenon DEF TxInv, RingInv
  <2> QED BY Zenon, <1>1, <1>6, <1>7, <2>1, <2>2, <2>3, <2>4 DEF RingInv
<1>11. TailInv'
  BY Zenon, <1>1, <1>4 DEF TxInv, TailInv
<1>12. ASSUME NEW o \in Contexts
       PROVE  Sending(o)'
  <2>1. CASE o = c
    <3>1. Pending' < NTx'
      BY Zenon, <1>1, <1>6 DEF NTx
    <3> QED BY Zenon, <1>1, <1>3, <1>8, <2>1, <3>1 DEF Sending
  <2>2. CASE o # c
    BY Zenon, <1>3, <1>4, <2>2 DEF Sending
  <2> QED BY <2>1, <2>2
<1> QED BY <1>5, <1>10, <1>11, <1>12 DEF TxInv

LEMMA TxNumbers ==
  ASSUME TxInv
  PROVE  /\ NTx \in Nat \ {0} /\ Pending \in Int /\ Len(transmitted) \in Nat
         /\ \A c \in Contexts : snd[c].frame \in Nat
<1>1. sent \in Seq(Nat) /\ transmitted \in Seq(Nat) /\ snd \in [Contexts -> Senders]
  BY DEF TxInv, TxTypes
<1>2. Len(sent) \in Nat /\ Len(transmitted) \in Nat
  BY <1>1
<1>3. \A c \in Contexts : snd[c].frame \in Nat
  BY <1>1 DEF Senders
<1> QED BY <1>2, <1>3, TxPlaces DEF Pending

\* The card is told: the armed descriptor is pending now.
LEMMA KickSends ==
  ASSUME TxInv, TxTypes', NEW c \in Contexts, SendKick(c)
  PROVE  TxInv'
<1>0. PICK N \in Nat \ {0}, P \in Int, W \in Nat, x \in Nat :
        N = NTx /\ P = Pending /\ W = Len(transmitted) /\ x = snd[c].frame
  BY TxNumbers
<1>1. /\ snd \in [Contexts -> Senders] /\ sent \in Seq(Nat) /\ transmitted \in Seq(Nat)
      /\ TxDesc = 0 .. N - 1 /\ TDH \in 0 .. N - 1 /\ TDT \in TxDesc
  BY <1>0, TxPlaces DEF TxInv, TxTypes
<1>2. /\ UNCHANGED <<tx, tx_tail, TDH, transmitted, intr>> /\ snd[c].pc = "advanced"
      /\ TDT' = tx_tail /\ sent' = Append(sent, x)
      /\ snd' = [snd EXCEPT ![c] = Idle]
  BY Zenon, <1>0 DEF SendKick
<1>3. /\ Pending < NTx /\ tx[TDT].frame = x /\ ~tx[TDT].dd /\ tx_tail = NextTx(TDT)
  BY Zenon, <1>0, <1>2 DEF TxInv, Sending
<1>4. /\ P \in 0 .. N - 1 /\ TDT = Place(N, TDH, P) /\ Len(sent) = W + P
      /\ \A i \in 1 .. W : transmitted[i] = sent[i]
  <2>1. Pending \in 0 .. NTx /\ TDT = Place(NTx, TDH, Pending)
    BY Zenon DEF TxInv, RingInv
  <2>2. \A i \in 1 .. Len(transmitted) : transmitted[i] = sent[i]
    BY Zenon DEF TxInv, RingInv
  <2>3. Len(sent) = W + P
    BY <1>0, <1>1 DEF Pending
  <2>4. P \in 0 .. N - 1
    <3>1. P \in 0 .. N /\ P < N
      BY Zenon, <1>0, <1>3, <2>1
    <3> QED BY <3>1
  <2> QED BY Zenon, <1>0, <2>1, <2>2, <2>3, <2>4
<1>5. \A o \in Contexts : snd'[o].pc = "idle"
  <2>1. \A o \in Contexts : o # c => snd[o].pc = "idle"
    BY Zenon, <1>2, OtherIsIdle
  <2> QED BY Zenon, <1>1, <1>2, <2>1 DEF Idle
<1>6. /\ sent' \in Seq(Nat) /\ Len(sent') = Len(sent) + 1 /\ sent'[Len(sent) + 1] = x
      /\ \A i \in 1 .. Len(sent) : sent'[i] = sent[i]
  <2>1. /\ Append(sent, x) \in Seq(Nat) /\ Len(Append(sent, x)) = Len(sent) + 1
        /\ Append(sent, x)[Len(sent) + 1] = x
        /\ \A i \in 1 .. Len(sent) : Append(sent, x)[i] = sent[i]
    BY Zenon, <1>1, Appended
  <2>2. PICK t : t = Append(sent, x)
    BY Zenon
  <2> QED BY Zenon, <1>2, <2>1, <2>2
<1>7. Pending' = P + 1 /\ Len(transmitted') = W
  <2>1. transmitted' = transmitted
    BY <1>2
  <2>2. Pending' = (W + P + 1) - W
    BY Zenon, <1>0, <1>4, <1>6, <2>1 DEF Pending
  <2>3. (W + P + 1) - W = P + 1
    OBVIOUS
  <2> QED BY Zenon, <1>0, <2>1, <2>2, <2>3
<1>8. TDT' = Place(N, TDH, P + 1)
  <2>1. TDT' = Place(N, TDT, 1)
    BY Zenon, <1>0, <1>1, <1>2, <1>3, TxPlaces
  <2> QED BY Zenon, <1>1, <1>4, <2>1, NextPlace
<1>9. \A k : TxAt(k)' = TxAt(k)
  BY <1>2 DEF TxAt, NTx
<1>10. TxAt(P) = tx[TDT]
  BY Zenon, <1>0, <1>4 DEF TxAt
<1>11. ASSUME NEW k \in 0 .. P
       PROVE  ~TxAt(k).dd /\ TxAt(k).frame = sent'[W + 1 + k]
  <2>1. CASE k = P
    <3>1. W + 1 + P = (W + P) + 1
      OBVIOUS
    <3> QED BY Zenon, <1>3, <1>4, <1>6, <1>10, <2>1, <3>1
  <2>2. CASE k # P
    <3>1. k \in 0 .. Pending - 1 /\ W + 1 + k \in 1 .. Len(sent)
      BY <1>0, <1>4, <2>2
    <3>2. ~TxAt(k).dd /\ TxAt(k).frame = sent[Len(transmitted) + 1 + k]
      BY Zenon, <3>1 DEF TxInv, RingInv
    <3> QED BY Zenon, <1>0, <1>6, <3>1, <3>2
  <2> QED BY Zenon, <2>1, <2>2
<1>12. ASSUME NEW k \in P + 1 .. N - 1
       PROVE  TxAt(k).dd
  <2>1. k \in Pending .. NTx - 1 /\ k # Pending
    BY <1>0, <1>4
  <2> QED BY Zenon, <2>1 DEF TxInv, RingInv
<1>13. RingInv'
  <2>1. NTx' = N
    BY <1>0 DEF NTx
  <2>2. Pending' \in 0 .. N /\ Pending' - 1 = P
    BY <1>4, <1>7
  <2>3. TDT' = Place(N, TDH', Pending')
    BY <1>2, <1>7, <1>8
  <2>4. \A i \in 1 .. Len(transmitted') : transmitted'[i] = sent'[i]
    <3>1. ASSUME NEW i \in 1 .. W
          PROVE  transmitted[i] = sent'[i]
      <4>1. i \in 1 .. Len(sent)
        BY <1>4
      <4> QED BY <1>4, <1>6, <4>1
    <3> QED BY Zenon, <1>2, <1>7, <3>1
  <2>5. \A k \in 0 .. Pending' - 1 : ~TxAt(k)'.dd /\ TxAt(k)'.frame = sent'[Len(transmitted') + 1 + k]
    BY <1>7, <1>9, <1>11, <2>2
  <2>6. \A k \in Pending' .. N - 1 : TxAt(k)'.dd
    BY <1>7, <1>9, <1>12
  <2> QED BY Zenon, <2>1, <2>2, <2>3, <2>4, <2>5, <2>6 DEF RingInv
<1>14. OneSender' /\ TailInv' /\ \A o \in Contexts : Sending(o)'
  BY Zenon, <1>2, <1>5 DEF OneSender, TailInv, Sending, Contexts
<1> QED BY <1>13, <1>14 DEF TxInv

\* The card transmits the oldest pending frame and moves its head on.
LEMMA CardSends ==
  ASSUME TxInv, TxTypes', CardTransmits
  PROVE  TxInv'
<1>0. PICK N \in Nat \ {0}, P \in Int, W \in Nat :
        N = NTx /\ P = Pending /\ W = Len(transmitted)
  BY TxNumbers
<1>1. /\ sent \in Seq(Nat) /\ transmitted \in Seq(Nat)
      /\ TxDesc = 0 .. N - 1 /\ TDH \in 0 .. N - 1 /\ TDT \in TxDesc
      /\ tx \in [TxDesc -> [dd : BOOLEAN, frame : Nat]]
  BY Zenon, <1>0, TxPlaces DEF TxInv, TxTypes
<1>2. /\ UNCHANGED <<tx_tail, TDT, sent, snd, intr>> /\ TDH # TDT
      /\ transmitted' = Append(transmitted, tx[TDH].frame)
      /\ tx' = [tx EXCEPT ![TDH].dd = TRUE] /\ TDH' = NextTx(TDH)
  BY DEF CardTransmits
<1>3. /\ P \in 0 .. N /\ TDT = Place(N, TDH, P) /\ Len(sent) = W + P
      /\ \A i \in 1 .. W : transmitted[i] = sent[i]
  <2>1. Pending \in 0 .. NTx /\ TDT = Place(NTx, TDH, Pending)
    BY DEF TxInv, RingInv
  <2>2. \A i \in 1 .. Len(transmitted) : transmitted[i] = sent[i]
    BY DEF TxInv, RingInv
  <2>3. Len(sent) = W + P
    BY <1>0, <1>1 DEF Pending
  <2> QED BY <1>0, <2>1, <2>2, <2>3
<1>4. P \in 1 .. N - 1
  <2>1. Place(N, TDH, 0) = TDH /\ Place(N, TDH, N) = TDH
    BY Zenon, <1>1, Places
  <2>2. P # 0 /\ P # N
    BY <1>2, <1>3, <2>1, Zenon
  <2> QED BY <1>3, <2>2
<1>5. /\ TDH' \in 0 .. N - 1 /\ Place(N, TDH', N - 1) = TDH
      /\ \A k \in 0 .. N - 1 : Place(N, TDH', k) = Place(N, TDH, k + 1)
  <2>1. PICK j : j = Place(N, TDH, 1)
    OBVIOUS
  <2>2. /\ j \in 0 .. N - 1 /\ Place(N, j, N - 1) = TDH
        /\ \A k \in 0 .. N - 1 : Place(N, j, k) = Place(N, TDH, k + 1)
    BY Zenon, <1>1, <2>1, NextPlace
  <2>3. TDH' = j
    BY <1>0, <1>1, <1>2, <2>1, TxPlaces
  <2> QED BY <2>2, <2>3
<1>6. TxAt(0) = tx[TDH]
  BY Zenon, <1>0, <1>1, Places DEF TxAt
<1>7. tx[TDH].frame \in Nat /\ tx[TDH].frame = sent[W + 1]
  <2>1. 0 \in 0 .. Pending - 1 /\ Len(transmitted) + 1 + 0 = W + 1
    BY <1>0, <1>4
  <2>2. TxAt(0).frame = sent[Len(transmitted) + 1 + 0]
    BY Zenon, <2>1 DEF TxInv, RingInv
  <2> QED BY <1>1, <1>6, <2>1, <2>2
<1>8. /\ transmitted' \in Seq(Nat) /\ Len(transmitted') = W + 1 /\ transmitted'[W + 1] = sent[W + 1]
      /\ \A i \in 1 .. W : transmitted'[i] = transmitted[i]
  <2>1. PICK x \in Nat : x = tx[TDH].frame
    BY <1>7
  <2> QED BY <1>0, <1>1, <1>2, <1>7, <2>1, Appended
<1>9. Pending' = P - 1
  <2>1. sent' = sent
    BY <1>2
  <2> QED BY <1>3, <1>8, <2>1 DEF Pending
<1>10. /\ TxAt(N - 1)'.dd
       /\ \A k \in 0 .. N - 2 : TxAt(k)' = TxAt(k + 1)
  <2>0. NTx' = N
    BY <1>0 DEF NTx
  <2>1. TxAt(N - 1)' = tx'[TDH]
    BY <1>5, <2>0 DEF TxAt
  <2>2. tx'[TDH].dd
    BY <1>1, <1>2
  <2>3. ASSUME NEW k \in 0 .. N - 2
        PROVE  TxAt(k)' = TxAt(k + 1)
    <3>1. k \in 0 .. N - 1 /\ k + 1 \in 0 .. N - 1 /\ k + 1 \in 0 .. N /\ k + 1 # 0 /\ 0 \in 0 .. N - 1
      OBVIOUS
    <3>2. Place(N, TDH', k) = Place(N, TDH, k + 1)
      BY Zenon, <1>5, <3>1
    <3>3. Place(N, TDH, k + 1) \in TxDesc
      BY Zenon, <1>1, <3>1, Places
    <3>4. Place(N, TDH, k + 1) # TDH
      <4>1. Place(N, TDH, 0) = TDH
        BY <1>1, Places
      <4>2. TDH \in 0 .. N - 1
        BY <1>1
      <4>3. Place(N, TDH, k + 1) = Place(N, TDH, 0) => k + 1 = 0
        BY <3>1, <4>2, Places
      <4> QED BY <3>1, <4>1, <4>3
    <3> QED BY <1>0, <1>1, <1>2, <2>0, <3>2, <3>3, <3>4 DEF TxAt
  <2> QED BY <2>1, <2>2, <2>3
<1>11. ASSUME NEW k \in 0 .. P - 2
       PROVE  ~TxAt(k)'.dd /\ TxAt(k)'.frame = sent[W + 2 + k]
  <2>1. /\ k \in 0 .. N - 2 /\ k + 1 \in 0 .. Pending - 1
        /\ Len(transmitted) + 1 + (k + 1) = W + 2 + k
    BY <1>0, <1>4
  <2>2. ~TxAt(k + 1).dd /\ TxAt(k + 1).frame = sent[Len(transmitted) + 1 + (k + 1)]
    BY Zenon, <2>1 DEF TxInv, RingInv
  <2> QED BY Zenon, <1>10, <2>1, <2>2
<1>12. Armed' <=> Armed
  BY <1>2 DEF Armed
<1>13. ASSUME NEW k \in P - 1 .. N - 1
       PROVE  TxAt(k)'.dd \/ (k = P - 1 /\ Armed)
  <2>1. CASE k = N - 1
    BY <1>10, <2>1
  <2>2. CASE k # N - 1
    <3>1. k \in 0 .. N - 2 /\ k + 1 \in Pending .. NTx - 1 /\ (k + 1 = Pending <=> k = P - 1)
      BY <1>0, <1>4, <2>2
    <3>2. TxAt(k + 1).dd \/ (k + 1 = Pending /\ Armed)
      BY Zenon, <3>1 DEF TxInv, RingInv
    <3> QED BY <1>10, <3>1, <3>2
  <2> QED BY <2>1, <2>2
<1>14. RingInv'
  <2>1. NTx' = N
    BY <1>0 DEF NTx
  <2>2. /\ Pending' \in 0 .. N /\ Pending' - 1 = P - 2 /\ P - 1 \in 0 .. N - 1 /\ (P - 1) + 1 = P
        /\ \A k \in 0 .. P - 2 : Len(transmitted') + 1 + k = W + 2 + k
    BY <1>4, <1>8, <1>9
  <2>3. TDT' = Place(N, TDH', Pending')
    <3>1. Place(N, TDH', P - 1) = Place(N, TDH, (P - 1) + 1)
      BY Zenon, <1>5, <2>2
    <3> QED BY <1>2, <1>3, <1>9, <2>2, <3>1
  <2>4. \A i \in 1 .. Len(transmitted') : transmitted'[i] = sent'[i]
    <3>1. ASSUME NEW i \in 1 .. W + 1
          PROVE  transmitted'[i] = sent[i]
      <4>1. CASE i = W + 1
        BY Zenon, <1>8, <4>1
      <4>2. CASE i # W + 1
        <5>1. i \in 1 .. W
          BY <4>2
        <5> QED BY Zenon, <1>3, <1>8, <5>1
      <4> QED BY Zenon, <4>1, <4>2
    <3> QED BY Zenon, <1>2, <1>8, <3>1
  <2>5. \A k \in 0 .. Pending' - 1 : ~TxAt(k)'.dd /\ TxAt(k)'.frame = sent'[Len(transmitted') + 1 + k]
    BY Zenon, <1>2, <1>11, <2>2
  <2>6. \A k \in Pending' .. N - 1 : TxAt(k)'.dd \/ (k = Pending' /\ Armed')
    BY <1>9, <1>12, <1>13
  <2> QED BY Zenon, <2>1, <2>2, <2>3, <2>4, <2>5, <2>6 DEF RingInv
<1>15. ASSUME NEW o \in Contexts
       PROVE  Sending(o)'
  <2>1. Sending(o)
    BY DEF TxInv
  <2>2. tx'[TDT] = tx[TDT]
    BY <1>1, <1>2
  <2>3. Pending' < NTx'
    BY <1>0, <1>4, <1>9 DEF NTx
  <2> QED BY <1>2, <2>1, <2>2, <2>3 DEF Sending, NextTx
<1>16. OneSender' /\ TailInv'
  BY <1>2 DEF TxInv, OneSender, TailInv
<1> QED BY <1>14, <1>15, <1>16 DEF TxInv

\* Without nested sends every step keeps the invariant of the transmit ring.
LEMMA TxPreserves ==
  ASSUME Nested = FALSE
  PROVE  TxInv /\ [Next]_vars => TxInv'
<1> SUFFICES ASSUME TxInv, [Next]_vars PROVE TxInv'
  OBVIOUS
<1>0. TxTypes'
  BY TxTyped DEF TxInv
<1>1. CASE Elsewhere
  <2>1. UNCHANGED <<tx, tx_tail, TDH, TDT, sent, transmitted, snd>>
    BY <1>1, ElsewhereKeeps
  <2>2. OneSender'
    <3>1. snd["intr"].pc # "idle" => intr' \in {"handler", "tick"}
      BY <1>1 DEF Elsewhere, ethernet_register, BootDone, TimerInterrupt, InterruptStep,
                  e1000_poll, ethernet_rx, GiveBack, PollDone, InterruptReturn, CardReceives,
                  vars, TxInv, OneSender
    <3> QED BY Zenon, <2>1, <3>1 DEF TxInv, OneSender
  <2>3. Pending' = Pending /\ NTx' = NTx /\ (Armed' <=> Armed) /\ \A k : TxAt(k)' = TxAt(k)
    BY Zenon, <2>1 DEF Pending, NTx, Armed, TxAt
  <2>4. RingInv' /\ TailInv'
    BY Zenon, <2>1, <2>3 DEF TxInv, RingInv, TailInv
  <2>5. \A o \in Contexts : Sending(o)'
    BY Zenon, <2>1, <2>3 DEF TxInv, Sending, NextTx
  <2> QED BY <1>0, <2>2, <2>4, <2>5 DEF TxInv
<1>2. CASE CardTransmits
  BY <1>0, <1>2, CardSends
<1>3. ASSUME NEW c \in Contexts, ethernet_send(c) \/ SendStep(c)
      PROVE  TxInv'
  BY Zenon, <1>0, <1>3, StartSends, FillSends, TimeoutOrAdvanceSends, ArmSends, KickSends DEF SendStep
<1> QED BY <1>1, <1>2, <1>3, NextCases
-----------------------------------------------------------------------------
\* The receive half of RingsKeepFrames.
RxKeeps ==
  /\ Len(inbox) = Len(polled) + RxWaiting
  /\ StartsOf(polled, inbox)
  /\ \A k \in 0 .. RxWaiting - 1 :
       LET d == rx[(rx_tail + k) % E1000_NUM_RX_DESC]
       IN  d.dd /\ d.frame = inbox[Len(polled) + 1 + k]

LEMMA RxInvKeeps == RxInv => RxKeeps
<1> SUFFICES ASSUME RxInv PROVE RxKeeps
  OBVIOUS
<1>1. NRx \in Nat \ {0} /\ rx_tail \in 0 .. NRx - 1 /\ Unread \in 0 .. NRx - 1
  BY Zenon DEF RxInv, RxTypes, NRx, RxDesc
<1>2. inbox \in Seq(Nat) /\ polled \in Seq(Nat) /\ Len(inbox) \in Nat /\ Len(polled) \in Nat
  <2>1. inbox \in Seq(Nat) /\ polled \in Seq(Nat)
    BY Zenon DEF RxInv, RxTypes
  <2> QED BY <2>1
<1>3. RxWaiting = Unread
  <2>1. RxWaiting = (Place(NRx, rx_tail, Unread) - rx_tail) % NRx
    BY Zenon DEF RxWaiting, RxInv, NRx
  <2> QED BY <1>1, <2>1, Distance
<1>4. Len(inbox) = Len(polled) + RxWaiting /\ Len(polled) <= Len(inbox)
  BY <1>1, <1>2, <1>3 DEF Unread
<1>5. StartsOf(polled, inbox)
  <2>1. \A i \in 1 .. Len(polled) : polled[i] = inbox[i]
    BY Zenon DEF RxInv
  <2> QED BY <1>2, <1>4, <2>1, PrefixByElements
<1>6. ASSUME NEW k \in 0 .. RxWaiting - 1
      PROVE  /\ rx[(rx_tail + k) % E1000_NUM_RX_DESC].dd
             /\ rx[(rx_tail + k) % E1000_NUM_RX_DESC].frame = inbox[Len(polled) + 1 + k]
  <2>1. k \in 0 .. Unread - 1
    BY <1>3
  <2>2. RxAt(k).dd /\ RxAt(k).frame = inbox[Len(polled) + 1 + k]
    BY Zenon, <2>1 DEF RxInv
  <2> QED BY <2>2 DEF RxAt, Place, NRx
<1> QED BY Zenon, <1>4, <1>5, <1>6 DEF RxKeeps

\* e1000_poll consumes every frame the card stored once and in order, and what
\* it has not consumed lies in the ring, whatever the handlers do meanwhile:
\* for rings of any size, nested sends included.
THEOREM ReceiveRingKeepsFrames == Spec => []RxKeeps
<1>1. e1000_init => RxInv
  BY RxInit
<1>2. RxInv /\ [Next]_vars => RxInv'
  BY RxPreserves
<1>3. RxInv => RxKeeps
  BY RxInvKeeps
<1> QED BY <1>1, <1>2, <1>3, PTL DEF Spec

\* Both rings keep the frames and their order (RingsKeepFrames), for rings of
\* any size, when no handler sends in the middle of a system call's e1000_send.
THEOREM RingsAlwaysKeepFrames ==
  ASSUME Nested = FALSE
  PROVE  Spec => []RingsKeepFrames
<1>1. e1000_init => TxInv /\ RxInv
  BY TxInit, RxInit
<1>2. TxInv /\ RxInv /\ [Next]_vars => TxInv' /\ RxInv'
  BY Zenon, TxPreserves, RxPreserves
<1>3. TxInv /\ RxInv => RingsKeepFrames
  <2> SUFFICES ASSUME TxInv, RxInv PROVE RingsKeepFrames
    OBVIOUS
  <2>1. RxKeeps
    BY RxInvKeeps
  <2>2. sent \in Seq(Nat) /\ transmitted \in Seq(Nat)
    BY DEF TxInv, TxTypes
  <2>3. \A i \in 1 .. Len(transmitted) : transmitted[i] = sent[i]
    BY Zenon DEF TxInv, RingInv
  <2>4. Len(transmitted) <= Len(sent)
    <3>1. Len(sent) - Len(transmitted) \in 0 .. NTx
      BY Zenon DEF TxInv, RingInv, Pending
    <3>2. Len(transmitted) \in Nat /\ Len(sent) \in Nat /\ NTx \in Nat
      BY <2>2, TxPlaces
    <3> QED BY <3>1, <3>2
  <2>5. StartsOf(transmitted, sent)
    BY <2>2, <2>3, <2>4, PrefixByElements
  <2> QED BY Zenon, <2>1, <2>5 DEF RxKeeps, RingsKeepFrames
<1> QED BY <1>1, <1>2, <1>3, PTL DEF Spec
=============================================================================
