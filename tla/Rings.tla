------------------------------- MODULE Rings --------------------------------
(***************************************************************************)
(* The network card's rings, the driver's state and what is promised of    *)
(* frames and their buffers; module Nic has the steps.  Both rings have 32 *)
(* descriptors in src/src/net/e1000/e1000_internal.h.                      *)
(***************************************************************************)
EXTENDS Integers, Sequences, FiniteSets

CONSTANTS E1000_NUM_TX_DESC, E1000_NUM_RX_DESC

ASSUME RingsAssumption ==
  E1000_NUM_TX_DESC \in Nat \ {0} /\ E1000_NUM_RX_DESC \in Nat \ {0}

VARIABLES
  tx,        \* transmit ring: [dd, frame] per descriptor and its buffer
  tx_tail,   \* the driver's next transmit descriptor
  TDH, TDT,  \* the card's transmit registers
  rx,        \* receive ring: [dd, frame, kind] per descriptor and its buffer
  rx_tail,   \* the driver's next receive descriptor
  RDH, RDT,  \* the card's receive registers
  handlers,  \* registered ethertypes, in order
  snd,       \* [context -> a call of ethernet_send: its step, descriptor, frame]
  intr,      \* where the timer interrupt is
  heap,      \* frame buffers on the kernel heap
  lags,      \* this run's element of Lags
  made,      \* frames built by ethernet_send so far
  sent,      \* history: frames handed to the card, in order
  transmitted, \* history: frames the card transmitted
  inbox,     \* history: frames the card stored in the receive ring
  polled     \* history: frames e1000_poll has consumed
-----------------------------------------------------------------------------
\* The history s is the beginning of the history t.
StartsOf(s, t) == Len(s) <= Len(t) /\ s = SubSeq(t, 1, Len(s))

RxWaiting == (RDH - rx_tail) % E1000_NUM_RX_DESC

\* Both rings keep the frames and their order.  Every frame for which
\* e1000_send returns 0 is transmitted in its turn, once and as it was built,
\* even when the card is a whole ring behind: a buffer is not written again
\* before the card has read it.  And what the card stored and e1000_poll has
\* not consumed lies in the ring from rx_tail on, in order: every frame is
\* consumed once, none is skipped, and a descriptor the card may write holds
\* nothing unread.
RingsKeepFrames ==
  /\ StartsOf(transmitted, sent)
  /\ Len(inbox) = Len(polled) + RxWaiting
  /\ StartsOf(polled, inbox)
  /\ \A k \in 0 .. RxWaiting - 1 :
       LET d == rx[(rx_tail + k) % E1000_NUM_RX_DESC]
       IN  d.dd /\ d.frame = inbox[Len(polled) + 1 + k]

\* The heap holds a buffer for each call of ethernet_send in progress and for
\* the frame a handler is looking at, and no other (ethernet_rx and
\* ethernet_send free theirs on every path, failures included).
BuffersAreFreed ==
  heap = Cardinality({c \in {"call", "intr"} : snd[c].pc # "idle"})
         + (IF intr \in {"handler", "drop"} THEN 1 ELSE 0)
=============================================================================
