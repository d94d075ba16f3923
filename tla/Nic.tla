-------------------------------- MODULE Nic --------------------------------
(***************************************************************************)
(* The network card's driver (src/src/net/e1000/e1000.c) and the Ethernet  *)
(* layer over it (src/src/net/ethernet/ethernet.c).  Three parties run at  *)
(* once: a system call that sends, the timer interrupt (net_poll: drain    *)
(* the receive ring, then let the protocols' timers send) which may come   *)
(* between any two steps of it, and the card, which reads and writes the   *)
(* descriptors by DMA.  A frame is a number, its place in the order in     *)
(* which frames are built or arrive; what the Ethernet layer looks at is   *)
(* its kind.  A full receive ring makes the card drop the frame.           *)
(***************************************************************************)
EXTENDS Rings, Functions

CONSTANTS
  ETH_MAX_HANDLERS,
  EtherTypes,   \* the ethertypes the protocols register for
  Kinds,        \* what arrives: an ethertype, or "runt", shorter than a header
  MAX_SENDS,    \* bound: frames the kernel builds
  MAX_RECVS,    \* bound: frames that arrive
  Lags,         \* may the card be a whole transmit ring behind? {TRUE}, {FALSE} or both
  Nested        \* may a handler send while a system call is inside e1000_send?

txvars == <<tx, tx_tail, TDH, TDT, made, sent, transmitted>>
rxvars == <<rx, rx_tail, RDH, RDT, inbox, polled>>
vars == <<txvars, rxvars, handlers, snd, intr, heap, lags>>

TxDesc == 0 .. E1000_NUM_TX_DESC - 1
RxDesc == 0 .. E1000_NUM_RX_DESC - 1
NextTx(i) == (i + 1) % E1000_NUM_TX_DESC
NextRx(i) == (i + 1) % E1000_NUM_RX_DESC
Idle == [pc |-> "idle", idx |-> 0, frame |-> 0]

\* All transmit descriptors look done, so that they count as free; the card
\* owns all receive descriptors but the last.
init_tx ==
  /\ tx = [i \in TxDesc |-> [dd |-> TRUE, frame |-> 0]]
  /\ tx_tail = 0 /\ TDH = 0 /\ TDT = 0

init_rx ==
  /\ rx = [i \in RxDesc |-> [dd |-> FALSE, frame |-> 0, kind |-> "none"]]
  /\ rx_tail = 0 /\ RDH = 0 /\ RDT = E1000_NUM_RX_DESC - 1

e1000_init ==
  /\ init_tx /\ init_rx
  /\ handlers = <<>>
  /\ snd = [c \in {"call", "intr"} |-> Idle]
  /\ intr = "boot" /\ heap = 0
  /\ lags \in Lags
  /\ made = 0 /\ sent = <<>> /\ transmitted = <<>> /\ inbox = <<>> /\ polled = <<>>
-----------------------------------------------------------------------------
\* Boot: the protocols register, then net_poll is hooked to the timer.
ethernet_register(type) ==
  /\ intr = "boot" /\ Len(handlers) < ETH_MAX_HANDLERS
  /\ type \notin Range(handlers)
  /\ handlers' = Append(handlers, type)
  /\ UNCHANGED <<txvars, rxvars, snd, intr, heap, lags>>

BootDone ==
  /\ intr = "boot" /\ Range(handlers) = EtherTypes
  /\ intr' = "off"
  /\ UNCHANGED <<txvars, rxvars, handlers, snd, heap, lags>>

\* A system call runs while no interrupt does; in the interrupt the handler of
\* a frame and the protocols' timers send.
MaySend(c) ==
  IF c = "call" THEN intr = "off"
  ELSE intr \in {"handler", "tick"} /\ (Nested \/ snd["call"].pc = "idle")

\* ethernet_send builds the frame in a heap buffer and calls e1000_send, which
\* picks the descriptor.  (When kmalloc fails, nothing happens.)
ethernet_send(c) ==
  /\ MaySend(c) /\ snd[c].pc = "idle" /\ made < MAX_SENDS
  /\ made' = made + 1
  /\ heap' = heap + 1
  /\ snd' = [snd EXCEPT ![c] = [pc |-> "wait", idx |-> tx_tail, frame |-> made + 1]]
  /\ UNCHANGED <<tx, tx_tail, TDH, TDT, sent, transmitted, rxvars, handlers, intr, lags>>

Running(c) == IF c = "call" THEN intr = "off" ELSE TRUE

\* Mutant: the descriptor is not checked to be free.
SendFill_nocheck(c) ==
  /\ Running(c) /\ snd[c].pc = "wait"
  /\ tx' = [tx EXCEPT ![snd[c].idx].frame = snd[c].frame]
  /\ snd' = [snd EXCEPT ![c].pc = "filled"]
  /\ UNCHANGED <<tx_tail, TDH, TDT, made, sent, transmitted, rxvars, handlers, intr, heap, lags>>

\* The descriptor is free: the frame is copied into its buffer.
SendFill(c) ==
  /\ Running(c) /\ snd[c].pc = "wait"
  /\ tx[snd[c].idx].dd
  /\ tx' = [tx EXCEPT ![snd[c].idx].frame = snd[c].frame]
  /\ snd' = [snd EXCEPT ![c].pc = "filled"]
  /\ UNCHANGED <<tx_tail, TDH, TDT, made, sent, transmitted, rxvars, handlers, intr, heap, lags>>

\* It stayed busy for the whole loop: the frame is given up.
SendTimeout(c) ==
  /\ Running(c) /\ snd[c].pc = "wait"
  /\ ~tx[snd[c].idx].dd
  /\ snd' = [snd EXCEPT ![c] = Idle]
  /\ heap' = heap - 1
  /\ UNCHANGED <<txvars, rxvars, handlers, intr, lags>>

SendArm(c) ==
  /\ Running(c) /\ snd[c].pc = "filled"
  /\ tx' = [tx EXCEPT ![snd[c].idx].dd = FALSE]
  /\ snd' = [snd EXCEPT ![c].pc = "armed"]
  /\ UNCHANGED <<tx_tail, TDH, TDT, made, sent, transmitted, rxvars, handlers, intr, heap, lags>>

SendAdvance(c) ==
  /\ Running(c) /\ snd[c].pc = "armed"
  /\ tx_tail' = NextTx(snd[c].idx)
  /\ snd' = [snd EXCEPT ![c].pc = "advanced"]
  /\ UNCHANGED <<tx, TDH, TDT, made, sent, transmitted, rxvars, handlers, intr, heap, lags>>

\* Mutant: the card is told the descriptor just filled, not the one after it.
SendKick_early(c) ==
  /\ Running(c) /\ snd[c].pc = "advanced"
  /\ lags \/ TDT = TDH \/ tx_tail # TDH
  /\ TDT' = snd[c].idx
  /\ sent' = Append(sent, snd[c].frame)
  /\ snd' = [snd EXCEPT ![c] = Idle]
  /\ heap' = heap - 1
  /\ UNCHANGED <<tx, tx_tail, TDH, made, transmitted, rxvars, handlers, intr, lags>>

\* The card is told; ethernet_send frees its buffer and returns 0.  Unless the
\* card lags it has made room before the ring wraps onto its head.
SendKick(c) ==
  /\ Running(c) /\ snd[c].pc = "advanced"
  /\ lags \/ TDT = TDH \/ tx_tail # TDH
  /\ TDT' = tx_tail
  /\ sent' = Append(sent, snd[c].frame)
  /\ snd' = [snd EXCEPT ![c] = Idle]
  /\ heap' = heap - 1
  /\ UNCHANGED <<tx, tx_tail, TDH, made, transmitted, rxvars, handlers, intr, lags>>
-----------------------------------------------------------------------------
\* The timer interrupt: net_poll.
TimerInterrupt ==
  /\ intr = "off"
  /\ intr' = "poll"
  /\ UNCHANGED <<txvars, rxvars, handlers, snd, heap, lags>>

\* e1000_poll finds a completed descriptor and hands a heap copy of the frame
\* to ethernet_rx, which looks for a handler of its type; or kmalloc fails.
e1000_poll ==
  /\ intr = "poll" /\ rx[rx_tail].dd
  /\ \/ /\ heap' = heap + 1
        /\ intr' = IF rx[rx_tail].kind \in Range(handlers) THEN "handler" ELSE "drop"
     \/ /\ intr' = "give"
        /\ UNCHANGED heap
  /\ UNCHANGED <<txvars, rxvars, handlers, snd, lags>>

\* Mutant: a frame without a handler is not freed.
ethernet_rx_leak ==
  /\ intr \in {"handler", "drop"} /\ snd["intr"].pc = "idle"
  /\ heap' = IF intr = "handler" THEN heap - 1 ELSE heap
  /\ intr' = "give"
  /\ UNCHANGED <<txvars, rxvars, handlers, snd, lags>>

\* ethernet_rx frees the copy on every path.
ethernet_rx ==
  /\ intr \in {"handler", "drop"} /\ snd["intr"].pc = "idle"
  /\ heap' = heap - 1
  /\ intr' = "give"
  /\ UNCHANGED <<txvars, rxvars, handlers, snd, lags>>

\* The descriptor goes back to the card.
GiveBack ==
  /\ intr = "give"
  /\ rx' = [rx EXCEPT ![rx_tail].dd = FALSE]
  /\ polled' = Append(polled, rx[rx_tail].frame)
  /\ rx_tail' = NextRx(rx_tail)
  /\ RDT' = rx_tail
  /\ intr' = "poll"
  /\ UNCHANGED <<txvars, RDH, inbox, handlers, snd, heap, lags>>

PollDone ==
  /\ intr = "poll" /\ ~rx[rx_tail].dd
  /\ intr' = "tick"
  /\ UNCHANGED <<txvars, rxvars, handlers, snd, heap, lags>>

InterruptReturn ==
  /\ intr = "tick" /\ snd["intr"].pc = "idle"
  /\ intr' = "off"
  /\ UNCHANGED <<txvars, rxvars, handlers, snd, heap, lags>>
-----------------------------------------------------------------------------
\* The card: a descriptor between head and tail is transmitted and marked done.
CardTransmits ==
  /\ TDH # TDT
  /\ transmitted' = Append(transmitted, tx[TDH].frame)
  /\ tx' = [tx EXCEPT ![TDH].dd = TRUE]
  /\ TDH' = NextTx(TDH)
  /\ UNCHANGED <<tx_tail, TDT, made, sent, rxvars, handlers, snd, intr, heap, lags>>

\* A frame arrives and there is a descriptor for it.
CardReceives(kind) ==
  /\ RDH # RDT /\ Len(inbox) < MAX_RECVS
  /\ rx' = [rx EXCEPT ![RDH] = [dd |-> TRUE, frame |-> Len(inbox) + 1, kind |-> kind]]
  /\ RDH' = NextRx(RDH)
  /\ inbox' = Append(inbox, Len(inbox) + 1)
  /\ UNCHANGED <<txvars, rx_tail, RDT, polled, handlers, snd, intr, heap, lags>>

SendStep(c) ==
  SendFill(c) \/ SendTimeout(c) \/ SendArm(c) \/ SendAdvance(c) \/ SendKick(c)
InterruptStep ==
  e1000_poll \/ ethernet_rx \/ GiveBack \/ PollDone \/ InterruptReturn

Next ==
  \/ \E type \in EtherTypes : ethernet_register(type)
  \/ BootDone \/ TimerInterrupt \/ InterruptStep \/ CardTransmits
  \/ \E kind \in Kinds : CardReceives(kind)
  \/ \E c \in {"call", "intr"} : ethernet_send(c) \/ SendStep(c)

\* The processor runs what it started, the timer ticks, the card transmits.
Fairness ==
  /\ WF_vars(BootDone \/ \E type \in EtherTypes : ethernet_register(type))
  /\ \A c \in {"call", "intr"} : WF_vars(SendStep(c))
  /\ WF_vars(InterruptStep) /\ WF_vars(TimerInterrupt) /\ WF_vars(CardTransmits)

Spec == e1000_init /\ [][Next]_vars
FairSpec == Spec /\ Fairness
-----------------------------------------------------------------------------
\* A frame for which e1000_send returned 0, which e1000.h calls success, goes
\* out on the wire.
SentIsTransmitted ==
  \A f \in 1 .. MAX_SENDS : (f \in Range(sent)) ~> (f \in Range(transmitted))

\* Once no more frames come everything in the rings is dealt with: what was
\* sent is on the wire, unless the card lagged a whole ring behind, and what
\* arrived was consumed (e1000_send, e1000_poll).
RingsDrain == <>[](polled = inbox /\ (~lags => transmitted = sent))
=============================================================================
