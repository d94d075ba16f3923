------------------------------- MODULE MCTcp -------------------------------
(* Three instances of TCP, one per scenario, of which a behaviour takes     *)
(* one: in "data" a connection carries data through failing allocations,    *)
(* resets and closing; in "closing" FINs arrive again; in "reconnect" the   *)
(* client connects again while segments of its first connection are still   *)
(* about.  Both hosts start next_isn from the same seed.  The first number  *)
(* is two below the wrap.                                                   *)
EXTENDS TcpState

CONSTANTS TCP_RX_BUF_SIZE, TCP_MAX_RETRIES, MAX_OPEN

VARIABLE scenario
vars == <<conns, isn, net, scenario>>

Own == [h \in Hosts |-> h]
ClientSends(n) == [h \in Hosts |-> IF h \in Clients THEN n ELSE 0]

Data == INSTANCE Tcp WITH
          TCP_MAX_CONN <- 2, ISNs <- [h \in Hosts |-> <<14>>], Port <- Own,
          MAX_LEN <- 2, MAX_READ <- 1, MAX_SENT <- ClientSends(2),
          MAX_FINS <- 1, MAX_RSTS <- 1, KmallocResults <- {TRUE, FALSE}

Closing == INSTANCE Tcp WITH
          TCP_MAX_CONN <- 2, ISNs <- [h \in Hosts |-> <<14>>], Port <- Own,
          MAX_LEN <- 1, MAX_READ <- 0, MAX_SENT <- ClientSends(1),
          MAX_FINS <- 2, MAX_RSTS <- 0, KmallocResults <- {TRUE}

Reconnect == INSTANCE Tcp WITH
          TCP_MAX_RETRIES <- 0, TCP_MAX_CONN <- 3,
          ISNs <- [h \in Hosts |-> <<14, 3>>], Port <- Own,
          MAX_LEN <- 1, MAX_READ <- 0, MAX_SENT <- ClientSends(1),
          MAX_FINS <- 1, MAX_RSTS <- 0, KmallocResults <- {TRUE}

ASSUME LimitsHold ==
  /\ Data!Limits /\ Data!IsnsApart
  /\ Closing!Limits /\ Closing!IsnsApart
  /\ Reconnect!Limits /\ Reconnect!IsnsApart

Init ==
  \/ scenario = "data" /\ Data!tcp_init
  \/ scenario = "closing" /\ Closing!tcp_init
  \/ scenario = "reconnect" /\ Reconnect!tcp_init

Next ==
  \/ scenario = "data" /\ Data!Next /\ UNCHANGED scenario
  \/ scenario = "closing" /\ Closing!Next /\ UNCHANGED scenario
  \/ scenario = "reconnect" /\ Reconnect!Next /\ UNCHANGED scenario

\* The timer's fairness, as in Tcp's FairSpec.
Spec ==
  /\ Init /\ [][Next]_vars
  /\ \A h \in Hosts, i \in Data!Slots :
       WF_vars(scenario = "data" /\ Data!Tick(h, i) /\ UNCHANGED scenario)

\* TimersEnd of module Tcp: every armed retransmission and TIME_WAIT ends.
TimersEnd == scenario = "data" => Data!TimersEnd
=============================================================================
