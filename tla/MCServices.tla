----------------------------- MODULE MCServices -----------------------------
(* What programs wait for: sockets, with httpd or any program on them, and  *)
(* the terminal.  A behaviour is one of the two at work; the other stays as *)
(* it starts.                                                               *)
EXTENDS Httpd

CONSTANTS Printable, KB_BUF_SIZE, TTY_LBUF_SIZE, TTY_RBUF_SIZE, U32, ReadSizes,
          MAX_KEYS

VARIABLES scenario, kb, tty, reader, size, ch, line, typed, read, lost

T == INSTANCE Terminal WITH pc <- reader, got <- read

ttyvars == <<kb, tty, reader, size, ch, line, typed, read, lost>>
mcvars == <<scenario, allvars, ttyvars>>

MCInit ==
  /\ scenario \in {"sockets", "terminal"}
  /\ HInit /\ (scenario # "sockets" => pc = "any")
  /\ T!Init

InSockets(action) == scenario = "sockets" /\ action /\ UNCHANGED <<scenario, ttyvars>>
InTerminal(action) == scenario = "terminal" /\ action /\ UNCHANGED <<scenario, allvars>>

MCNext == InSockets(HNext) \/ InTerminal(T!Next)

\* The fairness of HSpec and of Terminal's FairSpec, each in its scenario; the
\* keyboard's buffer stays empty in the other.
MCSpec ==
  /\ MCInit /\ [][MCNext]_mcvars
  /\ WF_mcvars(InSockets(HttpdStep))
  /\ \A c \in Conns : WF_mcvars(InSockets(pc # "any" /\ Answered(c)))
  /\ []<>(T!Pending = <<>>)
  /\ WF_mcvars(InTerminal(T!ReaderStep))

\* ReadsWhatWasTyped of module Terminal: what is read is what was typed, a line
\* at a time.
ReadsWhatWasTyped == T!ReadsWhatWasTyped

\* EnterEndsRead of module Terminal: a read returns once Enter is typed.
EnterEndsRead == T!EnterEndsRead
=============================================================================
