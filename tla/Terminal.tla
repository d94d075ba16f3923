------------------------------ MODULE Terminal ------------------------------
(***************************************************************************)
(* From key to read(): the keyboard interrupt fills kb_buf                 *)
(* (src/src/keyboard/keyboard.c), the timer interrupt's tty_poll edits     *)
(* lines and moves finished ones to rbuf, and tty_read empties rbuf from   *)
(* a preemptible system call (src/src/tty/tty.c).  The two handlers run    *)
(* with interrupts masked and are one step each; between any two accesses  *)
(* of tty_read to the ring either may run.                                 *)
(***************************************************************************)
EXTENDS Integers, SequencesExt

CONSTANTS
  Printable,       \* the printable characters typed
  KB_BUF_SIZE, TTY_LBUF_SIZE, TTY_RBUF_SIZE,
  U32,             \* 2^32: ring indices are u32; the ring sizes divide it
  ReadSizes,       \* the sizes asked of tty_read
  MAX_KEYS         \* bound: characters the keyboard has produced

NL == "newline"
BS == "backspace"
ESC == "escape"          \* any control character the terminal drops
Chars == Printable \cup {NL, BS, ESC}
Silent == "silent"       \* a release, a prefix or a key with no character
Scancodes == Chars \cup {Silent}

VARIABLES
  kb,       \* [buf, head, tail]: kb_buf, kb_head (write), kb_tail (read)
  tty,      \* [lbuf, rbuf, head, tail]: lbuf, rbuf, rbuf_head, rbuf_tail
  pc,       \* where the reading process is in tty_read
  size,     \* the size it asked for
  ch,       \* the byte it has loaded
  line,     \* buf[0 .. n-1] of this read, and of the last one when pc = "user"
  typed,    \* history: the characters keyboard_getc has been or will be given
  got,      \* history: every byte read so far
  lost      \* history: a ring or the line buffer was full and dropped something

vars == <<kb, tty, pc, size, ch, line, typed, got, lost>>
reader == <<pc, size, ch, line, got>>

\* What is between the two indices of a ring of n slots.
Window(buf, from, to, n) == [i \in 1 .. (to - from) % n |-> buf[(from + i - 1) % n]]
Pending == Window(kb.buf, kb.tail, kb.head, KB_BUF_SIZE)
Unread == Window(tty.rbuf, tty.head, tty.tail, TTY_RBUF_SIZE)
-----------------------------------------------------------------------------
\* Mutant: no test for a full ring.
buf_push_blind(c) ==
  /\ kb' = [kb EXCEPT !.buf[kb.head] = c, !.head = (@ + 1) % KB_BUF_SIZE]
  /\ typed' = Append(typed, c)
  /\ UNCHANGED lost

buf_push(c) ==
  LET next == (kb.head + 1) % KB_BUF_SIZE IN
  \/ /\ next = kb.tail
     /\ lost' = TRUE
     /\ UNCHANGED <<kb, typed>>
  \/ /\ next # kb.tail
     /\ kb' = [kb EXCEPT !.buf[kb.head] = c, !.head = next]
     /\ typed' = Append(typed, c)
     /\ UNCHANGED lost

\* Releases, the 0xE0 prefix and keys without a character change nothing.
keyboard_irq_handler(sc) ==
  /\ Len(typed) < MAX_KEYS
  /\ IF sc = Silent THEN UNCHANGED <<kb, typed, lost>> ELSE buf_push(sc)
  /\ UNCHANGED <<tty, reader>>
-----------------------------------------------------------------------------
\* t is the terminal with the flag that something was dropped on the way.
rbuf_push(t, c) ==
  LET next == (t.tail + 1) % TTY_RBUF_SIZE IN
  IF next = t.head
  THEN [t EXCEPT !.lost = TRUE]
  ELSE [t EXCEPT !.rbuf[t.tail] = c, !.tail = next]

\* One turn of tty_poll's loop.
Cook(t, c) ==
  CASE c = NL -> [rbuf_push(FoldLeft(rbuf_push, t, t.lbuf), NL) EXCEPT !.lbuf = <<>>]
    [] c = BS -> [t EXCEPT !.lbuf = IF @ = <<>> THEN @ ELSE Front(@)]
    [] c \in Printable ->
         IF Len(t.lbuf) < TTY_LBUF_SIZE - 1
         THEN [t EXCEPT !.lbuf = Append(@, c)]
         ELSE [t EXCEPT !.lost = TRUE]
    [] OTHER -> t

\* tty_poll, a timer callback: keyboard_getc until the ring is empty.
tty_poll ==
  LET before == [lost |-> lost] @@ tty
      after  == FoldLeft(Cook, before, Pending)
  IN  /\ Pending # <<>>
      /\ kb' = [kb EXCEPT !.tail = kb.head]
      /\ tty' = [f \in DOMAIN tty |-> after[f]]
      /\ lost' = after.lost
      /\ UNCHANGED <<typed, reader>>
-----------------------------------------------------------------------------
rbuf_avail == ((tty.tail - tty.head) % U32) % TTY_RBUF_SIZE

\* tty_read is called with a buffer and a size other than 0.
tty_read(s) ==
  /\ pc = "user"
  /\ pc' = "avail" /\ size' = s /\ line' = <<>>
  /\ UNCHANGED <<kb, tty, ch, typed, got, lost>>

\* Mutant: waits for a second byte.
Avail_two ==
  /\ pc = "avail"
  /\ pc' = IF rbuf_avail > 1 THEN "pop" ELSE "yield"
  /\ UNCHANGED <<kb, tty, size, ch, line, typed, got, lost>>

\* The loop test on rbuf_avail: bytes to take, or scheduler_yield.
Avail ==
  /\ pc = "avail"
  /\ pc' = IF rbuf_avail > 0 THEN "pop" ELSE "yield"
  /\ UNCHANGED <<kb, tty, size, ch, line, typed, got, lost>>

\* scheduler_yield returns, some time after the timer ran.
Resume ==
  /\ pc = "yield"
  /\ pc' = "avail"
  /\ UNCHANGED <<kb, tty, size, ch, line, typed, got, lost>>

\* rbuf_pop up to the load; an empty ring ends the read.
rbuf_pop_load ==
  /\ pc = "pop"
  /\ IF tty.head = tty.tail
     THEN pc' = "user" /\ UNCHANGED ch
     ELSE pc' = "store" /\ ch' = tty.rbuf[tty.head]
  /\ UNCHANGED <<kb, tty, size, line, typed, got, lost>>

\* The head moves on, the byte goes to the caller, and a newline or a full
\* buffer ends the read.
rbuf_pop_store ==
  /\ pc = "store"
  /\ tty' = [tty EXCEPT !.head = (@ + 1) % TTY_RBUF_SIZE]
  /\ line' = Append(line, ch)
  /\ got' = Append(got, ch)
  /\ pc' = IF ch = NL \/ Len(line) + 1 = size THEN "user" ELSE "avail"
  /\ UNCHANGED <<kb, size, ch, typed, lost>>
-----------------------------------------------------------------------------
Init ==
  /\ kb = [buf |-> [i \in 0 .. KB_BUF_SIZE - 1 |-> Silent], head |-> 0, tail |-> 0]
  /\ tty = [lbuf |-> <<>>, rbuf |-> [i \in 0 .. TTY_RBUF_SIZE - 1 |-> Silent],
            head |-> 0, tail |-> 0]
  /\ pc = "user" /\ size = 0 /\ ch = Silent /\ line = <<>>
  /\ typed = <<>> /\ got = <<>> /\ lost = FALSE

ReaderStep == Avail \/ Resume \/ rbuf_pop_load \/ rbuf_pop_store

Next ==
  \/ \E sc \in Scancodes : keyboard_irq_handler(sc)
  \/ tty_poll
  \/ \E s \in ReadSizes : tty_read(s)
  \/ ReaderStep

Spec == Init /\ [][Next]_vars

\* The timer keeps running, which empties kb_buf again and again (this is weak
\* fairness of tty_poll, written without ENABLED), and no process starves
\* (Scheduler).
FairSpec == Spec /\ []<>(Pending = <<>>) /\ WF_vars(ReaderStep)
-----------------------------------------------------------------------------
\* What the line editor should make of a history of keys, said without a
\* buffer: a key is erased when, before the end of its line, the backspaces
\* after it come to outnumber the printable keys after it.
Count(s, i, j, S) == Len(SelectSeq(SubSeq(s, i, j), LAMBDA c : c \in S))
Erased(s, i) ==
  \E j \in i + 1 .. Len(s) :
    /\ Count(s, i, j, {NL}) = 0
    /\ Count(s, i + 1, j, {BS}) > Count(s, i + 1, j, Printable)
Finished(s, i) == Count(s, i, Len(s), {NL}) > 0
Lines(s) ==
  LET keeps(i) == s[i] \in Printable \cup {NL} /\ Finished(s, i) /\ ~Erased(s, i)
      kept == SelectSeq([i \in 1 .. Len(s) |-> i], keeps)
  IN  [k \in DOMAIN kept |-> s[kept[k]]]

Polled == SubSeq(typed, 1, Len(typed) - Len(Pending))

\* a is b with some elements left out.
IsSubsequence(a, b) ==
  LET take(rest, c) == IF rest # <<>> /\ Head(rest) = c THEN Tail(rest) ELSE rest
  IN  FoldLeft(take, a, b) = <<>>

\* What has been read, followed by what waits in rbuf, is exactly the finished
\* lines of what was typed, edited: no byte doubled, skipped or out of order,
\* however the interrupts fall between the steps of tty_read.  When a buffer
\* has overflowed characters are missing, and still nothing is invented,
\* repeated or reordered (tty_poll, rbuf_push, rbuf_pop, buf_push).  And each
\* read returns one line or a part of one: it is never empty, only its last
\* byte can be a newline, and without one it has the size asked for.
ReadsWhatWasTyped ==
  /\ IF lost THEN IsSubsequence(got \o Unread, Lines(Polled))
             ELSE got \o Unread = Lines(Polled)
  /\ pc = "user" /\ size > 0 =>
       /\ line # <<>>
       /\ \A i \in 1 .. Len(line) - 1 : line[i] # NL
       /\ Last(line) = NL \/ Len(line) = size

\* Once a newline has been typed and nothing was dropped, a process inside
\* tty_read returns: its yield loop cannot miss the line.
EnterEndsRead ==
  (pc # "user" /\ ~lost /\ NL \in Range(Unread \o Pending)) ~> (pc = "user" \/ lost)
=============================================================================
