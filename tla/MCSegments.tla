----------------------------- MODULE MCSegments -----------------------------
(* Segments between two machines and another host: control segments, data of *)
(* odd and even length, and resets; sequence numbers up to where they wrap.  *)
EXTENDS Segments

OddAndEven == {<<>>, <<255>>, <<0, 1>>}
NoPadding == {<<>>}
OnlyPlain == {Plain}
AroundWrap == {<<0, 0, 0, 1>>, <<255, 255, 255, 255>>}
=============================================================================
